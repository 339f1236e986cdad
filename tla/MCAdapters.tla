---------------------------- MODULE MCAdapters ----------------------------
(* Two workflows of one adapter, interchangeable: every property is a state
   predicate that treats them alike. *)
EXTENDS Adapters, TLC

Alike == Permutations(Workflows)
=============================================================================
