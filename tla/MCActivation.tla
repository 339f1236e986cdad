---------------------------- MODULE MCActivation ----------------------------
(***************************************************************************)
(* Instances of Activation for TLC.                                        *)
(***************************************************************************)
EXTENDS Activation, TLC

\* No operation tells generations apart.
Symmetry == Permutations(Generations)
=============================================================================
