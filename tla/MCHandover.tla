----------------------------- MODULE MCHandover -----------------------------
(***************************************************************************)
(* Instances of Handover for TLC.                                          *)
(***************************************************************************)
EXTENDS Handover, TLC

\* No operation tells the Engines apart.
Symmetry == Permutations(Engines)

AllSteps == HostSteps \cup {"claim"}
=============================================================================
