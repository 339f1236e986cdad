----------------------------- MODULE MCArchive -----------------------------
(***************************************************************************)
(* Model checking of Archive.                                              *)
(***************************************************************************)
EXTENDS Archive, TLC

\* The segments are alike.
SegmentSymmetry == Permutations(Segments)
=============================================================================
