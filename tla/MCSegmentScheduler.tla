------------------------- MODULE MCSegmentScheduler -------------------------
(***************************************************************************)
(* Instances of SegmentScheduler for TLC.                                  *)
(***************************************************************************)
EXTENDS SegmentScheduler
=============================================================================
