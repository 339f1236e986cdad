------------------------------ MODULE MCIngest ------------------------------
(***************************************************************************)
(* Model checking of Ingest: two payloads, of one Engine or of two, of one *)
(* Recording or of two.  Engines and Recordings are alike.                 *)
(***************************************************************************)
EXTENDS Ingest, TLC

CONSTANTS e1, e2, p1, p2, r1, r2

MCAssignments ==
  [home : {(p1 :> e1) @@ (p2 :> e) : e \in {e1, e2}}, rec : {(p1 :> r1) @@ (p2 :> r) : r \in {r1, r2}}]
=============================================================================
