---------------------------- MODULE MCOwnerStore ----------------------------
(* Instances of OwnerStore for TLC. *)
EXTENDS OwnerStore, TLC

CONSTANTS r1, r2, w1, w2, c1, c2

\* Two Recordings on different shards.
TwoShards == (r1 :> 0) @@ (r2 :> 1)

\* Two Recordings that hash to the same shard, beside an unused shard.
SharedShard == (r1 :> 1) @@ (r2 :> 1)

WorkersAndCallers == Permutations({w1, w2}) \cup Permutations({c1, c2})
=============================================================================
