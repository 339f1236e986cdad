---------------------------- MODULE WriterFence ----------------------------
(***************************************************************************)
(* What the owner store promises about the canonical writer of each        *)
(* Recording (internal/runtimehost/recordingowner/store.go: the Owner      *)
(* type, Claim, Transfer, Release, WithCommit).                            *)
(*                                                                         *)
(* Tokens are granted one after another under growing epochs.  A commit    *)
(* runs only under the newest granted token, and nothing is granted or     *)
(* revoked while it runs.  A revocation may be undone by a power loss, but *)
(* only back to the newest token: an older one never commits again.        *)
(***************************************************************************)
EXTENDS Naturals

CONSTANTS Recordings, Workers, MaxEpoch, NoToken

VARIABLES
  newest,      \* the token granted last, per Recording
  valid,       \* whether that token may still commit
  committing   \* whether a commit under it is running

fenceVars == <<newest, valid, committing>>

Grants == [worker : Workers, epoch : 1 .. MaxEpoch]

FenceInit ==
  /\ newest = [r \in Recordings |-> NoToken]
  /\ valid = [r \in Recordings |-> FALSE]
  /\ committing = [r \in Recordings |-> FALSE]

Grant(r) ==
  /\ ~committing[r]
  /\ \E t \in Grants :
       /\ newest[r] # NoToken => t.epoch > newest[r].epoch
       /\ newest' = [newest EXCEPT ![r] = t]
  /\ valid' = [valid EXCEPT ![r] = TRUE]
  /\ UNCHANGED committing

\* The record on disk stops naming the newest token.
Revoke(r) ==
  /\ ~committing[r]
  /\ valid' = [valid EXCEPT ![r] = FALSE]
  /\ UNCHANGED <<newest, committing>>

BeginWrite(r) ==
  /\ valid[r] /\ ~committing[r]
  /\ committing' = [committing EXCEPT ![r] = TRUE]
  /\ UNCHANGED <<newest, valid>>

EndWrite(r) ==
  /\ committing' = [committing EXCEPT ![r] = FALSE]
  /\ UNCHANGED <<newest, valid>>

\* Every commit is cut short, and unsynchronized revocations are undone or not.
Blackout ==
  /\ valid' \in [Recordings -> BOOLEAN]
  /\ \A r \in Recordings : valid'[r] => newest[r] # NoToken
  /\ committing' = [r \in Recordings |-> FALSE]
  /\ UNCHANGED newest

FenceNext ==
  \/ \E r \in Recordings : Grant(r) \/ Revoke(r) \/ BeginWrite(r) \/ EndWrite(r)
  \/ Blackout

FenceSpec == FenceInit /\ [][FenceNext]_fenceVars
=============================================================================
