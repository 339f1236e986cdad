----------------------------- MODULE OwnerStore -----------------------------
(***************************************************************************)
(* The durable store of canonical-writer ownership                         *)
(* (internal/runtimehost/recordingowner/store.go).                         *)
(*                                                                         *)
(* One file per Recording holds the fencing tuple: which Engine worker may *)
(* write the archive, under which epoch, and whether the tuple is active   *)
(* or a fenced tombstone.  Every operation runs under the flock of the     *)
(* shard its Recording hashes to; a recovery takes every shard.            *)
(*                                                                         *)
(* A caller is a thread of a process that opened the store.  A write is    *)
(* modelled step by step (temp file, rename, directory sync), because a    *)
(* crash or an I/O error between two of them is what the epoch has to      *)
(* survive.                                                                *)
(*                                                                         *)
(* Abstractions:                                                           *)
(*  - Engine generation and worker instance are one identity, a Worker.    *)
(*  - Identities and record files are well formed: their syntactic checks  *)
(*    (ErrInvalidIdentity, ErrInvalidState) are not modelled.              *)
(*  - Current has no effect beyond taking the lock, and is left out.       *)
(*  - An epoch is bounded by MaxEpoch, which stands for 2^64 - 1.          *)
(***************************************************************************)
EXTENDS Naturals

CONSTANTS
  Recordings,   \* archive identifiers
  Workers,      \* Engine identities: generation and worker instance
  Callers,      \* threads that call the store, in any process
  Shards,       \* number of lock shards; shard indexes are 0 .. Shards - 1
  ShardOf,      \* the shard a Recording hashes to
  MaxEpoch,     \* the greatest epoch (2^64 - 1 in the code)
  NoWorker,     \* the worker of an absent record
  Free          \* the holder of a shard nobody locked

ASSUME ConstantsAssumption ==
  /\ Shards \in Nat \ {0}
  /\ ShardOf \in [Recordings -> 0 .. Shards - 1]
  /\ MaxEpoch \in Nat \ {0}
  /\ NoWorker \notin Workers
  /\ Free \notin Callers

VARIABLES
  visible,   \* the record a reader of the directory finds, per Recording
  maybe,     \* the records a power loss may leave, per Recording
  residue,   \* a writer died between CreateTemp and Rename
  lock,      \* the holder of each shard's flock
  call,      \* what each caller is doing
  issued     \* the tokens a successful call returned, per Recording

vars == <<visible, maybe, residue, lock, call, issued>>

-----------------------------------------------------------------------------
(* Data.                                                                   *)

ShardIndexes == 0 .. Shards - 1

Token == [worker : Workers, epoch : 1 .. MaxEpoch]

Absent == [state |-> "absent", worker |-> NoWorker, epoch |-> 0]

Record ==
  {Absent} \cup [state : {"active", "fenced"}, worker : Workers, epoch : 1 .. MaxEpoch]

Active(t) == [state |-> "active", worker |-> t.worker, epoch |-> t.epoch]
Fenced(t) == [state |-> "fenced", worker |-> t.worker, epoch |-> t.epoch]

\* readOwner: a fenced tombstone counts as no owner at all.
OwnedBy(r, t) == visible[r] = Active(t)

\* A caller between operations, and one whose process is gone.
Idle == [at |-> "idle"]
Down == [at |-> "down"]

\* Operations on one Recording: waiting for its lock, then in one of the
\* steps of writeOwnerRecord, or inside a commit callback.
OneShardCall ==
       [at : {"claim"}, rec : Recordings, worker : Workers]
  \cup [at : {"transfer"}, rec : Recordings, expected : Token, worker : Workers]
  \cup [at : {"release", "withCommit", "commit"}, rec : Recordings, expected : Token]
  \cup [at : {"withUnowned", "unowned"}, rec : Recordings]
  \cup [at : {"rename", "sync"}, rec : Recordings, record : Record \ {Absent}]

\* A recovery: taking the shards from next on, fencing, in the callback.
RecoveryCall ==
       [at : {"acquire"}, next : 0 .. Shards]
  \cup [at : {"fence", "recover"}]
  \cup [at : {"fenceRename", "fenceSync"}, rec : Recordings, record : Record \ {Absent}]

Call == {Idle, Down} \cup OneShardCall \cup RecoveryCall

Shard(c) == ShardOf[call[c].rec]

\* The caller leaves the operation and every flock it holds is released:
\* the deferred unlocks, or the kernel when its process dies.
Finish(c, to) ==
  /\ lock' = [s \in ShardIndexes |-> IF lock[s] = c THEN Free ELSE lock[s]]
  /\ call' = [call EXCEPT ![c] = to]

Goto(c, to) == call' = [call EXCEPT ![c] = to] /\ UNCHANGED lock

-----------------------------------------------------------------------------
(* Opening the store.  Open synchronizes the owners directory, so whatever *)
(* an earlier process renamed is durable once a new process is running.    *)

Open(c) ==
  /\ call[c] = Down
  /\ maybe' = [r \in Recordings |-> {visible[r]}]
  /\ call' = [call EXCEPT ![c] = Idle]
  /\ UNCHANGED <<visible, residue, lock, issued>>

(* Calls.  A token is used by whoever once received it, however old.       *)

Begin(c, request) ==
  /\ call[c] = Idle
  /\ call' = [call EXCEPT ![c] = request]
  /\ UNCHANGED <<visible, maybe, residue, lock, issued>>

BeginClaim(c) ==
  \E r \in Recordings, w \in Workers :
    Begin(c, [at |-> "claim", rec |-> r, worker |-> w])

BeginTransfer(c) ==
  \E r \in Recordings, w \in Workers : \E t \in issued[r] :
    Begin(c, [at |-> "transfer", rec |-> r, expected |-> t, worker |-> w])

BeginRelease(c) ==
  \E r \in Recordings : \E t \in issued[r] :
    Begin(c, [at |-> "release", rec |-> r, expected |-> t])

BeginWithCommit(c) ==
  \E r \in Recordings : \E t \in issued[r] :
    Begin(c, [at |-> "withCommit", rec |-> r, expected |-> t])

BeginWithUnownedCommit(c) ==
  \E r \in Recordings : Begin(c, [at |-> "withUnowned", rec |-> r])

BeginRecovery(c) == Begin(c, [at |-> "acquire", next |-> 0])

-----------------------------------------------------------------------------
(* The locked part of the one-shard operations.  Each takes the flock,     *)
(* reads the record and decides; nothing else can change the record while  *)
(* the lock is held, so the read and the decision are one step.            *)

\* The caller's step once the flock is its own: keep it and go on, or
\* return an error and drop it.
Locked(c, to) ==
  /\ lock[Shard(c)] = Free
  /\ lock' = [lock EXCEPT ![Shard(c)] = c]
  /\ call' = [call EXCEPT ![c] = to]
  /\ UNCHANGED <<visible, maybe, residue, issued>>

Refused(c) ==
  /\ lock[Shard(c)] = Free
  /\ call' = [call EXCEPT ![c] = Idle]
  /\ UNCHANGED <<visible, maybe, residue, lock, issued>>

\* CreateTemp, Write and Sync of the temporary file come before the rename;
\* an error there removes the file again and fails the call (Refused).
Writing(c, record) ==
  \/ Locked(c, [at |-> "rename", rec |-> call[c].rec, record |-> record])
  \/ Refused(c)

Claim(c) ==
  /\ call[c].at = "claim"
  /\ LET cur == visible[call[c].rec] IN
       IF cur.state = "active" \/ cur.epoch = MaxEpoch
       THEN Refused(c)
       ELSE Writing(c, Active([worker |-> call[c].worker, epoch |-> cur.epoch + 1]))

Transfer(c) ==
  /\ call[c].at = "transfer"
  /\ LET cur == visible[call[c].rec] IN
       IF ~OwnedBy(call[c].rec, call[c].expected) \/ cur.epoch = MaxEpoch
       THEN Refused(c)
       ELSE Writing(c, Active([worker |-> call[c].worker, epoch |-> cur.epoch + 1]))

Release(c) ==
  /\ call[c].at = "release"
  /\ IF ~OwnedBy(call[c].rec, call[c].expected)
     THEN Refused(c)
     ELSE Writing(c, Fenced(call[c].expected))

\* Fault: a commit that compares the worker but not the epoch.
WithCommitOfWorker(c) ==
  /\ call[c].at = "withCommit"
  /\ LET cur == visible[call[c].rec] IN
       IF cur.state # "active" \/ cur.worker # call[c].expected.worker
       THEN Refused(c)
       ELSE Locked(c, [call[c] EXCEPT !.at = "commit"])

\* Fault: a commit that accepts a fenced tombstone.
WithCommitOfTombstone(c) ==
  /\ call[c].at = "withCommit"
  /\ IF visible[call[c].rec] \notin {Active(call[c].expected), Fenced(call[c].expected)}
     THEN Refused(c)
     ELSE Locked(c, [call[c] EXCEPT !.at = "commit"])

WithCommit(c) ==
  /\ call[c].at = "withCommit"
  /\ IF ~OwnedBy(call[c].rec, call[c].expected)
     THEN Refused(c)
     ELSE Locked(c, [call[c] EXCEPT !.at = "commit"])

WithUnownedCommit(c) ==
  /\ call[c].at = "withUnowned"
  /\ IF visible[call[c].rec].state = "active"
     THEN Refused(c)
     ELSE Locked(c, [call[c] EXCEPT !.at = "unowned"])

\* The callback returns, with or without an error.
EndCommit(c) ==
  /\ call[c].at \in {"commit", "unowned"}
  /\ Finish(c, Idle)
  /\ UNCHANGED <<visible, maybe, residue, issued>>

\* os.Rename publishes the record; if it fails the temporary file is removed
\* and the call returns an error.
Rename(c) ==
  /\ call[c].at = "rename"
  /\ \/ /\ visible' = [visible EXCEPT ![call[c].rec] = call[c].record]
        /\ maybe' = [maybe EXCEPT ![call[c].rec] = @ \cup {call[c].record}]
        /\ Goto(c, [call[c] EXCEPT !.at = "sync"])
     \/ Finish(c, Idle) /\ UNCHANGED <<visible, maybe>>
  /\ UNCHANGED <<residue, issued>>

\* syncDirectory makes every rename of the directory durable.  Only then does
\* Claim or Transfer return its token; an error here returns no token although
\* the record stays published.
Sync(c) ==
  /\ call[c].at = "sync"
  /\ LET rec == call[c].record IN
     \/ /\ maybe' = [r \in Recordings |-> {visible[r]}]
        /\ issued' = IF rec.state = "active"
                     THEN [issued EXCEPT ![call[c].rec] =
                             @ \cup {[worker |-> rec.worker, epoch |-> rec.epoch]}]
                     ELSE issued
     \/ UNCHANGED <<maybe, issued>>
  /\ Finish(c, Idle)
  /\ UNCHANGED <<visible, residue>>

-----------------------------------------------------------------------------
(* WithFencedRecovery: every shard in ascending order, crash remnants      *)
(* removed, every active owner fenced one file at a time, then the         *)
(* callback.  An error makes the caller's startup fail: its process ends.  *)

\* Fault: a recovery that takes the shards in no fixed order.
AcquireAnyOrder(c) ==
  /\ call[c].at = "acquire"
  /\ call[c].next < Shards
  /\ \E s \in ShardIndexes :
       /\ lock[s] = Free
       /\ lock' = [lock EXCEPT ![s] = c]
  /\ call' = [call EXCEPT ![c].next = @ + 1]
  /\ UNCHANGED <<visible, maybe, residue, issued>>

\* withAllLocks; the last acquisition is followed by reconcileOwnerTempFiles,
\* which removes every remnant and synchronizes the directory if there was one.
Acquire(c) ==
  /\ call[c].at = "acquire"
  /\ call[c].next < Shards
  /\ lock[call[c].next] = Free
  /\ lock' = [lock EXCEPT ![call[c].next] = c]
  /\ call' = [call EXCEPT ![c].next = @ + 1]
  /\ UNCHANGED <<visible, maybe, residue, issued>>

\* Fault: a recovery that starts before it holds the last shard.
ReconcileEarly(c) ==
  /\ call[c].at = "acquire"
  /\ call[c].next = Shards - 1
  /\ Goto(c, [at |-> "fence"])
  /\ UNCHANGED <<visible, maybe, residue, issued>>

Reconcile(c) ==
  /\ call[c].at = "acquire"
  /\ call[c].next = Shards
  /\ \/ /\ maybe' = IF residue THEN [r \in Recordings |-> {visible[r]}] ELSE maybe
        /\ residue' = FALSE
        /\ Goto(c, [at |-> "fence"])
     \/ Finish(c, Down) /\ UNCHANGED <<maybe, residue>>
  /\ UNCHANGED <<visible, issued>>

FenceOne(c) ==
  /\ call[c].at = "fence"
  /\ \E r \in Recordings :
       /\ visible[r].state = "active"
       /\ \/ Goto(c, [at |-> "fenceRename", rec |-> r, record |-> Fenced(visible[r])])
          \/ Finish(c, Down)
  /\ UNCHANGED <<visible, maybe, residue, issued>>

FenceRename(c) ==
  /\ call[c].at = "fenceRename"
  /\ \/ /\ visible' = [visible EXCEPT ![call[c].rec] = call[c].record]
        /\ maybe' = [maybe EXCEPT ![call[c].rec] = @ \cup {call[c].record}]
        /\ Goto(c, [call[c] EXCEPT !.at = "fenceSync"])
     \/ Finish(c, Down) /\ UNCHANGED <<visible, maybe>>
  /\ UNCHANGED <<residue, issued>>

FenceSync(c) ==
  /\ call[c].at = "fenceSync"
  /\ \/ maybe' = [r \in Recordings |-> {visible[r]}] /\ Goto(c, [at |-> "fence"])
     \/ Finish(c, Down) /\ UNCHANGED maybe
  /\ UNCHANGED <<visible, residue, issued>>

Recover(c) ==
  /\ call[c].at = "fence"
  /\ \A r \in Recordings : visible[r].state # "active"
  /\ Goto(c, [at |-> "recover"])
  /\ UNCHANGED <<visible, maybe, residue, issued>>

EndRecovery(c) ==
  /\ call[c].at = "recover"
  /\ \/ Finish(c, Idle)
     \/ Finish(c, Down)
  /\ UNCHANGED <<visible, maybe, residue, issued>>

-----------------------------------------------------------------------------
(* Crashes.                                                                *)

\* The caller's process dies: the kernel drops its flocks, and a temporary
\* file it had not renamed stays behind.
Crash(c) ==
  /\ call[c] # Down
  /\ residue' = (residue \/ call[c].at \in {"rename", "fenceRename"})
  /\ Finish(c, Down)
  /\ UNCHANGED <<visible, maybe, issued>>

\* The machine loses power: every process dies and a rename whose directory
\* was never synchronized may be undone.
PowerLoss ==
  /\ \E disk \in [Recordings -> UNION {maybe[r] : r \in Recordings}] :
       /\ \A r \in Recordings : disk[r] \in maybe[r]
       /\ visible' = disk
       /\ maybe' = [r \in Recordings |-> {disk[r]}]
  /\ residue' = (residue \/ \E c \in Callers : call[c].at \in {"rename", "fenceRename"})
  /\ lock' = [s \in ShardIndexes |-> Free]
  /\ call' = [c \in Callers |-> Down]
  /\ UNCHANGED issued

-----------------------------------------------------------------------------
Init ==
  /\ visible = [r \in Recordings |-> Absent]
  /\ maybe = [r \in Recordings |-> {Absent}]
  /\ residue = FALSE
  /\ lock = [s \in ShardIndexes |-> Free]
  /\ call = [c \in Callers |-> Down]
  /\ issued = [r \in Recordings |-> {}]

BeginCall(c) ==
  \/ BeginClaim(c) \/ BeginTransfer(c) \/ BeginRelease(c)
  \/ BeginWithCommit(c) \/ BeginWithUnownedCommit(c) \/ BeginRecovery(c)

OneShardStep(c) ==
  \/ Claim(c) \/ Transfer(c) \/ Release(c) \/ WithCommit(c) \/ WithUnownedCommit(c)
  \/ EndCommit(c) \/ Rename(c) \/ Sync(c)

RecoveryStep(c) ==
  \/ Acquire(c) \/ Reconcile(c) \/ FenceOne(c) \/ FenceRename(c) \/ FenceSync(c)
  \/ Recover(c) \/ EndRecovery(c)

Next ==
  \/ \E c \in Callers :
       Open(c) \/ BeginCall(c) \/ OneShardStep(c) \/ RecoveryStep(c) \/ Crash(c)
  \/ PowerLoss

Spec == Init /\ [][Next]_vars

-----------------------------------------------------------------------------
(* Properties.                                                             *)

TypeOK ==
  /\ visible \in [Recordings -> Record]
  /\ maybe \in [Recordings -> SUBSET Record]
  /\ residue \in BOOLEAN
  /\ lock \in [ShardIndexes -> Callers \cup {Free}]
  /\ call \in [Callers -> Call]
  /\ issued \in [Recordings -> SUBSET Token]

\* The caller is between the locked decision and the release of the lock.
InsideOneShard(c) == call[c].at \in {"rename", "sync", "commit", "unowned"}
InsideRecovery(c) == call[c].at \in {"fence", "fenceRename", "fenceSync", "recover"}

\* A commit callback, a deletion callback or an owner transition of one
\* Recording never overlaps another one, and none overlaps the fencing or the
\* callback of a recovery (WithCommit, WithUnownedCommit, WithFencedRecovery).
OneAtATime ==
  \A c, d \in Callers :
    /\ InsideRecovery(c) /\ c # d => ~InsideOneShard(d) /\ ~InsideRecovery(d)
    /\ InsideOneShard(c) /\ InsideOneShard(d) /\ c # d => call[c].rec # call[d].rec

\* While a canonical commit runs, its token is the owner on disk and no newer
\* token was ever returned; while an unowned mutation or a recovery callback
\* runs, no owner is active (WithCommit, WithUnownedCommit, WithFencedRecovery).
CommitHoldsNewestToken ==
  \A c \in Callers :
    /\ call[c].at = "commit" =>
         /\ OwnedBy(call[c].rec, call[c].expected)
         /\ \A t \in issued[call[c].rec] : t.epoch <= call[c].expected.epoch
    /\ call[c].at = "unowned" => visible[call[c].rec].state # "active"
    /\ call[c].at = "recover" => \A r \in Recordings : visible[r].state # "active"

\* An epoch names one token for ever: two successful Claim or Transfer calls
\* of a Recording never return the same epoch, across errors after the rename,
\* crashes and power losses ("reusing an archive ID can never make a stale
\* worker token valid again").
EpochIssuedOnce ==
  \A r \in Recordings : \A t, u \in issued[r] : t.epoch = u.epoch => t = u

\* Whatever a power loss leaves of a record, its epoch is at least that of
\* every token returned: the tombstone is a durable high-water mark.
DurableHighWater ==
  \A r \in Recordings : \A record \in maybe[r], t \in issued[r] :
    record.epoch >= t.epoch

\* The lock order of recoveries and one-shard calls is free of circular
\* waits: whenever a call waits for a shard, some call can go on.
Waiting(c) ==
  \/ /\ call[c].at \in {"claim", "transfer", "release", "withCommit", "withUnowned"}
     /\ lock[Shard(c)] # Free
  \/ /\ call[c].at = "acquire"
     /\ call[c].next < Shards
     /\ lock[call[c].next] # Free

NoCircularWait ==
  (\E c \in Callers : Waiting(c)) =>
     \E c \in Callers : call[c] \notin {Idle, Down} /\ ~Waiting(c)

\* The inductive invariant behind the properties above: who holds which
\* shards, and how the record about to be written relates to the one on disk.
HoldsLocks ==
  \A c \in Callers :
    /\ InsideOneShard(c) => lock[Shard(c)] = c
    /\ call[c].at = "acquire" => \A s \in ShardIndexes : s < call[c].next => lock[s] = c
    /\ InsideRecovery(c) => \A s \in ShardIndexes : lock[s] = c

WriteFollowsRecord ==
  \A c \in Callers :
    /\ call[c].at = "rename" =>
         LET old == visible[call[c].rec]  new == call[c].record IN
           \/ new.state = "active" /\ new.epoch = old.epoch + 1
           \/ new = Fenced(old)
    /\ call[c].at = "sync" =>
         /\ call[c].record = visible[call[c].rec]
         /\ call[c].record.state = "active" =>
              \A t \in issued[call[c].rec] : t.epoch < call[c].record.epoch
    /\ call[c].at = "fenceRename" => call[c].record = Fenced(visible[call[c].rec])

VisibleMayRemain == \A r \in Recordings : visible[r] \in maybe[r]

IInv ==
  /\ TypeOK /\ HoldsLocks /\ WriteFollowsRecord /\ VisibleMayRemain
  /\ CommitHoldsNewestToken /\ EpochIssuedOnce /\ DurableHighWater

\* The store implements the abstract fence: its newest token is the one of
\* the greatest epoch ever returned, and it is valid while the record names it.
NewestIssued(r) ==
  IF issued[r] = {}
  THEN Absent
  ELSE CHOOSE t \in issued[r] : \A u \in issued[r] : u.epoch <= t.epoch

Fence == INSTANCE WriterFence WITH
  NoToken <- Absent,
  newest <- [r \in Recordings |-> NewestIssued(r)],
  valid <- [r \in Recordings |-> \E t \in issued[r] : OwnedBy(r, t)],
  committing <- [r \in Recordings |->
                   \E c \in Callers : call[c].at = "commit" /\ call[c].rec = r]

ImplementsFence == Fence!FenceSpec
=============================================================================
