-------------------------- MODULE OwnerStoreProofs --------------------------
(***************************************************************************)
(* Theorems about OwnerStore for any number of Recordings, workers,        *)
(* callers and shards.                                                     *)
(***************************************************************************)
EXTENDS OwnerStore, WellFoundedInduction, TLAPS

USE ConstantsAssumption

-----------------------------------------------------------------------------
(* Data.                                                                   *)

\* The records built from tokens are records, and their fields are what they
\* were built from.
LEMMA RecordFields ==
  ASSUME NEW t \in [worker : Workers, epoch : 1 .. MaxEpoch]
  PROVE  /\ Active(t) \in Record \ {Absent}
         /\ Fenced(t) \in Record \ {Absent}
BY DEF Active, Fenced, Record, Absent

\* The set of calls is closed under what the steps write.
LEMMA CallForms ==
  /\ Idle \in Call /\ Down \in Call
  /\ \A r \in Recordings, record \in Record \ {Absent} :
       /\ [at |-> "rename", rec |-> r, record |-> record] \in Call
       /\ [at |-> "sync", rec |-> r, record |-> record] \in Call
       /\ [at |-> "fenceRename", rec |-> r, record |-> record] \in Call
       /\ [at |-> "fenceSync", rec |-> r, record |-> record] \in Call
  /\ [at |-> "fence"] \in Call /\ [at |-> "recover"] \in Call
  /\ \A n \in 0 .. Shards : [at |-> "acquire", next |-> n] \in Call
  /\ \A r \in Recordings, t \in Token : [at |-> "commit", rec |-> r, expected |-> t] \in Call
  /\ \A r \in Recordings : [at |-> "unowned", rec |-> r] \in Call
BY DEF Call, OneShardCall, RecoveryCall

\* What the label of a call says of its form.
LEMMA CallByLabel ==
  ASSUME NEW x \in Call
  PROVE  /\ x.at \in {"rename", "sync", "fenceRename", "fenceSync"} =>
              /\ x.rec \in Recordings
              /\ x.record \in Record \ {Absent}
              /\ x = [at |-> x.at, rec |-> x.rec, record |-> x.record]
         /\ x.at = "claim" => x.rec \in Recordings /\ x.worker \in Workers
         /\ x.at = "transfer" =>
              x.rec \in Recordings /\ x.worker \in Workers /\ x.expected \in Token
         /\ x.at \in {"release", "withCommit", "commit"} =>
              /\ x.rec \in Recordings
              /\ x.expected \in Token
              /\ x = [at |-> x.at, rec |-> x.rec, expected |-> x.expected]
         /\ x.at \in {"withUnowned", "unowned"} =>
              /\ x.rec \in Recordings
              /\ x = [at |-> x.at, rec |-> x.rec]
         /\ x.at = "acquire" =>
              /\ x.next \in 0 .. Shards
              /\ x = [at |-> x.at, next |-> x.next]
BY DEF Call, OneShardCall, RecoveryCall, Idle, Down

-----------------------------------------------------------------------------
(* Type correctness.                                                       *)

\* The primitives of locking keep the types of the variables they write.
LEMMA LockingTypes ==
  ASSUME TypeOK, NEW c \in Callers, NEW to \in Call
  PROVE  /\ Finish(c, to) => lock' \in [ShardIndexes -> Callers \cup {Free}] /\ call' \in [Callers -> Call]
         /\ Goto(c, to) => lock' \in [ShardIndexes -> Callers \cup {Free}] /\ call' \in [Callers -> Call]
         /\ Locked(c, to) => TypeOK'
         /\ Refused(c) => TypeOK'
<1>1. Finish(c, to) => lock' \in [ShardIndexes -> Callers \cup {Free}] /\ call' \in [Callers -> Call]
  BY DEF TypeOK, Finish
<1>2. Goto(c, to) => lock' \in [ShardIndexes -> Callers \cup {Free}] /\ call' \in [Callers -> Call]
  BY DEF TypeOK, Goto
<1>3. Locked(c, to) => TypeOK'
  <2> SUFFICES ASSUME Locked(c, to) PROVE TypeOK'
    OBVIOUS
  <2>1. lock' \in [ShardIndexes -> Callers \cup {Free}]
    BY DEF TypeOK, Locked
  <2>2. call' \in [Callers -> Call]
    BY DEF TypeOK, Locked
  <2> QED BY <2>1, <2>2 DEF TypeOK, Locked
<1>4. Refused(c) => TypeOK'
  BY CallForms DEF TypeOK, Refused
<1> QED BY <1>1, <1>2, <1>3, <1>4

\* A synchronized directory holds exactly what a reader sees.
LEMMA DirectoryTypes ==
  TypeOK => [r \in Recordings |-> {visible[r]}] \in [Recordings -> SUBSET Record]
BY DEF TypeOK

LEMMA BeginTypes ==
  ASSUME TypeOK, NEW c \in Callers, BeginCall(c)
  PROVE  TypeOK'
<1>1. ASSUME NEW request \in Call, Begin(c, request)
      PROVE  TypeOK'
  BY <1>1 DEF TypeOK, Begin
<1>2. CASE BeginClaim(c)
  <2>1. \A r \in Recordings, w \in Workers : [at |-> "claim", rec |-> r, worker |-> w] \in Call
    BY DEF Call, OneShardCall
  <2>2. QED BY <1>1, <1>2, <2>1 DEF BeginClaim
<1>3. CASE BeginTransfer(c)
  <2>1. \A r \in Recordings, w \in Workers, t \in Token :
          [at |-> "transfer", rec |-> r, expected |-> t, worker |-> w] \in Call
    BY DEF Call, OneShardCall
  <2>2. QED BY <1>1, <1>3, <2>1 DEF BeginTransfer, TypeOK
<1>4. CASE BeginRelease(c) \/ BeginWithCommit(c)
  <2>1. \A r \in Recordings, t \in Token :
          /\ [at |-> "release", rec |-> r, expected |-> t] \in Call
          /\ [at |-> "withCommit", rec |-> r, expected |-> t] \in Call
    BY DEF Call, OneShardCall
  <2>2. QED BY <1>1, <1>4, <2>1 DEF BeginRelease, BeginWithCommit, TypeOK
<1>5. CASE BeginWithUnownedCommit(c) \/ BeginRecovery(c)
  <2>1. \A r \in Recordings : [at |-> "withUnowned", rec |-> r] \in Call
    BY DEF Call, OneShardCall
  <2>2. [at |-> "acquire", next |-> 0] \in Call
    BY DEF Call, RecoveryCall
  <2>3. QED BY <1>1, <1>5, <2>1, <2>2 DEF BeginWithUnownedCommit, BeginRecovery
<1>6. QED BY <1>2, <1>3, <1>4, <1>5 DEF BeginCall

LEMMA OneShardTypes ==
  ASSUME TypeOK, NEW c \in Callers, OneShardStep(c)
  PROVE  TypeOK'
<1> DEFINE x == call[c]
<1>0. x \in Call
  BY DEF TypeOK
<1>w. ASSUME NEW record \in Record \ {Absent}, x.rec \in Recordings, Writing(c, record)
      PROVE  TypeOK'
  BY <1>w, CallForms, LockingTypes DEF Writing
<1>1. CASE Claim(c) \/ Transfer(c)
  <2>1. x.rec \in Recordings /\ x.worker \in Workers
    BY <1>0, <1>1, CallByLabel DEF Claim, Transfer
  <2>2. visible[x.rec].epoch \in 0 .. MaxEpoch
    BY <2>1 DEF TypeOK, Record, Absent
  <2>3. visible[x.rec].epoch # MaxEpoch =>
          Active([worker |-> x.worker, epoch |-> visible[x.rec].epoch + 1]) \in Record \ {Absent}
    BY <2>1, <2>2, RecordFields
  <2>4. QED BY <1>1, <1>w, <2>1, <2>3, LockingTypes, CallForms DEF Claim, Transfer
<1>2. CASE Release(c) \/ WithCommit(c)
  <2>1. x.rec \in Recordings /\ x.expected \in Token /\ x = [at |-> x.at, rec |-> x.rec, expected |-> x.expected]
    BY <1>0, <1>2, CallByLabel DEF Release, WithCommit
  <2>2. Fenced(x.expected) \in Record \ {Absent}
    BY <2>1, RecordFields DEF Token
  <2>3. [x EXCEPT !.at = "commit"] \in Call
    BY <2>1, CallForms
  <2>4. QED BY <1>2, <1>w, <2>1, <2>2, <2>3, LockingTypes, CallForms DEF Release, WithCommit
<1>3. CASE WithUnownedCommit(c)
  <2>1. x.rec \in Recordings /\ x = [at |-> x.at, rec |-> x.rec]
    BY <1>0, <1>3, CallByLabel DEF WithUnownedCommit
  <2>2. [x EXCEPT !.at = "unowned"] \in Call
    BY <2>1, CallForms
  <2>3. QED BY <1>3, <2>2, LockingTypes, CallForms DEF WithUnownedCommit
<1>4. CASE EndCommit(c)
  BY <1>4, LockingTypes, CallForms DEF EndCommit, TypeOK
<1>5. CASE Rename(c) \/ Sync(c)
  <2>1. x.rec \in Recordings /\ x.record \in Record \ {Absent} /\ x = [at |-> x.at, rec |-> x.rec, record |-> x.record]
    BY <1>0, <1>5, CallByLabel DEF Rename, Sync
  <2>2. [x EXCEPT !.at = "sync"] \in Call
    <3>1. [x EXCEPT !.at = "sync"] = [at |-> "sync", rec |-> x.rec, record |-> x.record]
      BY <2>1
    <3>2. [at |-> "sync", rec |-> x.rec, record |-> x.record] \in Call
      <4> HIDE DEF x
      <4> QED BY <2>1, CallForms
    <3>3. QED BY <3>1, <3>2
  <2>3. CASE Rename(c)
    <3>1. /\ Finish(c, Idle) \/ Goto(c, [x EXCEPT !.at = "sync"])
          /\ UNCHANGED <<residue, issued>>
      BY <2>3 DEF Rename
    <3>2. visible' \in [Recordings -> Record] /\ maybe' \in [Recordings -> SUBSET Record]
      BY <2>1, <2>3 DEF Rename, TypeOK
    <3>3. QED BY <2>2, <3>1, <3>2, LockingTypes, CallForms DEF TypeOK
  <2>4. CASE Sync(c)
    <3>1. x.record.worker \in Workers /\ x.record.epoch \in 1 .. MaxEpoch
      BY <2>1 DEF Record
    <3>2. [worker |-> x.record.worker, epoch |-> x.record.epoch] \in Token
      BY <3>1 DEF Token
    <3>3. maybe' \in [Recordings -> SUBSET Record] /\ issued' \in [Recordings -> SUBSET Token]
      BY <2>1, <2>4, <3>2, DirectoryTypes DEF Sync, TypeOK
    <3>4. Finish(c, Idle) /\ UNCHANGED <<visible, residue>>
      BY <2>4 DEF Sync
    <3>5. QED BY <3>3, <3>4, LockingTypes, CallForms DEF TypeOK
  <2>5. QED BY <1>5, <2>3, <2>4
<1>6. QED BY <1>1, <1>2, <1>3, <1>4, <1>5 DEF OneShardStep

LEMMA RecoveryTypes ==
  ASSUME TypeOK, NEW c \in Callers, RecoveryStep(c)
  PROVE  TypeOK'
<1> DEFINE x == call[c]
<1>0. x \in Call
  BY DEF TypeOK
<1>1. CASE Acquire(c)
  <2>1. x = [at |-> "acquire", next |-> x.next] /\ x.next + 1 \in 0 .. Shards /\ x.next \in ShardIndexes
    BY <1>0, <1>1, CallByLabel DEF Acquire, ShardIndexes
  <2>2. [x EXCEPT !.next = @ + 1] \in Call
    BY <2>1, CallForms
  <2>3. QED BY <1>1, <2>1, <2>2 DEF Acquire, TypeOK
<1>2. CASE Reconcile(c)
  <2>1. maybe' \in [Recordings -> SUBSET Record] /\ residue' \in BOOLEAN
    BY <1>2, DirectoryTypes DEF Reconcile, TypeOK
  <2>2. (Goto(c, [at |-> "fence"]) \/ Finish(c, Down)) /\ UNCHANGED <<visible, issued>>
    BY <1>2 DEF Reconcile
  <2>3. QED BY <2>1, <2>2, LockingTypes, CallForms DEF TypeOK
<1>3. CASE FenceOne(c)
  <2>1. ASSUME NEW r \in Recordings, visible[r].state = "active"
        PROVE  Fenced(visible[r]) \in Record \ {Absent}
    BY <2>1 DEF TypeOK, Record, Absent, Fenced
  <2>2. QED BY <1>3, <2>1, LockingTypes, CallForms DEF FenceOne, TypeOK
<1>4. CASE FenceRename(c) \/ FenceSync(c)
  <2>1. x.rec \in Recordings /\ x.record \in Record \ {Absent} /\ x = [at |-> x.at, rec |-> x.rec, record |-> x.record]
    BY <1>0, <1>4, CallByLabel DEF FenceRename, FenceSync
  <2>2. [x EXCEPT !.at = "fenceSync"] \in Call
    <3>1. [x EXCEPT !.at = "fenceSync"] = [at |-> "fenceSync", rec |-> x.rec, record |-> x.record]
      BY <2>1
    <3>2. [at |-> "fenceSync", rec |-> x.rec, record |-> x.record] \in Call
      <4> HIDE DEF x
      <4> QED BY <2>1, CallForms
    <3>3. QED BY <3>1, <3>2
  <2>3. visible' \in [Recordings -> Record] /\ maybe' \in [Recordings -> SUBSET Record]
    BY <1>4, <2>1, DirectoryTypes DEF FenceRename, FenceSync, TypeOK
  <2>4. /\ Finish(c, Down) \/ Goto(c, [x EXCEPT !.at = "fenceSync"]) \/ Goto(c, [at |-> "fence"])
        /\ UNCHANGED <<residue, issued>>
    BY <1>4 DEF FenceRename, FenceSync
  <2>5. QED BY <2>2, <2>3, <2>4, LockingTypes, CallForms DEF TypeOK
<1>5. CASE Recover(c) \/ EndRecovery(c)
  BY <1>5, LockingTypes, CallForms DEF Recover, EndRecovery, TypeOK
<1>6. QED BY <1>1, <1>2, <1>3, <1>4, <1>5 DEF RecoveryStep

LEMMA CrashTypes ==
  ASSUME TypeOK, (\E c \in Callers : Open(c) \/ Crash(c)) \/ PowerLoss
  PROVE  TypeOK'
<1>1. ASSUME NEW c \in Callers, Open(c)
      PROVE  TypeOK'
  BY <1>1, CallForms DEF Open, TypeOK
<1>2. ASSUME NEW c \in Callers, Crash(c)
      PROVE  TypeOK'
  BY <1>2, CallForms, LockingTypes DEF Crash, TypeOK
<1>3. CASE PowerLoss
  <2>1. visible' \in [Recordings -> Record] /\ maybe' \in [Recordings -> SUBSET Record]
    BY <1>3 DEF PowerLoss, TypeOK
  <2>2. lock' \in [ShardIndexes -> Callers \cup {Free}] /\ call' \in [Callers -> Call]
    BY <1>3, CallForms DEF PowerLoss
  <2>3. QED BY <1>3, <2>1, <2>2 DEF PowerLoss, TypeOK
<1>4. QED BY <1>1, <1>2, <1>3

\* Every variable keeps its type, whatever the number of Recordings, workers,
\* callers and shards, and wherever calls fail or processes die.
THEOREM TypeCorrect == Spec => []TypeOK
<1>1. Init => TypeOK
  BY CallForms DEF Init, TypeOK, Record
<1>2. TypeOK /\ [Next]_vars => TypeOK'
  <2> SUFFICES ASSUME TypeOK, [Next]_vars PROVE TypeOK'
    OBVIOUS
  <2>1. CASE UNCHANGED vars
    BY <2>1 DEF vars, TypeOK
  <2>2. QED BY <2>1, BeginTypes, OneShardTypes, RecoveryTypes, CrashTypes DEF Next
<1>3. QED BY <1>1, <1>2, PTL DEF Spec

-----------------------------------------------------------------------------
(* Locking.                                                                *)

\* One caller's step leaves the other callers' calls alone, and takes a shard
\* only from nobody.
LEMMA StepOfOneCaller ==
  ASSUME TypeOK, NEW c \in Callers,
         Open(c) \/ BeginCall(c) \/ OneShardStep(c) \/ RecoveryStep(c) \/ Crash(c)
  PROVE  /\ \A d \in Callers \ {c} : call'[d] = call[d]
         /\ \A s \in ShardIndexes : lock[s] \notin {c, Free} => lock'[s] = lock[s]
<1>1. CASE Open(c) \/ BeginCall(c)
  BY <1>1 DEF TypeOK, Open, BeginCall, Begin, BeginClaim, BeginTransfer, BeginRelease,
              BeginWithCommit, BeginWithUnownedCommit, BeginRecovery
<1>2. CASE OneShardStep(c)
  BY <1>2 DEF TypeOK, OneShardStep, Claim, Transfer, Release, WithCommit, WithUnownedCommit,
              EndCommit, Rename, Sync, Writing, Locked, Refused, Finish, Goto
<1>3. CASE RecoveryStep(c)
  BY <1>3 DEF TypeOK, RecoveryStep, Acquire, Reconcile, FenceOne, FenceRename, FenceSync,
              Recover, EndRecovery, Finish, Goto
<1>4. CASE Crash(c)
  BY <1>4 DEF TypeOK, Crash, Finish
<1>5. QED BY <1>1, <1>2, <1>3, <1>4

\* What the steps of one caller do to its own call and its own locks.
HoldsItsLocks(c) ==
  /\ InsideOneShard(c) => lock[Shard(c)] = c
  /\ call[c].at = "acquire" => \A s \in ShardIndexes : s < call[c].next => lock[s] = c
  /\ InsideRecovery(c) => \A s \in ShardIndexes : lock[s] = c

LEMMA StepHoldsItsLocks ==
  ASSUME TypeOK, NEW c \in Callers, HoldsItsLocks(c),
         Open(c) \/ BeginCall(c) \/ OneShardStep(c) \/ RecoveryStep(c) \/ Crash(c)
  PROVE  HoldsItsLocks(c)'
<1> USE DEF HoldsItsLocks, InsideOneShard, InsideRecovery, Shard
<1>0. call[c] \in Call
  BY DEF TypeOK
<1>1. CASE Open(c) \/ BeginCall(c)
  BY <1>1 DEF TypeOK, Open, Idle, BeginCall, Begin, BeginClaim, BeginTransfer, BeginRelease,
              BeginWithCommit, BeginWithUnownedCommit, BeginRecovery, ShardIndexes
<1>2. ASSUME NEW to, Locked(c, to), to.rec = call[c].rec, call[c].rec \in Recordings,
             to.at \in {"rename", "commit", "unowned"}
      PROVE  HoldsItsLocks(c)'
  BY <1>2 DEF TypeOK, Locked, ShardIndexes
<1>3. CASE Refused(c) \/ Finish(c, Idle) \/ Finish(c, Down)
  BY <1>3 DEF TypeOK, Refused, Finish, Idle, Down
<1>4. ASSUME NEW record, Writing(c, record), call[c].rec \in Recordings
      PROVE  HoldsItsLocks(c)'
  BY <1>2, <1>3, <1>4 DEF Writing
<1>5. CASE OneShardStep(c)
  <2>1. CASE Claim(c) \/ Transfer(c) \/ Release(c)
    <3>1. call[c].rec \in Recordings
      BY <1>0, <2>1, CallByLabel DEF Claim, Transfer, Release
    <3>2. QED BY <1>3, <1>4, <2>1, <3>1 DEF Claim, Transfer, Release
  <2>2. CASE WithCommit(c) \/ WithUnownedCommit(c)
    <3>1. call[c].rec \in Recordings
      BY <1>0, <2>2, CallByLabel DEF WithCommit, WithUnownedCommit
    <3>2. /\ WithCommit(c) => /\ [call[c] EXCEPT !.at = "commit"].rec = call[c].rec
                              /\ [call[c] EXCEPT !.at = "commit"].at = "commit"
          /\ WithUnownedCommit(c) => /\ [call[c] EXCEPT !.at = "unowned"].rec = call[c].rec
                                     /\ [call[c] EXCEPT !.at = "unowned"].at = "unowned"
      BY <1>0, CallByLabel DEF WithCommit, WithUnownedCommit
    <3>3. QED BY <1>2, <1>3, <2>2, <3>1, <3>2 DEF WithCommit, WithUnownedCommit
  <2>3. CASE EndCommit(c) \/ Sync(c)
    BY <1>3, <2>3 DEF EndCommit, Sync
  <2>4. CASE Rename(c)
    <3>1. CASE Goto(c, [call[c] EXCEPT !.at = "sync"])
      <4>1. /\ [call[c] EXCEPT !.at = "sync"].rec = call[c].rec
            /\ [call[c] EXCEPT !.at = "sync"].at = "sync"
        BY <1>0, <2>4, CallByLabel DEF Rename
      <4>2. QED BY <2>4, <3>1, <4>1 DEF TypeOK, Rename, Goto
    <3>2. QED BY <1>3, <2>4, <3>1 DEF Rename
  <2>5. QED BY <1>5, <2>1, <2>2, <2>3, <2>4 DEF OneShardStep
<1>6. CASE RecoveryStep(c)
  <2>1. CASE Acquire(c)
    <3>1. /\ call[c].next \in ShardIndexes
          /\ [call[c] EXCEPT !.next = @ + 1].at = "acquire"
          /\ [call[c] EXCEPT !.next = @ + 1].next = call[c].next + 1
      BY <1>0, <2>1, CallByLabel DEF Acquire, ShardIndexes
    <3>2. QED BY <2>1, <3>1 DEF TypeOK, Acquire, ShardIndexes
  <2>2. CASE Reconcile(c)
    <3>1. CASE Goto(c, [at |-> "fence"])
      BY <2>2, <3>1 DEF TypeOK, Reconcile, Goto, ShardIndexes
    <3>2. QED BY <1>3, <2>2, <3>1 DEF Reconcile
  <2>3. CASE FenceOne(c) \/ FenceRename(c) \/ FenceSync(c) \/ Recover(c)
    <3>1. \A r, record : [at |-> "fenceRename", rec |-> r, record |-> record].at = "fenceRename"
      OBVIOUS
    <3>2. call[c].at = "fenceRename" => [call[c] EXCEPT !.at = "fenceSync"].at = "fenceSync"
      BY <1>0, CallByLabel
    <3>3. ASSUME NEW to, Goto(c, to), InsideRecovery(c),
                 to.at \in {"fence", "fenceRename", "fenceSync", "recover"}
          PROVE  HoldsItsLocks(c)'
      BY <3>3 DEF TypeOK, Goto
    <3>4. InsideRecovery(c)
      BY <2>3 DEF FenceOne, FenceRename, FenceSync, Recover
    <3>5. CASE FenceOne(c)
      BY <1>3, <3>1, <3>3, <3>4, <3>5 DEF FenceOne
    <3>6. CASE FenceRename(c)
      BY <1>3, <3>2, <3>3, <3>4, <3>6 DEF FenceRename
    <3>7. CASE FenceSync(c) \/ Recover(c)
      BY <1>3, <3>3, <3>4, <3>7 DEF FenceSync, Recover
    <3>8. QED BY <2>3, <3>5, <3>6, <3>7
  <2>4. CASE EndRecovery(c)
    BY <1>3, <2>4 DEF EndRecovery
  <2>5. QED BY <1>6, <2>1, <2>2, <2>3, <2>4 DEF RecoveryStep
<1>7. CASE Crash(c)
  BY <1>3, <1>7 DEF Crash
<1>8. QED BY <1>1, <1>5, <1>6, <1>7

LEMMA LocksPreserved ==
  ASSUME TypeOK, HoldsLocks, [Next]_vars
  PROVE  HoldsLocks'
<1> USE DEF InsideOneShard, InsideRecovery
<1>1. CASE UNCHANGED vars
  BY <1>1 DEF vars, HoldsLocks, Shard
<1>2. ASSUME NEW c \in Callers,
             Open(c) \/ BeginCall(c) \/ OneShardStep(c) \/ RecoveryStep(c) \/ Crash(c)
      PROVE  HoldsLocks'
  <2>1. HoldsItsLocks(c)'
    BY <1>2, StepHoldsItsLocks DEF HoldsLocks, HoldsItsLocks
  <2>2. ASSUME NEW d \in Callers \ {c}
        PROVE  HoldsItsLocks(d)'
    <3>1. /\ call'[d] = call[d]
          /\ \A s \in ShardIndexes : lock[s] = d => lock'[s] = d
      BY <1>2, StepOfOneCaller
    <3>2. InsideOneShard(d) => Shard(d) \in ShardIndexes
      <4>1. call[d] \in Call
        BY DEF TypeOK
      <4>2. QED BY <4>1, CallByLabel DEF Shard, ShardIndexes
    <3>3. QED BY <3>1, <3>2 DEF HoldsLocks, HoldsItsLocks, Shard
  <2>3. QED BY <2>1, <2>2 DEF HoldsLocks, HoldsItsLocks
<1>3. CASE PowerLoss
  BY <1>3 DEF PowerLoss, HoldsLocks, Down
<1>4. QED BY <1>1, <1>2, <1>3 DEF Next

\* Whoever is inside is alone: a recovery with everybody, a one-shard call
\* with the other calls of its Recording.
LEMMA LocksExclude ==
  ASSUME TypeOK, HoldsLocks
  PROVE  OneAtATime
<1> SUFFICES ASSUME NEW c \in Callers, NEW d \in Callers, c # d
             PROVE  /\ InsideRecovery(c) => ~InsideOneShard(d) /\ ~InsideRecovery(d)
                    /\ InsideOneShard(c) /\ InsideOneShard(d) => call[c].rec # call[d].rec
  BY DEF OneAtATime
<1>1. 0 \in ShardIndexes
  BY DEF ShardIndexes
<1>2. call[d] \in Call
  BY DEF TypeOK
<1>3. InsideOneShard(d) => Shard(d) \in ShardIndexes
  BY <1>2, CallByLabel DEF InsideOneShard, Shard, ShardIndexes
<1>4. QED BY <1>1, <1>3 DEF HoldsLocks, Shard

-----------------------------------------------------------------------------
(* The records on disk and the tokens returned.                            *)

\* The parts of the invariant that speak of one Recording.
DiskOK(r) ==
  /\ visible[r] \in maybe[r]
  /\ \A record \in maybe[r], t \in issued[r] : record.epoch >= t.epoch
  /\ \A t, u \in issued[r] : t.epoch = u.epoch => t = u

\* The parts that speak of one caller.
WriteOK(c) ==
  /\ call[c].at = "rename" =>
       \/ /\ call[c].record.state = "active"
          /\ call[c].record.epoch = visible[call[c].rec].epoch + 1
       \/ call[c].record = Fenced(visible[call[c].rec])
  /\ call[c].at = "sync" =>
       /\ call[c].record = visible[call[c].rec]
       /\ call[c].record.state = "active" =>
            \A t \in issued[call[c].rec] : t.epoch < call[c].record.epoch
  /\ call[c].at = "fenceRename" => call[c].record = Fenced(visible[call[c].rec])

CommitOK(c) ==
  /\ call[c].at = "commit" =>
       /\ OwnedBy(call[c].rec, call[c].expected)
       /\ \A t \in issued[call[c].rec] : t.epoch <= call[c].expected.epoch
  /\ call[c].at = "unowned" => visible[call[c].rec].state # "active"
  /\ call[c].at = "recover" => \A r \in Recordings : visible[r].state # "active"

LEMMA InvariantByParts ==
  IInv <=> /\ TypeOK /\ HoldsLocks
           /\ \A r \in Recordings : DiskOK(r)
           /\ \A c \in Callers : WriteOK(c) /\ CommitOK(c)
BY DEF IInv, DiskOK, WriteOK, CommitOK, WriteFollowsRecord, VisibleMayRemain,
       CommitHoldsNewestToken, EpochIssuedOnce, DurableHighWater

\* A step that changes no record and no token keeps what is said of disk.
LEMMA NoDiskChange ==
  ASSUME UNCHANGED <<visible, maybe, issued>>
  PROVE  \A r \in Recordings : DiskOK(r) => DiskOK(r)'
BY DEF DiskOK

\* Making the directory durable only removes records a power loss may leave.
LEMMA SyncKeepsDisk ==
  ASSUME maybe' = [r \in Recordings |-> {visible[r]}], UNCHANGED <<visible, issued>>
  PROVE  \A r \in Recordings : DiskOK(r) => DiskOK(r)'
BY DEF DiskOK

\* Publishing a record over one of no greater epoch.
LEMMA PublishKeepsDisk ==
  ASSUME TypeOK, NEW p \in Recordings, NEW new \in Record \ {Absent},
         new.epoch >= visible[p].epoch,
         visible' = [visible EXCEPT ![p] = new],
         maybe' = [maybe EXCEPT ![p] = @ \cup {new}],
         UNCHANGED issued
  PROVE  \A r \in Recordings : DiskOK(r) => DiskOK(r)'
<1> SUFFICES ASSUME NEW r \in Recordings, DiskOK(r) PROVE DiskOK(r)'
  OBVIOUS
<1>1. CASE r # p
  BY <1>1 DEF DiskOK, TypeOK
<1>2. CASE r = p
  <2>1. new.epoch \in Nat /\ visible[p].epoch \in Nat
    BY DEF TypeOK, Record, Absent
  <2>2. \A t \in issued[p] : t.epoch \in Nat /\ visible[p].epoch >= t.epoch
    BY <1>2 DEF DiskOK, TypeOK, Token
  <2>3. \A t \in issued[p] : new.epoch >= t.epoch
    BY <2>1, <2>2
  <2>4. visible'[p] = new /\ maybe'[p] = maybe[p] \cup {new} /\ issued' = issued
    BY DEF TypeOK
  <2>5. QED BY <1>2, <2>3, <2>4 DEF DiskOK
<1>3. QED BY <1>1, <1>2

\* A record or the tokens of a Recording change only under its lock.
LEMMA ChangesUnderLock ==
  ASSUME TypeOK, NEW c \in Callers,
         Open(c) \/ BeginCall(c) \/ OneShardStep(c) \/ RecoveryStep(c) \/ Crash(c),
         NEW r \in Recordings,
         ~(InsideOneShard(c) /\ call[c].rec = r), ~InsideRecovery(c)
  PROVE  visible'[r] = visible[r] /\ issued'[r] = issued[r]
<1> USE DEF InsideOneShard, InsideRecovery
<1>1. CASE Open(c) \/ BeginCall(c) \/ Crash(c)
  BY <1>1 DEF Open, Crash, BeginCall, Begin, BeginClaim, BeginTransfer, BeginRelease,
              BeginWithCommit, BeginWithUnownedCommit, BeginRecovery
<1>2. CASE OneShardStep(c)
  <2>1. CASE Rename(c) \/ Sync(c)
    BY <2>1 DEF TypeOK, Rename, Sync
  <2>2. QED BY <1>2, <2>1 DEF OneShardStep, Claim, Transfer, Release, WithCommit,
                              WithUnownedCommit, EndCommit, Writing, Locked, Refused
<1>3. CASE RecoveryStep(c)
  BY <1>3 DEF RecoveryStep, Acquire, Reconcile, FenceOne, FenceRename, FenceSync,
              Recover, EndRecovery
<1>4. QED BY <1>1, <1>2, <1>3

LEMMA OthersKeep ==
  ASSUME TypeOK, HoldsLocks, NEW c \in Callers, NEW d \in Callers \ {c},
         Open(c) \/ BeginCall(c) \/ OneShardStep(c) \/ RecoveryStep(c) \/ Crash(c),
         WriteOK(d), CommitOK(d)
  PROVE  WriteOK(d)' /\ CommitOK(d)'
<1>1. call'[d] = call[d]
  BY StepOfOneCaller
<1>2. call[d] \in Call
  BY DEF TypeOK
<1>3. CASE InsideOneShard(d)
  <2>1. call[d].rec \in Recordings
    BY <1>2, <1>3, CallByLabel DEF InsideOneShard
  <2>2. ~(InsideOneShard(c) /\ call[c].rec = call[d].rec) /\ ~InsideRecovery(c)
    BY <1>3, LocksExclude DEF OneAtATime
  <2>3. visible'[call[d].rec] = visible[call[d].rec] /\ issued'[call[d].rec] = issued[call[d].rec]
    BY <2>1, <2>2, ChangesUnderLock
  <2>4. QED BY <1>1, <1>3, <2>3 DEF WriteOK, CommitOK, InsideOneShard, OwnedBy
<1>4. CASE InsideRecovery(d)
  <2>1. ~InsideOneShard(c) /\ ~InsideRecovery(c)
    BY <1>4, LocksExclude DEF OneAtATime
  <2>2. \A r \in Recordings : visible'[r] = visible[r]
    BY <2>1, ChangesUnderLock
  <2>3. call[d].at = "fenceRename" => call[d].rec \in Recordings
    BY <1>2, CallByLabel
  <2>4. QED BY <1>1, <1>4, <2>2, <2>3 DEF WriteOK, CommitOK, InsideRecovery
<1>5. CASE ~InsideOneShard(d) /\ ~InsideRecovery(d)
  BY <1>1, <1>5 DEF WriteOK, CommitOK, InsideOneShard, InsideRecovery
<1>6. QED BY <1>3, <1>4, <1>5

\* The caller's own claims about its record and its commit.
LEMMA OwnWriteKept ==
  ASSUME IInv, NEW c \in Callers,
         Open(c) \/ BeginCall(c) \/ OneShardStep(c) \/ RecoveryStep(c) \/ Crash(c)
  PROVE  WriteOK(c)' /\ CommitOK(c)'
<1> DEFINE x == call[c]
<1>0. TypeOK /\ x \in Call /\ WriteOK(c) /\ CommitOK(c) /\ \A r \in Recordings : DiskOK(r)
  BY InvariantByParts DEF TypeOK
<1>1. ASSUME call'[c].at \notin {"rename", "sync", "fenceRename", "commit", "unowned", "recover"}
      PROVE  WriteOK(c)' /\ CommitOK(c)'
  BY <1>1 DEF WriteOK, CommitOK
<1>2. ASSUME Refused(c) \/ Finish(c, Idle) \/ Finish(c, Down)
      PROVE  WriteOK(c)' /\ CommitOK(c)'
  BY <1>0, <1>1, <1>2 DEF TypeOK, Refused, Finish, Idle, Down
<1>3. CASE Open(c) \/ BeginCall(c)
  BY <1>0, <1>1, <1>3 DEF TypeOK, Open, Idle, BeginCall, Begin, BeginClaim, BeginTransfer,
              BeginRelease, BeginWithCommit, BeginWithUnownedCommit, BeginRecovery
<1>4. CASE OneShardStep(c)
  <2>w. ASSUME NEW record, Writing(c, record),
               \/ record.state = "active" /\ record.epoch = visible[x.rec].epoch + 1
               \/ record = Fenced(visible[x.rec])
        PROVE  WriteOK(c)' /\ CommitOK(c)'
    <3>1. CASE Locked(c, [at |-> "rename", rec |-> x.rec, record |-> record])
      BY <1>0, <2>w, <3>1 DEF TypeOK, Locked, WriteOK, CommitOK
    <3>2. QED BY <1>2, <2>w, <3>1 DEF Writing
  <2>1. CASE Claim(c) \/ Transfer(c)
    BY <1>2, <2>w, <2>1 DEF Claim, Transfer, Active
  <2>2. CASE Release(c)
    <3>1. OwnedBy(x.rec, x.expected) => Fenced(x.expected) = Fenced(visible[x.rec])
      BY DEF OwnedBy, Fenced, Active
    <3>2. QED BY <1>2, <2>w, <2>2, <3>1 DEF Release
  <2>3. CASE WithCommit(c)
    <3>1. x.rec \in Recordings /\ x.expected \in Token /\ x = [at |-> x.at, rec |-> x.rec, expected |-> x.expected]
      BY <1>0, <2>3, CallByLabel DEF WithCommit
    <3>2. CASE OwnedBy(x.rec, x.expected)
      <4>1. call'[c] = [x EXCEPT !.at = "commit"] /\ UNCHANGED <<visible, issued>>
        BY <1>0, <2>3, <3>2, <1>2 DEF WithCommit, Locked, TypeOK
      <4>2. /\ [x EXCEPT !.at = "commit"].at = "commit"
            /\ [x EXCEPT !.at = "commit"].rec = x.rec
            /\ [x EXCEPT !.at = "commit"].expected = x.expected
        BY <3>1
      <4>3. visible[x.rec].epoch = x.expected.epoch /\ visible[x.rec] \in maybe[x.rec]
        BY <1>0, <3>1, <3>2 DEF OwnedBy, Active, DiskOK
      <4>4. \A t \in issued[x.rec] : t.epoch <= x.expected.epoch
        BY <1>0, <3>1, <4>3 DEF DiskOK, TypeOK, Token
      <4>5. QED BY <3>2, <4>1, <4>2, <4>4 DEF WriteOK, CommitOK, OwnedBy
    <3>3. QED BY <1>2, <2>3, <3>2 DEF WithCommit
  <2>4. CASE WithUnownedCommit(c)
    <3>1. x = [at |-> x.at, rec |-> x.rec]
      BY <1>0, <2>4, CallByLabel DEF WithUnownedCommit
    <3>2. CASE visible[x.rec].state # "active"
      <4>1. call'[c] = [x EXCEPT !.at = "unowned"] /\ UNCHANGED visible
        BY <1>0, <2>4, <3>2 DEF WithUnownedCommit, Locked, TypeOK
      <4>2. [x EXCEPT !.at = "unowned"].at = "unowned" /\ [x EXCEPT !.at = "unowned"].rec = x.rec
        BY <3>1
      <4>3. QED BY <3>2, <4>1, <4>2 DEF WriteOK, CommitOK
    <3>3. QED BY <1>2, <2>4, <3>2 DEF WithUnownedCommit
  <2>5. CASE EndCommit(c) \/ Sync(c)
    BY <1>2, <2>5 DEF EndCommit, Sync
  <2>6. CASE Rename(c)
    <3>1. x.rec \in Recordings /\ x.record \in Record \ {Absent} /\ x = [at |-> x.at, rec |-> x.rec, record |-> x.record]
      BY <1>0, <2>6, CallByLabel DEF Rename
    <3>2. CASE Goto(c, [x EXCEPT !.at = "sync"]) /\ visible' = [visible EXCEPT ![x.rec] = x.record]
      <4>1. call'[c] = [x EXCEPT !.at = "sync"] /\ visible'[x.rec] = x.record /\ UNCHANGED issued
        BY <1>0, <2>6, <3>1, <3>2 DEF Rename, Goto, TypeOK
      <4>2. /\ [x EXCEPT !.at = "sync"].at = "sync"
            /\ [x EXCEPT !.at = "sync"].rec = x.rec
            /\ [x EXCEPT !.at = "sync"].record = x.record
        BY <3>1
      <4>3. visible[x.rec] \in maybe[x.rec] /\ visible[x.rec].epoch \in Nat
        BY <1>0, <3>1 DEF DiskOK, TypeOK, Record, Absent
      <4>4. x.record.state = "active" => x.record.epoch = visible[x.rec].epoch + 1
        BY <1>0, <2>6 DEF WriteOK, Rename, Fenced
      <4>5. x.record.state = "active" => \A t \in issued[x.rec] : t.epoch < x.record.epoch
        BY <1>0, <3>1, <4>3, <4>4 DEF DiskOK, TypeOK, Token
      <4>6. QED BY <4>1, <4>2, <4>5 DEF WriteOK, CommitOK
    <3>3. QED BY <1>2, <2>6, <3>2 DEF Rename
  <2>7. QED BY <1>4, <2>1, <2>2, <2>3, <2>4, <2>5, <2>6 DEF OneShardStep
<1>5. CASE RecoveryStep(c)
  <2>1. CASE Acquire(c)
    <3>1. [x EXCEPT !.next = @ + 1].at = "acquire"
      BY <1>0, <2>1, CallByLabel DEF Acquire
    <3>2. call'[c] = [x EXCEPT !.next = @ + 1]
      BY <1>0, <2>1 DEF Acquire, TypeOK
    <3>3. QED BY <1>1, <3>1, <3>2
  <2>2. CASE Reconcile(c) \/ FenceSync(c)
    <3>1. CASE Goto(c, [at |-> "fence"])
      BY <1>0, <1>1, <3>1 DEF Goto, TypeOK
    <3>2. QED BY <1>2, <2>2, <3>1 DEF Reconcile, FenceSync
  <2>3. CASE FenceOne(c)
    <3>1. ASSUME NEW r \in Recordings,
                 Goto(c, [at |-> "fenceRename", rec |-> r, record |-> Fenced(visible[r])])
          PROVE  WriteOK(c)' /\ CommitOK(c)'
      BY <1>0, <2>3, <3>1 DEF Goto, FenceOne, WriteOK, CommitOK, TypeOK
    <3>2. QED BY <1>2, <2>3, <3>1 DEF FenceOne
  <2>4. CASE FenceRename(c)
    <3>1. CASE Goto(c, [x EXCEPT !.at = "fenceSync"])
      <4>1. [x EXCEPT !.at = "fenceSync"].at = "fenceSync"
        BY <1>0, <2>4, CallByLabel DEF FenceRename
      <4>2. QED BY <1>0, <1>1, <3>1, <4>1 DEF Goto, TypeOK
    <3>2. QED BY <1>2, <2>4, <3>1 DEF FenceRename
  <2>5. CASE Recover(c)
    BY <1>0, <2>5 DEF Recover, Goto, WriteOK, CommitOK, TypeOK
  <2>6. CASE EndRecovery(c)
    BY <1>2, <2>6 DEF EndRecovery
  <2>7. QED BY <1>5, <2>1, <2>2, <2>3, <2>4, <2>5, <2>6 DEF RecoveryStep
<1>6. CASE Crash(c)
  BY <1>2, <1>6 DEF Crash
<1>7. QED BY <1>3, <1>4, <1>5, <1>6

LEMMA DiskKept ==
  ASSUME IInv, NEW c \in Callers,
         Open(c) \/ BeginCall(c) \/ OneShardStep(c) \/ RecoveryStep(c) \/ Crash(c)
  PROVE  \A r \in Recordings : DiskOK(r)'
<1> DEFINE x == call[c]
<1>0. TypeOK /\ x \in Call /\ WriteOK(c) /\ \A r \in Recordings : DiskOK(r)
  BY InvariantByParts DEF TypeOK
<1>1. CASE BeginCall(c) \/ Crash(c)
  BY <1>0, <1>1, NoDiskChange DEF Crash, BeginCall, Begin, BeginClaim, BeginTransfer,
     BeginRelease, BeginWithCommit, BeginWithUnownedCommit, BeginRecovery
<1>2. CASE Open(c)
  BY <1>0, <1>2, SyncKeepsDisk DEF Open
<1>3. CASE OneShardStep(c)
  <2>1. CASE Rename(c)
    <3>1. x.rec \in Recordings /\ x.record \in Record \ {Absent}
      BY <1>0, <2>1, CallByLabel DEF Rename
    <3>2. x.record.epoch >= visible[x.rec].epoch
      <4>1. visible[x.rec].epoch \in Nat
        BY <1>0, <3>1 DEF TypeOK, Record, Absent
      <4>2. x.record.epoch = visible[x.rec].epoch + 1 \/ x.record.epoch = visible[x.rec].epoch
        BY <1>0, <2>1 DEF WriteOK, Rename, Fenced
      <4>3. QED BY <4>1, <4>2
    <3>3. QED BY <1>0, <2>1, <3>1, <3>2, NoDiskChange, PublishKeepsDisk DEF Rename
  <2>2. CASE Sync(c)
    <3>1. x.rec \in Recordings /\ x.record \in Record \ {Absent} /\ x.record = visible[x.rec]
      BY <1>0, <2>2, CallByLabel DEF Sync, WriteOK
    <3>2. CASE UNCHANGED <<maybe, issued>> \/ issued' = issued
      BY <1>0, <2>2, <3>2, NoDiskChange, SyncKeepsDisk DEF Sync
    <3>3. CASE /\ x.record.state = "active"
               /\ maybe' = [r \in Recordings |-> {visible[r]}]
               /\ issued' = [issued EXCEPT ![x.rec] =
                              @ \cup {[worker |-> x.record.worker, epoch |-> x.record.epoch]}]
      <4> SUFFICES ASSUME NEW r \in Recordings PROVE DiskOK(r)'
        OBVIOUS
      <4>1. UNCHANGED visible
        BY <2>2 DEF Sync
      <4>2. CASE r # x.rec
        BY <1>0, <3>1, <3>3, <4>1, <4>2 DEF DiskOK, TypeOK
      <4>3. CASE r = x.rec
        <5>1. \A t \in issued[r] : t.epoch < x.record.epoch
          BY <1>0, <2>2, <3>3, <4>3 DEF WriteOK, Sync
        <5>2. \A t \in issued[r] : t.epoch \in Nat
          BY <1>0, <3>1 DEF TypeOK, Token
        <5>3. x.record.epoch \in Nat
          BY <3>1 DEF Record
        <5>4. issued'[r] = issued[r] \cup {[worker |-> x.record.worker, epoch |-> x.record.epoch]}
          BY <1>0, <3>1, <3>3, <4>3 DEF TypeOK
        <5>5. maybe'[r] = {x.record} /\ visible'[r] = x.record
          BY <3>1, <3>3, <4>1, <4>3
        <5>6. \A record \in maybe'[r], t \in issued'[r] : record.epoch >= t.epoch
          BY <5>1, <5>2, <5>3, <5>4, <5>5
        <5>7. \A t, u \in issued'[r] : t.epoch = u.epoch => t = u
          BY <1>0, <5>1, <5>2, <5>3, <5>4 DEF DiskOK
        <5>8. QED BY <5>5, <5>6, <5>7 DEF DiskOK
      <4>4. QED BY <4>2, <4>3
    <3>4. QED BY <2>2, <3>2, <3>3 DEF Sync
  <2>3. CASE ~Rename(c) /\ ~Sync(c)
    BY <1>0, <1>3, <2>3, NoDiskChange DEF OneShardStep, Claim, Transfer, Release, WithCommit,
       WithUnownedCommit, EndCommit, Writing, Locked, Refused
  <2>4. QED BY <2>1, <2>2, <2>3
<1>4. CASE RecoveryStep(c)
  <2>1. CASE FenceRename(c)
    <3>1. x.rec \in Recordings /\ x.record \in Record \ {Absent}
      BY <1>0, <2>1, CallByLabel DEF FenceRename
    <3>2. x.record.epoch >= visible[x.rec].epoch
      <4>1. visible[x.rec].epoch \in Nat
        BY <1>0, <3>1 DEF TypeOK, Record, Absent
      <4>2. x.record.epoch = visible[x.rec].epoch
        BY <1>0, <2>1 DEF WriteOK, FenceRename, Fenced
      <4>3. QED BY <4>1, <4>2
    <3>3. QED BY <1>0, <2>1, <3>1, <3>2, NoDiskChange, PublishKeepsDisk DEF FenceRename
  <2>2. CASE Reconcile(c) \/ FenceSync(c)
    BY <1>0, <2>2, NoDiskChange, SyncKeepsDisk DEF Reconcile, FenceSync
  <2>3. CASE Acquire(c) \/ FenceOne(c) \/ Recover(c) \/ EndRecovery(c)
    BY <1>0, <2>3, NoDiskChange DEF Acquire, FenceOne, Recover, EndRecovery
  <2>4. QED BY <1>4, <2>1, <2>2, <2>3 DEF RecoveryStep
<1>5. QED BY <1>1, <1>2, <1>3, <1>4

\* After a power loss nobody is inside, and what is left was durable.
LEMMA PowerLossKeeps ==
  ASSUME IInv, PowerLoss
  PROVE  /\ \A r \in Recordings : DiskOK(r)'
         /\ \A c \in Callers : WriteOK(c)' /\ CommitOK(c)'
<1>1. PICK disk \in [Recordings -> UNION {maybe[r] : r \in Recordings}] :
        /\ \A r \in Recordings : disk[r] \in maybe[r]
        /\ visible' = disk
        /\ maybe' = [r \in Recordings |-> {disk[r]}]
  BY DEF PowerLoss
<1>2. issued' = issued
  BY DEF PowerLoss
<1>3. \A r \in Recordings : DiskOK(r)
  BY InvariantByParts
<1>4. \A r \in Recordings : DiskOK(r)'
  BY <1>1, <1>2, <1>3 DEF DiskOK
<1>5. \A c \in Callers : WriteOK(c)' /\ CommitOK(c)'
  BY DEF PowerLoss, Down, WriteOK, CommitOK
<1>6. QED BY <1>4, <1>5

LEMMA StepKeepsInvariant == IInv /\ [Next]_vars => IInv'
<1> SUFFICES ASSUME IInv, [Next]_vars PROVE IInv'
  OBVIOUS
<1>1. TypeOK /\ HoldsLocks
  BY InvariantByParts
<1>2. TypeOK'
  BY <1>1, BeginTypes, OneShardTypes, RecoveryTypes, CrashTypes DEF Next, vars, TypeOK
<1>3. HoldsLocks'
  BY <1>1, LocksPreserved
<1>4. CASE UNCHANGED vars
  BY <1>4 DEF vars, IInv, TypeOK, HoldsLocks, InsideOneShard, InsideRecovery, Shard,
              WriteFollowsRecord, VisibleMayRemain, CommitHoldsNewestToken, OwnedBy,
              EpochIssuedOnce, DurableHighWater
<1>5. ASSUME NEW c \in Callers,
             Open(c) \/ BeginCall(c) \/ OneShardStep(c) \/ RecoveryStep(c) \/ Crash(c)
      PROVE  /\ \A r \in Recordings : DiskOK(r)'
             /\ \A d \in Callers : WriteOK(d)' /\ CommitOK(d)'
  <2>1. \A d \in Callers \ {c} : WriteOK(d)' /\ CommitOK(d)'
    BY <1>1, <1>5, OthersKeep, InvariantByParts
  <2>2. WriteOK(c)' /\ CommitOK(c)'
    BY <1>5, OwnWriteKept
  <2>3. QED BY <1>5, <2>1, <2>2, DiskKept
<1>6. CASE \/ \E c \in Callers : Open(c) \/ BeginCall(c) \/ OneShardStep(c) \/ RecoveryStep(c) \/ Crash(c)
           \/ PowerLoss
  <2>1. /\ \A r \in Recordings : DiskOK(r)'
        /\ \A c \in Callers : WriteOK(c)' /\ CommitOK(c)'
    BY <1>5, <1>6, PowerLossKeeps
  <2>2. QED
    BY <1>2, <1>3, <2>1
    DEF IInv, DiskOK, WriteOK, CommitOK, WriteFollowsRecord, VisibleMayRemain,
        CommitHoldsNewestToken, EpochIssuedOnce, DurableHighWater
<1>7. QED BY <1>4, <1>6 DEF Next

-----------------------------------------------------------------------------
(* Results.                                                                *)

\* The inductive invariant holds of every behaviour of the store.
THEOREM InvariantHolds == Spec => []IInv
<1>1. Init => IInv
  <2> SUFFICES ASSUME Init PROVE IInv
    OBVIOUS
  <2>1. TypeOK
    BY CallForms DEF Init, TypeOK, Record
  <2>2. \A c \in Callers : call[c] = Down
    BY DEF Init
  <2>3. QED
    BY <2>1, <2>2
    DEF Init, IInv, HoldsLocks, InsideOneShard, InsideRecovery, WriteFollowsRecord,
        VisibleMayRemain, CommitHoldsNewestToken, EpochIssuedOnce, DurableHighWater, Down
<1>2. QED BY <1>1, StepKeepsInvariant, PTL DEF Spec

\* A canonical commit, an owner transition and a deletion of one Recording never
\* overlap, nor does any of them overlap a fenced recovery.
THEOREM MutualExclusion == Spec => []OneAtATime
<1>1. IInv => OneAtATime
  BY InvariantByParts, LocksExclude
<1>2. QED BY <1>1, InvariantHolds, PTL

\* A commit callback runs only under the newest token ever returned, which is
\* the owner on disk; deletion and recovery run only where nobody owns.
THEOREM OnlyNewestTokenCommits == Spec => []CommitHoldsNewestToken
<1>1. IInv => CommitHoldsNewestToken
  BY DEF IInv
<1>2. QED BY <1>1, InvariantHolds, PTL

\* No epoch of a Recording is returned twice, and no power loss leaves a
\* record below a returned epoch.
THEOREM EpochsAreFresh == Spec => [](EpochIssuedOnce /\ DurableHighWater)
<1>1. IInv => EpochIssuedOnce /\ DurableHighWater
  BY DEF IInv
<1>2. QED BY <1>1, InvariantHolds, PTL

-----------------------------------------------------------------------------
(* Waiting.                                                                *)

\* Whoever holds a shard is inside an operation or is acquiring.
HeldForReason ==
  \A s \in ShardIndexes : LET c == lock[s] IN
    c # Free => \/ InsideOneShard(c) /\ Shard(c) = s
                \/ InsideRecovery(c)
                \/ call[c].at = "acquire" /\ s < call[c].next

\* Why c may hold s, after a step as before it.
Reason(c, s) ==
  \/ InsideOneShard(c) /\ Shard(c) = s
  \/ InsideRecovery(c)
  \/ call[c].at = "acquire" /\ s < call[c].next

\* A shard changes hands only through the one who takes or drops it.
LEMMA ShardTaken ==
  ASSUME TypeOK, NEW c \in Callers,
         Open(c) \/ BeginCall(c) \/ OneShardStep(c) \/ RecoveryStep(c) \/ Crash(c),
         NEW s \in ShardIndexes
  PROVE  lock'[s] \in {lock[s], Free, c}
<1>1. CASE Open(c) \/ BeginCall(c)
  BY <1>1 DEF TypeOK, Open, BeginCall, Begin, BeginClaim, BeginTransfer, BeginRelease,
              BeginWithCommit, BeginWithUnownedCommit, BeginRecovery
<1>2. CASE OneShardStep(c)
  BY <1>2 DEF TypeOK, OneShardStep, Claim, Transfer, Release, WithCommit, WithUnownedCommit,
              EndCommit, Rename, Sync, Writing, Locked, Refused, Finish, Goto
<1>3. CASE RecoveryStep(c)
  BY <1>3 DEF TypeOK, RecoveryStep, Acquire, Reconcile, FenceOne, FenceRename, FenceSync,
              Recover, EndRecovery, Finish, Goto
<1>4. CASE Crash(c)
  BY <1>4 DEF TypeOK, Crash, Finish
<1>5. QED BY <1>1, <1>2, <1>3, <1>4

\* A caller keeps a shard only for a reason.
LEMMA StepKeepsReason ==
  ASSUME TypeOK, NEW c \in Callers,
         \A s \in ShardIndexes : lock[s] = c => Reason(c, s),
         Open(c) \/ BeginCall(c) \/ OneShardStep(c) \/ RecoveryStep(c) \/ Crash(c),
         NEW s \in ShardIndexes, lock'[s] = c
  PROVE  Reason(c, s)'
<1> DEFINE x == call[c]
<1> USE DEF Reason, InsideOneShard, InsideRecovery, Shard
<1>0. x \in Call /\ Free # c /\ call \in [Callers -> Call] /\ lock \in [ShardIndexes -> Callers \cup {Free}]
  BY ConstantsAssumption DEF TypeOK
<1>1. ASSUME Finish(c, Idle) \/ Finish(c, Down)
      PROVE  FALSE
  BY <1>0, <1>1 DEF Finish
<1>2. ASSUME x.at \notin {"rename", "sync", "commit", "unowned", "acquire", "fence", "fenceRename",
                          "fenceSync", "recover"},
             UNCHANGED lock
      PROVE  FALSE
  BY <1>2
<1>3. CASE Open(c) \/ BeginCall(c)
  BY <1>2, <1>3 DEF Open, BeginCall, Begin, BeginClaim, BeginTransfer, BeginRelease,
     BeginWithCommit, BeginWithUnownedCommit, BeginRecovery, Idle, Down
<1>4. CASE OneShardStep(c)
  <2>1. ASSUME NEW to, Locked(c, to), to.rec = x.rec, to.at \in {"rename", "commit", "unowned"},
               x.at \in {"claim", "transfer", "release", "withCommit", "withUnowned"}
        PROVE  Reason(c, s)'
    <3>1. lock[s] # c
      BY <2>1
    <3>2. s = Shard(c) /\ call'[c] = to
      BY <1>0, <2>1, <3>1 DEF Locked
    <3> QED BY <2>1, <3>2
  <2>2. ASSUME NEW record, Writing(c, record), x.at \in {"claim", "transfer", "release"}
        PROVE  Reason(c, s)'
    BY <1>2, <2>1, <2>2 DEF Writing, Refused
  <2>3. CASE Claim(c) \/ Transfer(c) \/ Release(c)
    BY <1>2, <2>2, <2>3 DEF Claim, Transfer, Release, Refused
  <2>4. CASE WithCommit(c) \/ WithUnownedCommit(c)
    <3>1. /\ WithCommit(c) => /\ [x EXCEPT !.at = "commit"].rec = x.rec
                              /\ [x EXCEPT !.at = "commit"].at = "commit"
          /\ WithUnownedCommit(c) => /\ [x EXCEPT !.at = "unowned"].rec = x.rec
                                     /\ [x EXCEPT !.at = "unowned"].at = "unowned"
      BY <1>0, CallByLabel DEF WithCommit, WithUnownedCommit
    <3> QED BY <1>2, <2>1, <2>4, <3>1 DEF WithCommit, WithUnownedCommit, Refused
  <2>5. CASE EndCommit(c) \/ Sync(c)
    BY <1>1, <2>5 DEF EndCommit, Sync
  <2>6. CASE Rename(c)
    <3>1. CASE Goto(c, [x EXCEPT !.at = "sync"])
      <4>1. [x EXCEPT !.at = "sync"].rec = x.rec /\ [x EXCEPT !.at = "sync"].at = "sync"
        BY <1>0, <2>6, CallByLabel DEF Rename
      <4> QED BY <1>0, <2>6, <3>1, <4>1 DEF Rename, Goto
    <3> QED BY <1>1, <2>6, <3>1 DEF Rename
  <2> QED BY <1>4, <2>3, <2>4, <2>5, <2>6 DEF OneShardStep
<1>5. CASE RecoveryStep(c)
  <2>1. CASE Acquire(c)
    <3>1. /\ x.next \in 0 .. Shards /\ [x EXCEPT !.next = @ + 1].at = "acquire"
          /\ [x EXCEPT !.next = @ + 1].next = x.next + 1
      BY <1>0, <2>1, CallByLabel DEF Acquire
    <3>2. call'[c] = [x EXCEPT !.next = @ + 1] /\ (s = x.next \/ lock[s] = c)
      BY <1>0, <2>1 DEF Acquire, ShardIndexes
    <3>3. s < x.next + 1
      BY <2>1, <3>1, <3>2 DEF Acquire, ShardIndexes
    <3> QED BY <3>1, <3>2, <3>3
  <2>2. ASSUME NEW to, Goto(c, to), to.at \in {"fence", "fenceRename", "fenceSync", "recover"}
        PROVE  Reason(c, s)'
    BY <1>0, <2>2 DEF Goto
  <2>3. CASE Reconcile(c) \/ FenceSync(c) \/ Recover(c) \/ EndRecovery(c)
    BY <1>1, <2>2, <2>3 DEF Reconcile, FenceSync, Recover, EndRecovery
  <2>4. CASE FenceOne(c)
    <3>1. \A r, record : [at |-> "fenceRename", rec |-> r, record |-> record].at = "fenceRename"
      OBVIOUS
    <3> QED BY <1>1, <2>2, <2>4, <3>1 DEF FenceOne
  <2>5. CASE FenceRename(c)
    <3>1. [x EXCEPT !.at = "fenceSync"].at = "fenceSync"
      BY <1>0, <2>5, CallByLabel DEF FenceRename
    <3> QED BY <1>1, <2>2, <2>5, <3>1 DEF FenceRename
  <2> QED BY <1>5, <2>1, <2>3, <2>4, <2>5 DEF RecoveryStep
<1>6. CASE Crash(c)
  BY <1>1, <1>6 DEF Crash
<1> QED BY <1>3, <1>4, <1>5, <1>6

LEMMA ReasonsKept ==
  ASSUME TypeOK, HeldForReason, [Next]_vars
  PROVE  HeldForReason'
<1>1. CASE UNCHANGED vars
  BY <1>1 DEF vars, HeldForReason, InsideOneShard, InsideRecovery, Shard
<1>2. ASSUME NEW c \in Callers,
             Open(c) \/ BeginCall(c) \/ OneShardStep(c) \/ RecoveryStep(c) \/ Crash(c)
      PROVE  HeldForReason'
  <2> SUFFICES ASSUME NEW s \in ShardIndexes, lock'[s] # Free
               PROVE  Reason(lock[s], s)'
    BY DEF HeldForReason, Reason
  <2>1. CASE lock'[s] = c
    <3>1. \A z \in ShardIndexes : lock[z] = c => Reason(c, z)
      BY ConstantsAssumption DEF HeldForReason, Reason
    <3>2. Reason(c, s)'
      BY <1>2, <2>1, <3>1, StepKeepsReason
    <3> QED BY <2>1, <3>2 DEF Reason, InsideOneShard, InsideRecovery, Shard
  <2>2. CASE lock'[s] # c
    <3> DEFINE d == lock[s]
    <3>1. lock'[s] = d /\ d \in Callers \ {c}
      BY <1>2, <2>2, ShardTaken DEF TypeOK
    <3>2. call'[d] = call[d]
      BY <1>2, <3>1, StepOfOneCaller
    <3>3. Reason(d, s)
      BY <3>1, ConstantsAssumption DEF HeldForReason, Reason
    <3> QED BY <3>1, <3>2, <3>3 DEF Reason, InsideOneShard, InsideRecovery, Shard
  <2> QED BY <2>1, <2>2
<1>3. CASE PowerLoss
  BY <1>3 DEF PowerLoss, HeldForReason
<1> QED BY <1>1, <1>2, <1>3 DEF Next

\* Shards are taken in one order, so whoever holds the shard that a waiting
\* recovery waits for is no recovery that waits itself.
LEMMA SomebodyCanGoOn ==
  ASSUME TypeOK, HoldsLocks, HeldForReason
  PROVE  NoCircularWait
<1> SUFFICES ASSUME NEW c \in Callers, Waiting(c)
             PROVE  \E d \in Callers : call[d] \notin {Idle, Down} /\ ~Waiting(d)
  BY DEF NoCircularWait
<1> USE DEF Reason, InsideOneShard, InsideRecovery, Idle, Down
<1>1. ASSUME NEW b \in Callers, Waiting(b)
      PROVE  \E s \in ShardIndexes : /\ lock[s] \in Callers /\ Reason(lock[s], s)
                                     /\ call[b].at = "acquire" => s = call[b].next
  <2>1. call[b] \in Call
    BY DEF TypeOK
  <2>2. CASE call[b].at = "acquire"
    <3>1. call[b].next \in ShardIndexes /\ lock[call[b].next] # Free
      <4>1. call[b].next \in 0 .. Shards
        BY <2>1, <2>2, CallByLabel
      <4>2. call[b].next < Shards /\ lock[call[b].next] # Free
        BY <1>1, <2>2 DEF Waiting
      <4> QED BY <4>1, <4>2, ConstantsAssumption DEF ShardIndexes
    <3> QED BY <3>1 DEF HeldForReason, TypeOK
  <2>3. CASE call[b].at # "acquire"
    <3>1. Shard(b) \in ShardIndexes /\ lock[Shard(b)] # Free
      BY <1>1, <2>1, <2>3, CallByLabel, ConstantsAssumption DEF Waiting, Shard, ShardIndexes
    <3> QED BY <2>3, <3>1 DEF HeldForReason, TypeOK
  <2> QED BY <2>2, <2>3
<1>2. ASSUME NEW d \in Callers, InsideOneShard(d) \/ InsideRecovery(d)
      PROVE  call[d] \notin {Idle, Down} /\ ~Waiting(d)
  BY <1>2 DEF Waiting
<1>3. PICK s \in ShardIndexes : lock[s] \in Callers /\ Reason(lock[s], s)
  BY <1>1
<1>4. CASE ~(call[lock[s]].at = "acquire" /\ s < call[lock[s]].next)
  BY <1>2, <1>3, <1>4
<1>5. CASE call[lock[s]].at = "acquire" /\ s < call[lock[s]].next
  <2> DEFINE d == lock[s]
  <2>1. CASE ~Waiting(d)
    BY <1>3, <1>5, <2>1
  <2>2. CASE Waiting(d)
    <3>1. PICK z \in ShardIndexes : /\ lock[z] \in Callers /\ Reason(lock[z], z)
                                    /\ z = call[d].next
      BY <1>1, <1>3, <1>5, <2>2
    <3> DEFINE e == lock[z]
    <3>2. 0 \in ShardIndexes /\ z \in Nat /\ s \in Nat
      BY ConstantsAssumption DEF ShardIndexes
    <3>3. lock[0] = d
      <4>1. call[d] \in Call
        BY <1>3 DEF TypeOK
      <4>2. call[d].next \in Nat
        BY <1>5, <4>1, CallByLabel, ConstantsAssumption
      <4>3. 0 < call[d].next
        BY <1>5, <3>2, <4>2
      <4> QED BY <1>3, <1>5, <3>2, <4>3 DEF HoldsLocks
    <3>4. ~(call[e].at = "acquire" /\ z < call[e].next)
      <4> SUFFICES ASSUME call[e].at = "acquire", z < call[e].next PROVE FALSE
        OBVIOUS
      <4>1. call[e].next \in Nat
        <5>1. call[e] \in Call
          BY <3>1 DEF TypeOK
        <5> QED BY <5>1, CallByLabel, ConstantsAssumption
      <4>2. 0 < call[e].next
        BY <3>2, <4>1
      <4>3. e = lock[0]
        BY <3>1, <3>2, <4>2 DEF HoldsLocks
      <4>4. e = d
        BY <3>3, <4>3
      <4> QED BY <3>1, <3>2, <4>4
    <3>5. InsideOneShard(e) \/ InsideRecovery(e)
      BY <3>1, <3>4
    <3> QED BY <1>2, <3>1, <3>5
  <2> QED BY <2>1, <2>2
<1> QED BY <1>4, <1>5

-----------------------------------------------------------------------------
(* The abstract fence.                                                     *)

\* A call uses a token that was once returned.
TokensWereIssued ==
  \A c \in Callers :
    call[c].at \in {"transfer", "release", "withCommit", "commit"} =>
      call[c].expected \in issued[call[c].rec]

\* Tokens are never withdrawn.
LEMMA IssuedGrows ==
  ASSUME TypeOK, [Next]_vars, NEW r \in Recordings
  PROVE  issued[r] \subseteq issued'[r]
<1>1. CASE UNCHANGED vars \/ PowerLoss \/ \E c \in Callers : Open(c) \/ Crash(c) \/ BeginCall(c)
  BY <1>1 DEF vars, PowerLoss, Open, Crash, BeginCall, Begin, BeginClaim, BeginTransfer,
     BeginRelease, BeginWithCommit, BeginWithUnownedCommit, BeginRecovery
<1>2. ASSUME NEW c \in Callers, OneShardStep(c)
      PROVE  issued[r] \subseteq issued'[r]
  <2>1. CASE Sync(c)
    BY <2>1 DEF Sync, TypeOK
  <2>2. CASE ~Sync(c)
    BY <1>2, <2>2 DEF OneShardStep, Claim, Transfer, Release, WithCommit, WithUnownedCommit,
       EndCommit, Rename, Writing, Locked, Refused
  <2> QED BY <2>1, <2>2
<1>3. ASSUME NEW c \in Callers, RecoveryStep(c)
      PROVE  issued[r] \subseteq issued'[r]
  BY <1>3 DEF RecoveryStep, Acquire, Reconcile, FenceOne, FenceRename, FenceSync, Recover,
     EndRecovery
<1> QED BY <1>1, <1>2, <1>3 DEF Next

LEMMA TokensStayIssued ==
  ASSUME TypeOK, TokensWereIssued, [Next]_vars
  PROVE  TokensWereIssued'
<1> USE DEF Idle, Down
<1>g. \A r \in Recordings : issued[r] \subseteq issued'[r]
  BY IssuedGrows
<1>k. ASSUME NEW d \in Callers, call'[d] = call[d]
      PROVE  call'[d].at \in {"transfer", "release", "withCommit", "commit"} =>
               call'[d].expected \in issued'[call'[d].rec]
  <2>1. call[d] \in Call
    BY DEF TypeOK
  <2> QED BY <1>g, <1>k, <2>1, CallByLabel DEF TokensWereIssued
<1>1. CASE UNCHANGED vars
  BY <1>1 DEF vars, TokensWereIssued
<1>2. CASE PowerLoss
  BY <1>2 DEF PowerLoss, TokensWereIssued
<1>3. ASSUME NEW c \in Callers,
             Open(c) \/ BeginCall(c) \/ OneShardStep(c) \/ RecoveryStep(c) \/ Crash(c)
      PROVE  TokensWereIssued'
  <2> DEFINE x == call[c]
  <2>0. x \in Call /\ call \in [Callers -> Call] /\ \A d \in Callers \ {c} : call'[d] = call[d]
    BY <1>3, StepOfOneCaller DEF TypeOK
  <2>a. ASSUME call'[c].at \notin {"transfer", "release", "withCommit", "commit"}
        PROVE  TokensWereIssued'
    BY <1>k, <2>0, <2>a DEF TokensWereIssued
  <2>b. ASSUME Refused(c) \/ Finish(c, Idle) \/ Finish(c, Down)
        PROVE  TokensWereIssued'
    BY <2>0, <2>a, <2>b DEF Refused, Finish
  <2>1. CASE Open(c) \/ BeginClaim(c) \/ BeginWithUnownedCommit(c) \/ BeginRecovery(c)
    BY <2>0, <2>1, <2>a DEF Open, BeginClaim, BeginWithUnownedCommit, BeginRecovery, Begin
  <2>2. CASE BeginTransfer(c) \/ BeginRelease(c) \/ BeginWithCommit(c)
    <3>1. issued' = issued /\ \E r \in Recordings : \E t \in issued[r] :
             call'[c].rec = r /\ call'[c].expected = t
      BY <2>0, <2>2 DEF BeginTransfer, BeginRelease, BeginWithCommit, Begin
    <3> QED BY <1>k, <2>0, <3>1 DEF TokensWereIssued
  <2>3. CASE OneShardStep(c)
    <3>1. CASE Claim(c) \/ Transfer(c) \/ Release(c)
      <4>1. ASSUME NEW record, Writing(c, record)
            PROVE  TokensWereIssued'
        BY <2>0, <2>a, <2>b, <4>1 DEF Writing, Locked
      <4> QED BY <2>b, <3>1, <4>1 DEF Claim, Transfer, Release
    <3>2. CASE WithCommit(c)
      <4>1. CASE Locked(c, [x EXCEPT !.at = "commit"])
        <5>1. /\ x.rec \in Recordings /\ x.expected \in Token
              /\ x = [at |-> x.at, rec |-> x.rec, expected |-> x.expected]
          BY <2>0, <3>2, CallByLabel DEF WithCommit
        <5>2. call'[c] = [x EXCEPT !.at = "commit"] /\ issued' = issued
          BY <2>0, <4>1 DEF Locked
        <5>3. call'[c].rec = x.rec /\ call'[c].expected = x.expected
          BY <5>1, <5>2
        <5>4. x.expected \in issued[x.rec]
          BY <3>2 DEF WithCommit, TokensWereIssued
        <5> QED BY <1>k, <2>0, <5>2, <5>3, <5>4 DEF TokensWereIssued
      <4> QED BY <2>b, <3>2, <4>1 DEF WithCommit
    <3>3. CASE WithUnownedCommit(c)
      <4>1. [x EXCEPT !.at = "unowned"].at = "unowned"
        BY <2>0, <3>3, CallByLabel DEF WithUnownedCommit
      <4> QED BY <2>0, <2>a, <2>b, <3>3, <4>1 DEF WithUnownedCommit, Locked
    <3>4. CASE EndCommit(c) \/ Sync(c)
      BY <2>b, <3>4 DEF EndCommit, Sync
    <3>5. CASE Rename(c)
      <4>1. [x EXCEPT !.at = "sync"].at = "sync"
        BY <2>0, <3>5, CallByLabel DEF Rename
      <4> QED BY <2>0, <2>a, <2>b, <3>5, <4>1 DEF Rename, Goto
    <3> QED BY <2>3, <3>1, <3>2, <3>3, <3>4, <3>5 DEF OneShardStep
  <2>4. CASE RecoveryStep(c)
    <3>1. ASSUME NEW to, Goto(c, to), to.at \notin {"transfer", "release", "withCommit", "commit"}
          PROVE  TokensWereIssued'
      BY <2>0, <2>a, <3>1 DEF Goto
    <3>2. CASE Acquire(c)
      <4>1. [x EXCEPT !.next = @ + 1].at = "acquire"
        BY <2>0, <3>2, CallByLabel DEF Acquire
      <4> QED BY <2>0, <2>a, <3>2, <4>1 DEF Acquire
    <3>3. CASE Reconcile(c) \/ FenceSync(c) \/ Recover(c) \/ EndRecovery(c)
      BY <2>b, <3>1, <3>3 DEF Reconcile, FenceSync, Recover, EndRecovery
    <3>4. CASE FenceOne(c)
      <4>1. \A r, record : [at |-> "fenceRename", rec |-> r, record |-> record].at = "fenceRename"
        OBVIOUS
      <4> QED BY <2>b, <3>1, <3>4, <4>1 DEF FenceOne
    <3>5. CASE FenceRename(c)
      <4>1. [x EXCEPT !.at = "fenceSync"].at = "fenceSync"
        BY <2>0, <3>5, CallByLabel DEF FenceRename
      <4> QED BY <2>b, <3>1, <3>5, <4>1 DEF FenceRename
    <3> QED BY <2>4, <3>2, <3>3, <3>4, <3>5 DEF RecoveryStep
  <2>5. CASE Crash(c)
    BY <2>b, <2>5 DEF Crash
  <2> QED BY <1>3, <2>1, <2>2, <2>3, <2>4, <2>5 DEF BeginCall
<1> QED BY <1>1, <1>2, <1>3 DEF Next

\* The newest token of a Recording is a token that was returned, and of the
\* greatest epoch.
LEMMA NewestIsGreatest ==
  ASSUME TypeOK, NEW r \in Recordings, issued[r] # {}
  PROVE  NewestIssued(r) \in issued[r] /\ \A u \in issued[r] : u.epoch <= NewestIssued(r).epoch
<1> DEFINE R == {ss \in Nat \X Nat : ss[1] < ss[2]}
           T == {MaxEpoch - t.epoch : t \in issued[r]}
<1>1. IsWellFoundedOn(R, Nat)
  BY NatLessThanWellFounded DEF OpToRel
<1>2. \A t \in issued[r] : t.epoch \in 1 .. MaxEpoch
  BY DEF TypeOK, Token
<1>3. T \subseteq Nat /\ T # {}
  BY <1>2, ConstantsAssumption
<1> HIDE DEF R, T
<1>4. PICK x \in T : \A y \in T : ~ (<<y, x>> \in R)
  BY <1>1, <1>3, WFMin
<1>5. \A y \in T : x <= y
  <2> SUFFICES ASSUME NEW y \in T, y < x PROVE FALSE
    BY <1>3
  <2>1. <<y, x>> \in R
    BY <1>3 DEF R
  <2> QED BY <2>1, <1>4
<1>6. PICK t \in issued[r] : x = MaxEpoch - t.epoch
  BY DEF T
<1>7. \A u \in issued[r] : u.epoch <= t.epoch
  <2> SUFFICES ASSUME NEW u \in issued[r] PROVE u.epoch <= t.epoch
    OBVIOUS
  <2>1. x <= MaxEpoch - u.epoch
    BY <1>5 DEF T
  <2> QED BY <1>2, <1>6, <2>1, ConstantsAssumption
<1> QED BY <1>7 DEF NewestIssued

\* The state of the abstract fence.
Newest == [r \in Recordings |-> NewestIssued(r)]
Valid == [r \in Recordings |-> \E t \in issued[r] : OwnedBy(r, t)]
Commits(c, r) == call[c].at = "commit" /\ call[c].rec = r
Committing == [r \in Recordings |-> \E c \in Callers : Commits(c, r)]

\* The invariant that the refinement needs.
FenceInv == IInv /\ HeldForReason /\ TokensWereIssued

\* A step that leaves records, tokens and commits alone is none of the fence.
LEMMA NoFenceStep ==
  ASSUME UNCHANGED <<visible, issued>>,
         \A c \in Callers, r \in Recordings : Commits(c, r)' = Commits(c, r)
  PROVE  UNCHANGED Fence!fenceVars
BY DEF Fence!fenceVars, NewestIssued, OwnedBy, Commits

\* Nobody commits in a Recording that another call holds.
LEMMA NoCommitBeside ==
  ASSUME TypeOK, HoldsLocks, NEW c \in Callers, NEW r \in Recordings,
         \/ InsideRecovery(c)
         \/ InsideOneShard(c) /\ call[c].at # "commit" /\ call[c].rec = r
  PROVE  \A d \in Callers : ~Commits(d, r)
<1> SUFFICES ASSUME NEW d \in Callers, Commits(d, r) PROVE FALSE
  OBVIOUS
<1>1. InsideOneShard(d) /\ call[d].rec = r /\ d # c
  BY DEF Commits, InsideOneShard, InsideRecovery
<1> QED BY <1>1, LocksExclude DEF OneAtATime

\* When the record of p is replaced by one that no returned token owns, the
\* newest token of p is revoked.
LEMMA RevokeStep ==
  ASSUME TypeOK, NEW p \in Recordings, NEW new \in Record,
         visible' = [visible EXCEPT ![p] = new], UNCHANGED issued,
         \A t \in issued[p] : new # Active(t),
         \A c \in Callers, r \in Recordings : Commits(c, r)' = Commits(c, r),
         \A c \in Callers : ~Commits(c, p)
  PROVE  Fence!Revoke(p)
<1>1. Newest' = Newest /\ Committing' = Committing
  BY DEF Newest, NewestIssued, Committing
<1>2. Valid' = [Valid EXCEPT ![p] = FALSE]
  BY DEF Valid, OwnedBy, TypeOK
<1>3. ~Committing[p]
  BY DEF Committing
<1> QED BY <1>1, <1>2, <1>3 DEF Fence!Revoke, Newest, Valid, Committing, Commits

\* What a step of a caller that neither begins nor ends a commit leaves alone.
LEMMA CommitsKept ==
  ASSUME TypeOK, NEW c \in Callers,
         Open(c) \/ BeginCall(c) \/ OneShardStep(c) \/ RecoveryStep(c) \/ Crash(c),
         call[c].at # "commit", call'[c].at # "commit"
  PROVE  \A d \in Callers, r \in Recordings : Commits(d, r)' = Commits(d, r)
BY StepOfOneCaller DEF Commits

LEMMA CommitBegins ==
  ASSUME FenceInv, NEW c \in Callers, WithCommit(c)
  PROVE  Fence!FenceNext \/ UNCHANGED Fence!fenceVars
<1> DEFINE x == call[c]
<1>0. /\ TypeOK /\ HoldsLocks /\ x.at = "withCommit" /\ call \in [Callers -> Call]
      /\ x.rec \in Recordings /\ x.expected \in Token
      /\ x = [at |-> x.at, rec |-> x.rec, expected |-> x.expected]
      /\ x.expected \in issued[x.rec]
  <2>1. x \in Call /\ x.at = "withCommit" /\ TypeOK /\ HoldsLocks
    BY DEF FenceInv, IInv, TypeOK, WithCommit
  <2> QED BY <2>1, CallByLabel DEF FenceInv, TokensWereIssued, TypeOK
<1>p. PICK p \in Recordings : p = x.rec
  BY <1>0
<1>1. CASE Refused(c)
  <2>1. call'[c].at = "idle" /\ UNCHANGED <<visible, issued>>
    BY <1>0, <1>1 DEF Refused, Idle
  <2>2. \A d \in Callers, r \in Recordings : Commits(d, r)' = Commits(d, r)
    BY <1>0, <2>1, CommitsKept DEF OneShardStep
  <2> QED BY <2>1, <2>2, NoFenceStep
<1>2. CASE OwnedBy(p, x.expected) /\ Locked(c, [x EXCEPT !.at = "commit"])
  <2>1. /\ call'[c] = [x EXCEPT !.at = "commit"] /\ UNCHANGED <<visible, issued>>
        /\ lock[Shard(c)] = Free /\ \A d \in Callers \ {c} : call'[d] = call[d]
    BY <1>0, <1>2 DEF Locked
  <2>2. call'[c].at = "commit" /\ call'[c].rec = p
    BY <1>0, <1>p, <2>1
  <2>3. \A d \in Callers : ~Commits(d, p)
    <3> SUFFICES ASSUME NEW d \in Callers, Commits(d, p) PROVE FALSE
      OBVIOUS
    <3>1. lock[ShardOf[p]] = d
      BY <1>0 DEF Commits, HoldsLocks, InsideOneShard, Shard
    <3> QED BY <1>p, <2>1, <3>1, ConstantsAssumption DEF Shard
  <2>4. Newest' = Newest /\ Valid' = Valid
    BY <2>1 DEF Newest, NewestIssued, Valid, OwnedBy
  <2>5. Valid[p] /\ ~Committing[p]
    BY <1>0, <1>p, <1>2, <2>3 DEF Valid, Committing
  <2>6. Committing' = [Committing EXCEPT ![p] = TRUE]
    <3>1. \A r \in Recordings : Committing'[r] = (IF r = p THEN TRUE ELSE Committing[r])
      BY <1>0, <1>p, <2>1, <2>2 DEF Committing, Commits
    <3> QED BY <3>1 DEF Committing
  <2>7. Fence!BeginWrite(p)
    BY <2>4, <2>5, <2>6 DEF Fence!BeginWrite, Newest, Valid, Committing, Commits
  <2> QED BY <2>7 DEF Fence!FenceNext
<1> QED BY <1>p, <1>1, <1>2 DEF WithCommit

\* The caller leaves a commit: its callback returned, or its process died.
LEMMA CommitEnds ==
  ASSUME FenceInv, NEW c \in Callers, EndCommit(c) \/ Crash(c), call[c].at = "commit"
  PROVE  Fence!FenceNext \/ UNCHANGED Fence!fenceVars
<1>0. TypeOK /\ HoldsLocks /\ call[c] \in Call /\ call \in [Callers -> Call]
  BY DEF FenceInv, IInv, TypeOK
<1>1. PICK p \in Recordings : p = call[c].rec
  BY <1>0, CallByLabel
<1>2. /\ call'[c].at # "commit" /\ UNCHANGED <<visible, issued>>
      /\ \A d \in Callers \ {c} : call'[d] = call[d]
  BY <1>0 DEF EndCommit, Crash, Finish, Idle, Down
<1>3. Newest' = Newest /\ Valid' = Valid
  BY <1>2 DEF Newest, NewestIssued, Valid, OwnedBy
<1>4. \A d \in Callers \ {c} : ~Commits(d, p)
  BY <1>0, <1>1, LocksExclude DEF Commits, OneAtATime, InsideOneShard
<1>5. Committing' = [Committing EXCEPT ![p] = FALSE]
  <2>1. \A r \in Recordings : Committing'[r] = (IF r = p THEN FALSE ELSE Committing[r])
    BY <1>1, <1>2, <1>4 DEF Committing, Commits
  <2> QED BY <2>1 DEF Committing
<1>6. Fence!EndWrite(p)
  BY <1>3, <1>5 DEF Fence!EndWrite, Newest, Valid, Committing, Commits
<1> QED BY <1>6 DEF Fence!FenceNext

\* A token is returned once its record is durable.
LEMMA TokenGranted ==
  ASSUME FenceInv, NEW c \in Callers, Sync(c)
  PROVE  Fence!FenceNext \/ UNCHANGED Fence!fenceVars
<1> DEFINE x == call[c]
<1>0. /\ TypeOK /\ HoldsLocks /\ x \in Call /\ call \in [Callers -> Call] /\ x.at = "sync"
      /\ WriteOK(c) /\ call'[c].at # "commit" /\ visible' = visible
  BY InvariantByParts DEF FenceInv, TypeOK, Sync, Finish, Idle
<1>p. PICK p \in Recordings : p = x.rec
  BY <1>0, CallByLabel
<1>1. x.record \in Record \ {Absent} /\ x.record = visible[p]
  BY <1>0, <1>p, CallByLabel DEF WriteOK
<1>2. \A d \in Callers, r \in Recordings : Commits(d, r)' = Commits(d, r)
  BY <1>0, CommitsKept DEF OneShardStep
<1>3. CASE issued' = issued
  BY <1>0, <1>2, <1>3, NoFenceStep
<1>4. CASE /\ x.record.state = "active"
           /\ issued' = [issued EXCEPT ![p] =
                           @ \cup {[worker |-> x.record.worker, epoch |-> x.record.epoch]}]
  <2>0. PICK t \in Token : t = [worker |-> x.record.worker, epoch |-> x.record.epoch]
    BY <1>1, <1>4 DEF Token, Record, Absent
  <2>1. t.epoch \in Nat /\ x.record = Active(t)
    BY <1>1, <1>4, <2>0 DEF Token, Record, Active, Absent
  <2>2. \A u \in issued[p] : u.epoch < t.epoch
    BY <1>0, <1>p, <1>4, <2>0 DEF WriteOK
  <2>3. issued'[p] = issued[p] \cup {t} /\ \A r \in Recordings : r # p => issued'[r] = issued[r]
    BY <1>0, <1>1, <1>4, <2>0 DEF TypeOK
  <2>4. \A u \in issued[p] : u.epoch \in Nat
    BY <1>0, <1>1 DEF TypeOK, Token
  <2>5. NewestIssued(p)' = t
    <3>1. \A u \in issued'[p] : u.epoch <= t.epoch
      BY <2>1, <2>2, <2>3, <2>4
    <3>2. ASSUME NEW v \in issued'[p], \A u \in issued'[p] : u.epoch <= v.epoch
          PROVE  v = t
      BY <2>1, <2>2, <2>3, <2>4, <3>2
    <3>3. t \in issued'[p]
      BY <2>3
    <3> QED BY <3>1, <3>2, <3>3 DEF NewestIssued
  <2>6. Newest' = [Newest EXCEPT ![p] = t]
    <3>1. ASSUME NEW r \in Recordings, r # p
          PROVE  NewestIssued(r)' = NewestIssued(r)
      <4>1. issued'[r] = issued[r]
        BY <2>3, <3>1
      <4> QED BY <4>1 DEF NewestIssued
    <3>2. \A r \in Recordings : Newest'[r] = NewestIssued(r)'
      BY DEF Newest
    <3>3. \A r \in Recordings : Newest'[r] = [Newest EXCEPT ![p] = t][r]
      BY <2>5, <3>1, <3>2 DEF Newest
    <3> QED BY <3>3 DEF Newest
  <2>7. Valid' = [Valid EXCEPT ![p] = TRUE]
    <3>1. \A r \in Recordings : Valid'[r] = (IF r = p THEN TRUE ELSE Valid[r])
      BY <1>0, <1>1, <2>1, <2>3 DEF Valid, OwnedBy
    <3> QED BY <3>1 DEF Valid
  <2>8. ~Committing[p] /\ Committing' = Committing
    <3>1. \A d \in Callers : ~Commits(d, p)
      BY <1>0, <1>p, NoCommitBeside DEF InsideOneShard
    <3> QED BY <1>1, <1>2, <3>1 DEF Committing
  <2>9. Newest[p] # Absent => t.epoch > Newest[p].epoch
    <3>1. CASE issued[p] = {}
      BY <1>1, <3>1 DEF Newest, NewestIssued
    <3>2. CASE issued[p] # {}
      <4>1. Newest[p] \in issued[p]
        BY <1>0, <1>1, <3>2, NewestIsGreatest DEF Newest
      <4> QED BY <2>1, <2>2, <2>4, <4>1 DEF Token
    <3> QED BY <3>1, <3>2
  <2>10. t \in Fence!Grants
    BY <2>1 DEF Fence!Grants, Token
  <2>11. Fence!Grant(p)
    BY <2>6, <2>7, <2>8, <2>9, <2>10 DEF Fence!Grant, Newest, Valid, Committing, Commits
  <2> QED BY <2>11 DEF Fence!FenceNext
<1> QED BY <1>p, <1>3, <1>4 DEF Sync

\* A record is replaced: an owner is deposed, before its successor may commit.
LEMMA RecordReplaced ==
  ASSUME FenceInv, NEW c \in Callers, Rename(c) \/ FenceRename(c)
  PROVE  Fence!FenceNext \/ UNCHANGED Fence!fenceVars
<1> DEFINE x == call[c]
<1>0. /\ TypeOK /\ HoldsLocks /\ x \in Call /\ call \in [Callers -> Call]
      /\ WriteOK(c) /\ \A r \in Recordings : DiskOK(r)
  BY InvariantByParts DEF FenceInv, TypeOK
<1>1. x.at \in {"rename", "fenceRename"} /\ issued' = issued
  BY DEF Rename, FenceRename
<1>2. call'[c].at # "commit"
  <2>1. [x EXCEPT !.at = "sync"].at = "sync" /\ [x EXCEPT !.at = "fenceSync"].at = "fenceSync"
    BY <1>0, <1>1, CallByLabel
  <2>2. ASSUME NEW to, Goto(c, to), to.at \in {"sync", "fenceSync"} PROVE call'[c].at # "commit"
    BY <1>0, <2>2 DEF Goto
  <2>3. ASSUME Finish(c, Idle) \/ Finish(c, Down) PROVE call'[c].at # "commit"
    BY <1>0, <2>3 DEF Finish, Idle, Down
  <2>4. CASE Rename(c)
    BY <2>1, <2>2, <2>3, <2>4 DEF Rename
  <2>5. CASE FenceRename(c)
    BY <2>1, <2>2, <2>3, <2>5 DEF FenceRename
  <2> QED BY <2>4, <2>5
<1>3. \A d \in Callers, r \in Recordings : Commits(d, r)' = Commits(d, r)
  BY <1>0, <1>1, <1>2, CommitsKept DEF OneShardStep, RecoveryStep
<1>4. CASE visible' = visible
  BY <1>1, <1>3, <1>4, NoFenceStep
<1>5. CASE visible' = [visible EXCEPT ![x.rec] = x.record]
  <2>1. PICK p \in Recordings : p = x.rec
    BY <1>0, <1>1, CallByLabel
  <2>2. PICK new \in Record \ {Absent} : new = x.record
    BY <1>0, <1>1, CallByLabel
  <2>3. \A d \in Callers : ~Commits(d, p)
    BY <1>0, <1>1, <2>1, NoCommitBeside DEF InsideOneShard, InsideRecovery
  <2>4. \A t \in issued[p] : new # Active(t)
    <3> SUFFICES ASSUME NEW t \in issued[p], new = Active(t) PROVE FALSE
      OBVIOUS
    <3>1. new.state = "active" /\ new.epoch = t.epoch
      BY DEF Active
    <3>2. new.epoch = visible[p].epoch + 1
      BY <1>0, <1>1, <2>1, <2>2, <3>1 DEF WriteOK, Fenced
    <3>3. visible[p].epoch >= t.epoch /\ visible[p].epoch \in Nat /\ t.epoch \in Nat
      BY <1>0 DEF DiskOK, TypeOK, Record, Absent, Token
    <3> QED BY <3>1, <3>2, <3>3
  <2>5. visible' = [visible EXCEPT ![p] = new]
    BY <1>5, <2>1, <2>2
  <2>6. Fence!Revoke(p)
    BY <1>0, <1>1, <1>3, <2>3, <2>4, <2>5, RevokeStep
  <2> QED BY <2>6 DEF Fence!FenceNext
<1> QED BY <1>4, <1>5 DEF Rename, FenceRename

\* Every other step of a caller.
LEMMA OtherStep ==
  ASSUME FenceInv, NEW c \in Callers,
         \/ Open(c) \/ BeginCall(c) \/ Claim(c) \/ Transfer(c) \/ Release(c)
         \/ WithUnownedCommit(c)
         \/ (EndCommit(c) /\ call[c].at # "commit")
         \/ (Crash(c) /\ call[c].at # "commit")
         \/ Acquire(c) \/ Reconcile(c) \/ FenceOne(c) \/ FenceSync(c) \/ Recover(c) \/ EndRecovery(c)
  PROVE  UNCHANGED Fence!fenceVars
<1> DEFINE x == call[c]
<1>0. TypeOK /\ x \in Call /\ call \in [Callers -> Call]
  BY DEF FenceInv, IInv, TypeOK
<1> USE DEF Idle, Down
<1>q. ASSUME x.at # "commit", call'[c].at # "commit", UNCHANGED <<visible, issued>>,
             Open(c) \/ BeginCall(c) \/ OneShardStep(c) \/ RecoveryStep(c) \/ Crash(c)
      PROVE  UNCHANGED Fence!fenceVars
  BY <1>0, <1>q, CommitsKept, NoFenceStep
<1>f. ASSUME Finish(c, Idle) \/ Finish(c, Down) PROVE call'[c].at # "commit"
  BY <1>0, <1>f DEF Finish
<1>r. ASSUME Refused(c) PROVE call'[c].at # "commit" /\ UNCHANGED <<visible, issued>>
  BY <1>0, <1>r DEF Refused
<1>l. ASSUME NEW to, Locked(c, to), to.at # "commit"
      PROVE  call'[c].at # "commit" /\ UNCHANGED <<visible, issued>>
  BY <1>0, <1>l DEF Locked
<1>g. ASSUME NEW to, Goto(c, to), to.at # "commit" PROVE call'[c].at # "commit"
  BY <1>0, <1>g DEF Goto
<1>1. CASE Open(c) \/ BeginCall(c)
  <2>1. x.at # "commit" /\ call'[c].at # "commit" /\ UNCHANGED <<visible, issued>>
    BY <1>0, <1>1 DEF Open, BeginCall, Begin, BeginClaim, BeginTransfer, BeginRelease,
       BeginWithCommit, BeginWithUnownedCommit, BeginRecovery
  <2> QED BY <1>1, <1>q, <2>1
<1>2. CASE Claim(c) \/ Transfer(c) \/ Release(c)
  <2>1. ASSUME NEW record, Writing(c, record)
        PROVE  call'[c].at # "commit" /\ UNCHANGED <<visible, issued>>
    BY <1>r, <1>l, <2>1 DEF Writing
  <2>2. x.at # "commit" /\ call'[c].at # "commit" /\ UNCHANGED <<visible, issued>>
    BY <1>2, <1>r, <2>1 DEF Claim, Transfer, Release
  <2> QED BY <1>2, <1>q, <2>2 DEF OneShardStep
<1>3. CASE WithUnownedCommit(c)
  <2>1. [x EXCEPT !.at = "unowned"].at = "unowned"
    BY <1>0, <1>3, CallByLabel DEF WithUnownedCommit
  <2>2. x.at # "commit" /\ call'[c].at # "commit" /\ UNCHANGED <<visible, issued>>
    BY <1>3, <1>r, <1>l, <2>1 DEF WithUnownedCommit
  <2> QED BY <1>3, <1>q, <2>2 DEF OneShardStep
<1>4. CASE EndCommit(c) /\ x.at # "commit"
  <2>1. call'[c].at # "commit" /\ UNCHANGED <<visible, issued>>
    BY <1>4, <1>f DEF EndCommit
  <2> QED BY <1>4, <1>q, <2>1 DEF OneShardStep
<1>5. CASE Crash(c) /\ x.at # "commit"
  <2>1. call'[c].at # "commit" /\ UNCHANGED <<visible, issued>>
    BY <1>5, <1>f DEF Crash
  <2> QED BY <1>5, <1>q, <2>1
<1>6. CASE Acquire(c)
  <2>1. x.at = "acquire" /\ [x EXCEPT !.next = @ + 1].at = "acquire"
    BY <1>0, <1>6, CallByLabel DEF Acquire
  <2>2. call'[c] = [x EXCEPT !.next = @ + 1] /\ UNCHANGED <<visible, issued>>
    BY <1>0, <1>6 DEF Acquire
  <2> QED BY <1>6, <1>q, <2>1, <2>2 DEF RecoveryStep
<1>7. CASE Reconcile(c) \/ FenceSync(c) \/ Recover(c) \/ EndRecovery(c)
  <2>1. x.at # "commit" /\ call'[c].at # "commit" /\ UNCHANGED <<visible, issued>>
    BY <1>7, <1>f, <1>g DEF Reconcile, FenceSync, Recover, EndRecovery
  <2> QED BY <1>7, <1>q, <2>1 DEF RecoveryStep
<1>8. CASE FenceOne(c)
  <2>1. \A r, record : [at |-> "fenceRename", rec |-> r, record |-> record].at # "commit"
    OBVIOUS
  <2>2. x.at # "commit" /\ call'[c].at # "commit" /\ UNCHANGED <<visible, issued>>
    BY <1>8, <1>f, <1>g, <2>1 DEF FenceOne
  <2> QED BY <1>8, <1>q, <2>2 DEF RecoveryStep
<1> QED BY <1>1, <1>2, <1>3, <1>4, <1>5, <1>6, <1>7, <1>8

\* A power loss is the blackout of the abstract fence.
LEMMA PowerLossIsBlackout ==
  ASSUME FenceInv, PowerLoss
  PROVE  Fence!FenceNext
<1>1. issued' = issued /\ \A c \in Callers : ~(call'[c].at = "commit")
  BY DEF PowerLoss, Down
<1>2. Newest' = Newest /\ Committing' = [r \in Recordings |-> FALSE]
  BY <1>1 DEF Newest, NewestIssued, Committing, Commits
<1>3. Valid' \in [Recordings -> BOOLEAN]
  BY DEF Valid
<1>4. \A r \in Recordings : Valid'[r] => Newest[r] # Absent
  <2> SUFFICES ASSUME NEW r \in Recordings, issued[r] # {} PROVE NewestIssued(r) # Absent
    BY <1>1 DEF Valid, Newest
  <2>1. NewestIssued(r) \in Token
    BY NewestIsGreatest DEF FenceInv, IInv, TypeOK
  <2> QED BY <2>1 DEF Token, Absent
<1>5. Fence!Blackout
  BY <1>2, <1>3, <1>4 DEF Fence!Blackout, Newest, Valid, Committing, Commits
<1> QED BY <1>5 DEF Fence!FenceNext

\* Every step of the store is a step of the abstract fence or leaves it alone.
LEMMA StepsOfTheFence ==
  ASSUME FenceInv, [Next]_vars
  PROVE  [Fence!FenceNext]_Fence!fenceVars
<1>1. CASE UNCHANGED vars
  BY <1>1 DEF vars, Fence!fenceVars, NewestIssued, OwnedBy
<1>2. CASE PowerLoss
  BY <1>2, PowerLossIsBlackout
<1>3. ASSUME NEW c \in Callers,
             Open(c) \/ BeginCall(c) \/ OneShardStep(c) \/ RecoveryStep(c) \/ Crash(c)
      PROVE  Fence!FenceNext \/ UNCHANGED Fence!fenceVars
  <2>1. CASE WithCommit(c)
    BY <2>1, CommitBegins
  <2>2. CASE (EndCommit(c) \/ Crash(c)) /\ call[c].at = "commit"
    BY <2>2, CommitEnds
  <2>3. CASE Sync(c)
    BY <2>3, TokenGranted
  <2>4. CASE Rename(c) \/ FenceRename(c)
    BY <2>4, RecordReplaced
  <2>5. CASE ~WithCommit(c) /\ ~Sync(c) /\ ~Rename(c) /\ ~FenceRename(c)
             /\ ~((EndCommit(c) \/ Crash(c)) /\ call[c].at = "commit")
    BY <1>3, <2>5, OtherStep DEF OneShardStep, RecoveryStep
  <2> QED BY <2>1, <2>2, <2>3, <2>4, <2>5
<1> QED BY <1>1, <1>2, <1>3 DEF Next

\* The invariant of the refinement, and of the waits, is inductive.
LEMMA FenceInvHolds == Spec => []FenceInv
<1> DEFINE Waits == HeldForReason /\ TokensWereIssued
<1>1. Init => Waits
  BY DEF Init, HeldForReason, TokensWereIssued, Down
<1>2. IInv /\ Waits /\ [Next]_vars => Waits'
  BY ReasonsKept, TokensStayIssued DEF IInv
<1>3. IInv /\ Waits => FenceInv
  BY DEF FenceInv
<1> QED BY <1>1, <1>2, <1>3, InvariantHolds, PTL DEF Spec

\* Whenever a call waits for a shard, some call can go on: one-shard calls and
\* recoveries (withLock, withAllLocks) never wait for one another in a circle.
THEOREM NoDeadlockOfShards == Spec => []NoCircularWait
<1>1. FenceInv => NoCircularWait
  BY SomebodyCanGoOn DEF FenceInv, IInv
<1> QED BY <1>1, FenceInvHolds, PTL

\* The store implements the abstract fence: tokens are granted under growing
\* epochs, a commit runs only under the newest one, and nothing is granted or
\* revoked while it runs (Claim, Transfer, Release, WithCommit).
THEOREM StoreImplementsFence == Spec => ImplementsFence
<1>1. Init => Fence!FenceInit
  BY DEF Init, Fence!FenceInit, NewestIssued, Down
<1>2. FenceInv /\ [Next]_vars => [Fence!FenceNext]_Fence!fenceVars
  BY StepsOfTheFence
<1> QED BY <1>1, <1>2, FenceInvHolds, PTL DEF Spec, ImplementsFence, Fence!FenceSpec
=============================================================================
