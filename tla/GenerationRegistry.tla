------------------------- MODULE GenerationRegistry -------------------------
(***************************************************************************)
(* The Runtime Host's registry of application generations                  *)
(* (internal/runtimehost/generation/registry.go): the lifecycle state of   *)
(* every installed generation, the pointers an activation and a rollback   *)
(* follow, and the lease that pins each active Recording to an Engine.     *)
(*                                                                         *)
(* Every operation copies the snapshot, mutates the copy, validates it,    *)
(* writes it to a new file and publishes it in memory only if the write    *)
(* succeeded.  An operation is written here as the guard of its mutation   *)
(* (CanStage) and the copy it makes (StageIn), both functions of a         *)
(* snapshot, so that laws between operations can be stated; Change is the  *)
(* rest of it.  An operation that returns an error before the rename       *)
(* changes nothing and is left out.                                        *)
(*                                                                         *)
(* Abstractions: release metadata and start times are left out, and so     *)
(* are the checks of their syntax.                                         *)
(***************************************************************************)
EXTENDS Integers, FiniteSets

CONSTANTS
  Generations,      \* installable releases
  Recordings,
  Workers,          \* Engine process instances
  None,             \* an empty identifier
  MaxGenerations,   \* maxGenerations: installed at a time
  MaxLeases,        \* maxLeases
  MaxUnsynced       \* bound of the model: snapshots a power loss chooses from

ASSUME RegistryAssumption ==
  /\ IsFiniteSet(Generations) /\ IsFiniteSet(Recordings)
  /\ None \notin Generations /\ None \notin Workers
  /\ MaxGenerations \in Nat /\ MaxLeases \in Nat /\ MaxUnsynced \in Nat

VARIABLES
  mem,     \* Registry.state: the snapshot in memory
  file,    \* the snapshot a reader of the file finds
  maybe    \* the snapshots a power loss may leave in the file

registryVars == <<mem, file, maybe>>

-----------------------------------------------------------------------------
(* Snapshots.                                                              *)

States == {"absent", "staging", "verified", "ready", "active", "draining",
           "retired", "failed"}
Candidate == {"staging", "verified", "ready"}

Lease == [gen : Generations, worker : Workers]
NoLease == [gen |-> None, worker |-> None]

Snapshot ==
  [state    : [Generations -> States],
   dormant  : SUBSET Generations,
   active   : Generations \cup {None},
   previous : Generations \cup {None},
   pending  : Generations \cup {None},   \* ActivationPreviousGenerationID
   staged   : Generations \cup {None},
   lease    : [Recordings -> Lease \cup {NoLease}]]

EmptySnapshot ==
  [state    |-> [g \in Generations |-> "absent"],
   dormant  |-> {},
   active   |-> None, previous |-> None, pending |-> None, staged |-> None,
   lease    |-> [r \in Recordings |-> NoLease]]

Installed(s) == {g \in Generations : s.state[g] # "absent"}
Leased(s) == {r \in Recordings : s.lease[r] # NoLease}
LeasesOf(s, g) == {r \in Recordings : s.lease[r].gen = g}

\* An Engine of g may hold Recordings.
Attached(s, g) == s.state[g] \in {"active", "draining"} /\ g \notin s.dormant

WithinLimits(s) ==
  /\ Cardinality(Installed(s)) <= MaxGenerations
  /\ Cardinality(Leased(s)) <= MaxLeases

Consistent(s) ==
  /\ \A g \in Generations : s.state[g] = "active" <=> g = s.active
  /\ s.previous # None => s.state[s.previous] = "draining"
  /\ s.pending # None =>
       /\ s.state[s.pending] = "draining"
       /\ s.pending # s.previous
       /\ s.active # None /\ s.previous # None
  /\ s.staged # None => s.state[s.staged] \in Candidate
  /\ \A r \in Leased(s) : Attached(s, s.lease[r].gen)
  /\ \A g \in s.dormant : s.state[g] \in {"draining", "retired"}

ValidSnapshot(s) == WithinLimits(s) /\ Consistent(s)

-----------------------------------------------------------------------------
(* Lifecycle mutations.                                                    *)

\* Fault: a second candidate is staged over the first.
CanStageAgain(s, g) ==
  /\ Cardinality(Installed(s)) < MaxGenerations
  /\ s.state[g] = "absent"

CanStage(s, g) ==
  /\ Cardinality(Installed(s)) < MaxGenerations
  /\ s.state[g] = "absent"
  /\ s.staged = None
StageIn(s, g) == [s EXCEPT !.state[g] = "staging", !.staged = g]

\* transitionCandidate, of MarkVerified and MarkReady.
CanAdvance(s, g, from) == s.staged = g /\ s.state[g] = from
AdvanceIn(s, g, to) == [s EXCEPT !.state[g] = to]

CanFail(s, g) == s.staged = g /\ s.state[g] \in Candidate
FailIn(s, g) == [s EXCEPT !.state[g] = "failed", !.staged = None]

CanActivate(s, g) == s.staged = g /\ s.state[g] = "ready"
ActivateIn(s, g) ==
  [s EXCEPT !.state = [h \in Generations |->
                         CASE h = g -> "active"
                           [] h # g /\ h = s.active -> "draining"
                           [] OTHER -> s.state[h]],
            !.dormant = @ \ {g},
            !.active = g,
            !.previous = IF s.active = None THEN @ ELSE s.active,
            !.pending = s.previous,
            !.staged = None]

CanFinalize(s, g) == s.active = g
FinalizeIn(s) == [s EXCEPT !.pending = None]

CanAbort(s, g, old) ==
  /\ s.active = g /\ s.previous = old /\ s.pending # None
  /\ s.state[g] = "active" /\ s.state[old] = "draining"
  /\ LeasesOf(s, g) = {}
\* Fault: the abort keeps the rollback target of the failed activation.
AbortWithoutTarget(s, g, old) ==
  [s EXCEPT !.state[g] = "failed",
            !.state[old] = "active",
            !.dormant = @ \ {old},
            !.active = old,
            !.previous = None,
            !.pending = None]

AbortIn(s, g, old) ==
  [s EXCEPT !.state[g] = "failed",
            !.state[old] = "active",
            !.dormant = @ \ {old},
            !.active = old,
            !.previous = s.pending,
            !.pending = None]

CanRollback(s) ==
  /\ s.pending = None
  /\ s.previous # None /\ s.state[s.previous] = "draining"
  /\ s.active # None

RollbackIn(s) ==
  [s EXCEPT !.state[s.active] = "draining",
            !.state[s.previous] = "active",
            !.dormant = @ \ {s.previous},
            !.active = s.previous,
            !.previous = s.active]

CanMarkDormant(s, g) == s.state[g] = "draining" /\ g # s.active /\ LeasesOf(s, g) = {}
MarkDormantIn(s, g) == [s EXCEPT !.dormant = @ \cup {g}]

CanRetire(s, g) ==
  /\ g \notin {s.active, s.previous, s.pending}
  /\ s.state[g] \in {"draining", "failed"}
  /\ LeasesOf(s, g) = {}
RetireIn(s, g) ==
  [s EXCEPT !.state[g] = "retired",
            !.dormant = @ \ {g},
            !.staged = IF @ = g THEN None ELSE @]

CanRemove(s, g) ==
  /\ s.state[g] = "retired"
  /\ g \notin {s.active, s.previous, s.pending, s.staged}
  /\ LeasesOf(s, g) = {}
RemoveIn(s, g) == [s EXCEPT !.state[g] = "absent", !.dormant = @ \ {g}]

-----------------------------------------------------------------------------
(* Lease mutations.                                                        *)

CanPin(s, r, l) ==
  /\ s.lease[r] = NoLease
  /\ Cardinality(Leased(s)) < MaxLeases
  /\ l.gen = s.active /\ s.state[l.gen] = "active"
PinIn(s, r, l) == [s EXCEPT !.lease[r] = l]

\* TransferRecording, from the lease l to the lease m.
CanTransfer(s, r, l, m) ==
  /\ s.lease[r] = l /\ l # m
  /\ l.gen \notin s.dormant /\ s.state[l.gen] \in {"active", "draining", "failed"}
  /\ m.gen = s.active /\ s.state[m.gen] = "active" /\ m.gen \notin s.dormant

\* RollbackRecordingTransfer.
CanTransferBack(s, r, l, m) ==
  /\ s.lease[r] = l /\ l # m
  /\ l.gen \notin s.dormant /\ s.state[l.gen] = "active" /\ l.gen = s.active
  /\ m.gen \notin s.dormant /\ s.state[m.gen] = "draining" /\ m.gen # s.active

\* ReleaseRecording takes any worker of the generation.
CanRelease(s, r, g) == s.lease[r] # NoLease /\ s.lease[r].gen = g
CanReleaseOwner(s, r, l) == s.lease[r] = l

UnpinIn(s, r) == [s EXCEPT !.lease[r] = NoLease]

ClearLeasesIn(s) == [s EXCEPT !.lease = [r \in Recordings |-> NoLease]]

CanColdStart(s, g) == s.active = g /\ s.state[g] = "active"
ColdStartIn(s, g) ==
  [ClearLeasesIn(s) EXCEPT
     !.dormant = @ \cup {h \in Generations : h # g /\ s.state[h] = "draining"}]

\* An inventory per reporting generation: its instance and its Recordings.
\* reports maps each reporting generation to one.
Inventory == [worker : Workers, active : SUBSET Recordings]

ReportedBy(reports, r) == {g \in DOMAIN reports : r \in reports[g].active}

CanReconcile(s, reports) ==
  /\ \A g \in DOMAIN reports : Attached(s, g)
  /\ \A r \in Recordings : Cardinality(ReportedBy(reports, r)) <= 1
  /\ \A r \in Recordings : \A g \in ReportedBy(reports, r) :
       s.lease[r] = NoLease \/ s.lease[r].gen = g
ReconcileIn(s, reports) ==
  [s EXCEPT !.lease = [r \in Recordings |->
     IF ReportedBy(reports, r) # {}
     THEN LET g == CHOOSE g \in ReportedBy(reports, r) : TRUE IN
            [gen |-> g, worker |-> reports[g].worker]
     ELSE IF s.lease[r].gen \in DOMAIN reports THEN NoLease ELSE s.lease[r]]]

-----------------------------------------------------------------------------
(* Publication.                                                            *)

\* change and persist.  If the directory cannot be synchronized after the
\* rename the caller gets an error and memory keeps the old snapshot, but the
\* file already holds the new one.
Change(next) ==
  /\ ValidSnapshot(next)
  /\ file' = next
  /\ \/ mem' = next /\ maybe' = {next}
     \/ /\ Cardinality(maybe) < MaxUnsynced
        /\ mem' = mem /\ maybe' = maybe \cup {next}

Stage(g) == CanStage(mem, g) /\ Change(StageIn(mem, g))
MarkVerified(g) == CanAdvance(mem, g, "staging") /\ Change(AdvanceIn(mem, g, "verified"))
MarkReady(g) == CanAdvance(mem, g, "verified") /\ Change(AdvanceIn(mem, g, "ready"))
Fail(g) == CanFail(mem, g) /\ Change(FailIn(mem, g))
Activate(g) == CanActivate(mem, g) /\ Change(ActivateIn(mem, g))
FinalizeActivation(g) == CanFinalize(mem, g) /\ Change(FinalizeIn(mem))
AbortActivation(g, old) == CanAbort(mem, g, old) /\ Change(AbortIn(mem, g, old))
Rollback == CanRollback(mem) /\ Change(RollbackIn(mem))
MarkEngineDormant(g) == CanMarkDormant(mem, g) /\ Change(MarkDormantIn(mem, g))
Retire(g) == CanRetire(mem, g) /\ Change(RetireIn(mem, g))
RemoveRetired(g) == CanRemove(mem, g) /\ Change(RemoveIn(mem, g))
PinRecording(r, l) == CanPin(mem, r, l) /\ Change(PinIn(mem, r, l))
TransferRecording(r, l, m) == CanTransfer(mem, r, l, m) /\ Change(PinIn(mem, r, m))
RollbackRecordingTransfer(r, l, m) ==
  CanTransferBack(mem, r, l, m) /\ Change(PinIn(mem, r, m))
ReleaseRecording(r, g) == CanRelease(mem, r, g) /\ Change(UnpinIn(mem, r))
ReleaseRecordingOwner(r, l) == CanReleaseOwner(mem, r, l) /\ Change(UnpinIn(mem, r))
ClearLeases == Change(ClearLeasesIn(mem))
ReconcileColdStart(g) == CanColdStart(mem, g) /\ Change(ColdStartIn(mem, g))
ReconcileInventories(reports) ==
  /\ CanReconcile(mem, reports)
  /\ Cardinality(Leased(ReconcileIn(mem, reports))) <= MaxLeases
  /\ Change(ReconcileIn(mem, reports))

\* The Host restarts and opens the file; Open validates and never synchronizes.
Reopen ==
  /\ mem' = file
  /\ UNCHANGED <<file, maybe>>

PowerLoss ==
  \E s \in maybe : mem' = s /\ file' = s /\ maybe' = {s}

-----------------------------------------------------------------------------
RegistryInit ==
  /\ mem = EmptySnapshot /\ file = EmptySnapshot /\ maybe = {EmptySnapshot}

LifecycleNext ==
  \/ \E g \in Generations :
       \/ Stage(g) \/ MarkVerified(g) \/ MarkReady(g) \/ Fail(g)
       \/ Activate(g) \/ FinalizeActivation(g)
       \/ MarkEngineDormant(g) \/ Retire(g) \/ RemoveRetired(g)
       \/ \E old \in Generations : AbortActivation(g, old)
  \/ Rollback

LeaseNext ==
  \/ \E r \in Recordings, l \in Lease :
       \/ PinRecording(r, l) \/ ReleaseRecordingOwner(r, l)
       \/ \E m \in Lease : TransferRecording(r, l, m) \/ RollbackRecordingTransfer(r, l, m)
  \/ \E r \in Recordings, g \in Generations : ReleaseRecording(r, g)
  \/ ClearLeases
  \/ \E g \in Generations : ReconcileColdStart(g)
  \/ \E gs \in SUBSET Generations \ {{}} : \E reports \in [gs -> Inventory] :
       ReconcileInventories(reports)

RegistryNext == LifecycleNext \/ LeaseNext \/ Reopen \/ PowerLoss

RegistrySpec == RegistryInit /\ [][RegistryNext]_registryVars

-----------------------------------------------------------------------------
(* Properties.                                                             *)

TypeOK ==
  /\ mem \in Snapshot /\ file \in Snapshot
  /\ maybe \in SUBSET Snapshot

\* A candidate never loses its staged pointer, without which it could neither
\* fail nor be replaced, and a rollback target exists only beside a default.
CandidateIsStaged(s) ==
  \A g \in Generations : s.state[g] \in Candidate => s.staged = g

TargetNeedsDefault(s) == s.active = None => s.previous = None

Usable(s) == ValidSnapshot(s) /\ CandidateIsStaged(s) /\ TargetNeedsDefault(s)

\* Whatever snapshot a restart or a power loss leaves, Open accepts it and
\* every lifecycle step can go on from it (Open, Stage, Fail, Activate).
DiskIsUsable ==
  /\ file \in maybe
  /\ \A s \in maybe \cup {mem} : Usable(s)

\* No operation whose own guard passed is ever refused by the validation of
\* the copy: an internal inconsistency never blocks a lifecycle step (change).
LifecycleKeepsValid ==
  /\ \A g \in Generations :
       /\ CanStage(mem, g) => ValidSnapshot(StageIn(mem, g))
       /\ CanAdvance(mem, g, "staging") => ValidSnapshot(AdvanceIn(mem, g, "verified"))
       /\ CanAdvance(mem, g, "verified") => ValidSnapshot(AdvanceIn(mem, g, "ready"))
       /\ CanFail(mem, g) => ValidSnapshot(FailIn(mem, g))
       /\ CanActivate(mem, g) => ValidSnapshot(ActivateIn(mem, g))
       /\ CanFinalize(mem, g) => ValidSnapshot(FinalizeIn(mem))
       /\ \A old \in Generations :
            CanAbort(mem, g, old) => ValidSnapshot(AbortIn(mem, g, old))
       /\ CanMarkDormant(mem, g) => ValidSnapshot(MarkDormantIn(mem, g))
       /\ CanRetire(mem, g) => ValidSnapshot(RetireIn(mem, g))
       /\ CanRemove(mem, g) => ValidSnapshot(RemoveIn(mem, g))
       /\ CanColdStart(mem, g) => ValidSnapshot(ColdStartIn(mem, g))
  /\ CanRollback(mem) => ValidSnapshot(RollbackIn(mem))

LeasesKeepValid ==
  \A r \in Recordings, l \in Lease :
    /\ CanPin(mem, r, l) => ValidSnapshot(PinIn(mem, r, l))
    /\ CanReleaseOwner(mem, r, l) => ValidSnapshot(UnpinIn(mem, r))
    /\ \A m \in Lease :
         CanTransfer(mem, r, l, m) \/ CanTransferBack(mem, r, l, m) =>
           ValidSnapshot(PinIn(mem, r, m))

ValidationNeverRefuses == LifecycleKeepsValid /\ LeasesKeepValid

\* Aborting an activation that replaced a generation and kept a rollback
\* target restores the snapshot as it was, but for the failed candidate
\* (Activate, AbortActivation).
AbortUndoesActivate ==
  \A g \in Generations :
    CanActivate(mem, g) /\ mem.previous # None =>
      LET activated == ActivateIn(mem, g) IN
        /\ CanAbort(activated, g, mem.active)
        /\ AbortIn(activated, g, mem.active) =
             [mem EXCEPT !.state[g] = "failed", !.staged = None, !.pending = None]

\* A rollback can itself be rolled back, and nothing else has changed than
\* that the Engine of the rollback target is attached again (Rollback).
RollbackIsInvolution ==
  CanRollback(mem) =>
    /\ CanRollback(RollbackIn(mem))
    /\ RollbackIn(RollbackIn(mem)) = [mem EXCEPT !.dormant = @ \ {mem.previous}]

\* But for a restart, a lease moves from one generation to another only
\* onto the active Engine, or off it back to an attached draining one: no
\* inventory, however stale, moves it (TransferRecording,
\* RollbackRecordingTransfer, ReconcileInventories).
LeaseMoves(s, t) ==
  \A r \in Leased(s) \cap Leased(t) :
    LET g == s.lease[r].gen  h == t.lease[r].gen IN
      g # h => \/ h = s.active
               \/ g = s.active /\ s.state[h] = "draining" /\ h \notin s.dormant

LeasesMoveByTransfer == [][mem' \in maybe \/ LeaseMoves(mem, mem')]_registryVars
=============================================================================
