------------------------------ MODULE Handover ------------------------------
(***************************************************************************)
(* How a Recording in progress moves from the Recorder Engine of an old    *)
(* generation to the Engine of the default one, and how the Engine it left *)
(* is retired.                                                             *)
(*                                                                         *)
(* Four parties take part.                                                 *)
(*   - The Host runs one reconciliation pass at a time                     *)
(*     (updateController.ReconcileLeases): it reads the inventory of every *)
(*     Engine, projects it onto the retirement lease, tries one handover,  *)
(*     and stops an Engine it proved idle.  host is where the pass stands. *)
(*   - The authority (RecordingOwnerAuthority) moves the durable owner and *)
(*     the lease together.                                                 *)
(*   - Each Engine has a worker for the Recording (acquire.Manager), which *)
(*     commits under the token it holds, and a handler of Host commands.   *)
(*   - The archive root is one file: a commit writes the worker's copy of  *)
(*     it as a whole.                                                      *)
(*                                                                         *)
(* A call of the Host may be lost, its answer may be lost, or its handler  *)
(* may go on after the Host stopped waiting.  These and the failed writes  *)
(* are faults: MaxFaults bounds their number, FaultySteps says which steps *)
(* of the Host they may hit.                                               *)
(*                                                                         *)
(* Abstractions: one Recording and two Engines; the root is the sequence   *)
(* of what was written, each under its epoch; an Engine never              *)
(* exits by itself; the Host does not crash, for its recovery fences every *)
(* owner (OwnerStore) and no Engine outlives it here.                      *)
(***************************************************************************)
EXTENDS Integers, FiniteSets, SequencesExt

CONSTANTS
  Engines, None,
  MaxEpoch,      \* bound of the model: epochs of the durable owner
  MaxCommits,    \* bound of the model: segments of the Recording
  MaxFaults,     \* bound of the model: faults in a behaviour
  FaultySteps    \* the steps of the Host that may fail

ASSUME HandoverAssumption ==
  /\ IsFiniteSet(Engines) /\ Cardinality(Engines) = 2 /\ None \notin Engines
  /\ MaxEpoch \in Nat /\ MaxCommits \in Nat /\ MaxFaults \in Nat

VARIABLES
  default,    \* the active generation
  process,    \* the Engine process of each generation
  draining,   \* Engine.draining
  dormant,    \* Generation.EngineDormant
  lease,      \* the Engine the registry's lease of the Recording names
  durable,    \* the durable owner
  tracked,    \* RecordingOwnerAuthority.owners
  entry,      \* the worker of each Engine and its token
  prepared,   \* the root on which each Engine prepared a continuation
  archive,    \* the archive root
  late,       \* calls the Host no longer waits for, still to be handled
  host,       \* the reconciliation pass
  faults

authorityVars == <<lease, durable, tracked>>
engineVars == <<entry, prepared>>
processVars == <<default, process, draining, dormant>>
vars == <<default, process, draining, dormant, lease, durable, tracked,
          entry, prepared, archive, late, host, faults>>

-----------------------------------------------------------------------------
(* Tokens, workers and the root.                                           *)

Token(e, n) == [engine |-> e, epoch |-> n]
NoToken == Token(None, 0)

Owner(e, n) == [engine |-> e, epoch |-> n, held |-> TRUE]
OwnedBy(e, n) == durable = Owner(e, n)
DurableToken == Token(durable.engine, durable.epoch)

\* "claimed": the Engine has the token and no worker yet; "asked": told to park;
\* "parked": drained for a handover; "fenced": its commit was refused, its copy
\* of the root still says that it records; "ended": it published the end.
EntryStates == {"none", "claimed", "running", "asked", "parked", "fenced", "ended"}
NoEntry == [at |-> "none", epoch |-> 0, view |-> <<>>]

Holds(e) == OwnedBy(e, entry[e].epoch)

\* OwnedStates with the state "recording", in inventories and counts.
Reported(e) == entry[e].at \in {"running", "asked", "parked", "fenced"}

\* What a worker writes under its token: a segment, or the end of the Recording.
Segment == "segment"
End == "end"
Over == archive # <<>> /\ Last(archive).what = End

SetEntry(e, at) == entry' = [entry EXCEPT ![e].at = at]
Drop(e) == prepared' = [prepared EXCEPT ![e] = None]

-----------------------------------------------------------------------------
(* The Host and its calls.                                                 *)

Idle == [at |-> "idle", left |-> {}, seen |-> {}, epoch |-> 0, paused |-> FALSE]

Tgt == default
Src == CHOOSE e \in Engines : e # default

At(step) == host.at = step
Goto(step) == host' = [host EXCEPT !.at = step]

Faults(n) == /\ n > 0 => host.at \in FaultySteps
             /\ faults + n <= MaxFaults
             /\ faults' = faults + n
Fault == Faults(1)
NoFault == Faults(0)

\* WithProtectedLeases holds the authority's mutex.
AuthorityLocked == host.at \in {"read", "reconcile"}

\* A command of the Host: for resume, from is the epoch the worker parked under.
Msg(op, e, n, from) == [op |-> op, engine |-> e, epoch |-> n, from |-> from]

CanActivate(e, n) ==
  entry[e].at = "none" /\ prepared[e] = archive /\ OwnedBy(e, n)
CanResume(e, n, from) ==
  entry[e].at = "parked" /\ entry[e].epoch = from /\ OwnedBy(e, n)

\* A released owner is not found, which is not the refusal that is asked for.
CanComplete(e, n) ==
  entry[e].at = "parked" /\ entry[e].epoch = n /\ durable.held /\ ~OwnedBy(e, n)
CanDiscard(e) == entry[e].at = "none"

Accepts(m) ==
  \/ m.op = "activate" /\ CanActivate(m.engine, m.epoch)
  \/ m.op = "resume" /\ CanResume(m.engine, m.epoch, m.from)
  \/ m.op = "complete" /\ CanComplete(m.engine, m.epoch)
  \/ m.op = "discard" /\ CanDiscard(m.engine)

\* ActivatePreparedHandover loads the root; ResumeHandover keeps the worker's copy.
Carry(m) ==
  LET e == m.engine IN
  \/ /\ m.op = "activate" /\ Drop(e)
     /\ entry' = [entry EXCEPT ![e] = [at |-> "running", epoch |-> m.epoch, view |-> archive]]
  \/ /\ m.op = "resume" /\ UNCHANGED prepared
     /\ entry' = [entry EXCEPT ![e].at = "running", ![e].epoch = m.epoch]
  \/ m.op = "complete" /\ UNCHANGED prepared /\ entry' = [entry EXCEPT ![e] = NoEntry]
  \/ m.op = "discard" /\ UNCHANGED entry /\ Drop(e)

\* An activation that reaches the fence and fails there gives up its candidate.
Refuse(m) ==
  /\ UNCHANGED entry
  /\ IF m.op = "activate" /\ entry[m.engine].at = "none"
       THEN Drop(m.engine) ELSE UNCHANGED prepared

Handle(m) == (Accepts(m) /\ Carry(m)) \/ (~Accepts(m) /\ Refuse(m))

Call(m, success, failure) ==
  \/ Accepts(m) /\ Carry(m) /\ NoFault /\ Goto(success) /\ UNCHANGED late
  \/ ~Accepts(m) /\ Refuse(m) /\ NoFault /\ Goto(failure) /\ UNCHANGED late
  \/ Handle(m) /\ Fault /\ Goto(failure) /\ UNCHANGED late
  \/ UNCHANGED engineVars /\ Fault /\ Goto(failure) /\ UNCHANGED late
  \/ UNCHANGED engineVars /\ Fault /\ Goto(failure) /\ late' = late \cup {m}

LateCall(m) ==
  /\ late' = late \ {m} /\ Handle(m)
  /\ UNCHANGED <<processVars, authorityVars, archive, host, faults>>

-----------------------------------------------------------------------------
(* The worker of an Engine.                                                *)

Others == UNCHANGED <<processVars, host, late, faults>>

\* StartResolved: the Host pins the lease and issues the token in one step;
\* only the default Engine may claim.  The answer may get lost on its way.
Claim(e) ==
  /\ e = default /\ process[e] = "running" /\ ~draining[e]
  /\ durable.epoch = 0 /\ ~AuthorityLocked
  /\ lease' = e /\ durable' = Owner(e, 1) /\ tracked' = Token(e, 1)
  /\ \/ /\ entry' = [entry EXCEPT ![e].at = "claimed", ![e].epoch = 1]
        /\ UNCHANGED faults
     \/ /\ "claim" \in FaultySteps /\ faults < MaxFaults /\ faults' = faults + 1
        /\ UNCHANGED entry
  /\ UNCHANGED <<processVars, prepared, archive, late, host>>

StartWorker(e) ==
  /\ entry[e].at = "claimed" /\ SetEntry(e, "running")
  /\ UNCHANGED <<authorityVars, prepared, archive>> /\ Others

\* The owner releases what it holds, after a failed start or a terminal root.
Release(e) ==
  /\ entry[e].at \in {"claimed", "ended"} /\ ~AuthorityLocked
  /\ Holds(e) /\ tracked = DurableToken /\ lease = e
  /\ durable' = [durable EXCEPT !.held = FALSE]
  /\ tracked' = NoToken /\ lease' = None
  /\ entry' = [entry EXCEPT ![e] = NoEntry]
  /\ UNCHANGED <<prepared, archive>> /\ Others

\* Fault: the fence is not asked.
WriteUnfenced(e, what, at) ==
  /\ entry[e].at \in {"running", "asked"}
  /\ LET root == Append(entry[e].view, [what |-> what, epoch |-> entry[e].epoch]) IN
       archive' = root /\ entry' = [entry EXCEPT ![e].view = root, ![e].at = at]
  /\ UNCHANGED <<authorityVars, prepared>> /\ Others

\* A worker writes its copy of the root with what appended, if the fence lets it.
Write(e, what, at) ==
  /\ entry[e].at \in {"running", "asked"}
  /\ LET root == Append(entry[e].view, [what |-> what, epoch |-> entry[e].epoch]) IN
       IF Holds(e)
         THEN /\ archive' = root
              /\ entry' = [entry EXCEPT ![e].view = root, ![e].at = at]
         ELSE SetEntry(e, "fenced") /\ UNCHANGED archive
  /\ UNCHANGED <<authorityVars, prepared>> /\ Others

Commit(e) ==
  Len(entry[e].view) < MaxCommits /\ Write(e, Segment, entry[e].at)

\* The stream ends, storage fails, or Stop; Stop is refused during a handover.
Finish(e) == Write(e, End, "ended")

\* pauseAtWorkerBoundary, once everything accepted is committed.
Park(e) ==
  /\ entry[e].at = "asked" /\ SetEntry(e, "parked")
  /\ UNCHANGED <<authorityVars, prepared, archive>> /\ Others

-----------------------------------------------------------------------------
(* The reconciliation pass: inventories and the lease.                     *)

HostOnly == UNCHANGED <<processVars, authorityVars, engineVars, archive, late>>

BeginPass ==
  /\ At("idle")
  /\ host' = [Idle EXCEPT !.at = "read", !.left = {e \in Engines : ~dormant[e]}]
  /\ NoFault /\ HostOnly

Abandon == host' = Idle

\* Handlers of resume and activate keep ownerMu to the end, and an inventory takes
\* it for every worker it reports: it queues behind a call that is still there.
OwnerMuFree(e) == ~\E m \in late : m.engine = e /\ m.op \in {"activate", "resume"}

\* One inventory.  An entry whose token is not the durable one is not counted;
\* a source that was not detached is detached now.
ReadOne(e) ==
  /\ At("read") /\ e \in host.left /\ process[e] = "running"
  /\ Reported(e) => OwnerMuFree(e)
  /\ LET stale == Reported(e) /\ ~Holds(e)
         read == [host EXCEPT !.left = @ \ {e},
                              !.seen = IF Reported(e) /\ ~stale THEN @ \cup {e} ELSE @]
         m == Msg("complete", e, entry[e].epoch, 0)
     IN /\ host' = read
        /\ IF stale /\ lease \notin {None, e}
             THEN \/ Handle(m) /\ NoFault
                  \/ UNCHANGED engineVars /\ Fault
             ELSE UNCHANGED engineVars /\ NoFault
  /\ UNCHANGED <<processVars, authorityVars, archive, late>>

ReadFails ==
  /\ At("read") /\ Abandon /\ HostOnly
  /\ Fault \/ (NoFault /\ \E e \in host.left : process[e] = "stopped")

ReadAll ==
  /\ At("read") /\ host.left = {} /\ Goto("reconcile") /\ NoFault /\ HostOnly

Protected == IF tracked = NoToken THEN {} ELSE {tracked.engine}

\* The lease follows what was reported or is protected, or the pass is given up.
Reconcile ==
  /\ At("reconcile")
  /\ LET reports == host.seen \cup Protected IN
     \/ /\ Cardinality(reports) <= 1 /\ (lease = None \/ reports \subseteq {lease})
        /\ lease' = IF reports # {} THEN CHOOSE e \in reports : TRUE
                    ELSE IF lease # None /\ ~dormant[lease] THEN None ELSE lease
        /\ NoFault /\ host' = [Idle EXCEPT !.at = "check"]
     \/ /\ ~(Cardinality(reports) <= 1 /\ (lease = None \/ reports \subseteq {lease}))
        /\ NoFault /\ Abandon /\ UNCHANGED lease
     \/ Fault /\ Abandon /\ UNCHANGED lease
  /\ UNCHANGED <<processVars, durable, tracked, engineVars, archive, late>>

-----------------------------------------------------------------------------
(* The handover of the Recording from Src to Tgt.                          *)

\* Bound of the model: a transfer and its rollback still find an epoch.
EpochsLeft == durable.epoch + 3 <= MaxEpoch

Eligible ==
  /\ process[Src] = "running" /\ process[Tgt] = "running" /\ ~dormant[Src]
  /\ lease = Src /\ durable.held /\ tracked = DurableToken /\ durable.engine = Src
  /\ Holds(Src) /\ entry[Src].at \in {"running", "parked"} /\ ~Reported(Tgt)
  /\ EpochsLeft

Check ==
  /\ At("check") /\ HostOnly
  /\ \/ /\ Eligible /\ NoFault
        /\ host' = [host EXCEPT !.at = "prepare", !.epoch = durable.epoch]
     \/ ((~Eligible /\ NoFault) \/ Fault) /\ Goto("retire")

\* stageHandoverCandidate: the next segment is held in memory, bound to the root
\* that was read.
Staged(e, root) == prepared' = [prepared EXCEPT ![e] = root]

\* findHandoverCandidate: whether the playlist shows a segment that the root does
\* not have yet is not up to the code.
Candidates == BOOLEAN

\* probeHandoverContinuation: the target refreshes its source, reads the playlist
\* and stages what comes next, or finds nothing to continue with.
Probe(e, found) == IF found THEN Staged(e, archive) ELSE Drop(e)

\* While the source still records, a refresh, or a wait for the next segment, asks
\* for its drain instead.
NeedsDrain == Goto("pause") /\ NoFault /\ HostOnly

\* PrepareHandoverTarget: the target proves that it can continue the root it reads.
Ready == entry[Tgt].at = "none" /\ ~Over

PrepareWith(success) ==
  /\ UNCHANGED <<processVars, authorityVars, entry, archive, late>>
  /\ \E found \in Candidates :
       /\ found => Ready
       /\ \/ Probe(Tgt, found) /\ NoFault /\ Goto(IF found THEN success ELSE "drop")
          \/ (Probe(Tgt, found) \/ UNCHANGED prepared) /\ Fault /\ Goto("drop")

Prepare ==
  \/ At("prepare") /\ PrepareWith("pause")
  \/ At("prepare") /\ NeedsDrain

PrepareDrained == At("drained") /\ PrepareWith("transfer")

\* PauseForHandover: asks the worker to park; one that is parked under the
\* same token answers at once.
AskPause ==
  /\ At("pause") /\ NoFault
  /\ IF entry[Src].epoch = host.epoch /\ entry[Src].at = "running"
       THEN Goto("parking") /\ SetEntry(Src, "asked")
       ELSE /\ Goto(IF entry[Src].epoch = host.epoch /\ entry[Src].at = "parked"
                      THEN "parking" ELSE "drop")
            /\ UNCHANGED entry
  /\ UNCHANGED <<processVars, authorityVars, prepared, archive, late>>

\* A worker that did not park in time goes on; the answer of one that did
\* may still be lost.
AwaitPause ==
  /\ At("parking")
  /\ \/ /\ entry[Src].at = "parked" /\ NoFault /\ UNCHANGED entry
        /\ host' = [host EXCEPT !.at = "discard", !.paused = TRUE]
     \/ /\ entry[Src].at \notin {"asked", "parked"} /\ NoFault /\ UNCHANGED entry
        /\ Goto("drop")
     \/ entry[Src].at = "asked" /\ Fault /\ SetEntry(Src, "running") /\ Goto("drop")
     \/ entry[Src].at = "parked" /\ Fault /\ UNCHANGED entry /\ Goto("drop")
  /\ UNCHANGED <<processVars, authorityVars, prepared, archive, late>>

\* Fault: the cleanup does not resume a source it had paused.
DiscardOnly ==
  /\ \/ At("discard") /\ Call(Msg("discard", Tgt, 0, 0), "drained", "drop")
     \/ host.at \in {"drop", "restored"} /\ Call(Msg("discard", Tgt, 0, 0), "retire", "retire")
  /\ UNCHANGED <<processVars, authorityVars, archive>>

Discard ==
  /\ \/ At("discard") /\ Call(Msg("discard", Tgt, 0, 0), "drained", "drop")
     \/ LET next == IF host.paused THEN "undo" ELSE "retire" IN
        At("drop") /\ Call(Msg("discard", Tgt, 0, 0), next, next)
     \/ At("restored") /\ Call(Msg("discard", Tgt, 0, 0), "retire", "retire")
  /\ UNCHANGED <<processVars, authorityVars, archive>>

\* RecordingOwnerAuthority.transfer of the token [src, n].
MayTransfer(src, n) ==
  OwnedBy(src, n) /\ tracked = Token(src, n) /\ lease = src

\* Fault: the lease is left where it was.
TransferOwnerOnly(src, n, dst, success, failure) ==
  \/ /\ MayTransfer(src, n) /\ NoFault /\ Goto(success)
     /\ durable' = Owner(dst, n + 1) /\ tracked' = Token(dst, n + 1) /\ UNCHANGED lease
  \/ ~MayTransfer(src, n) /\ NoFault /\ Goto(failure) /\ UNCHANGED authorityVars

\* The durable owner first, then the lease, and the owner back if the lease
\* cannot follow.
Transfer(src, n, dst, success, failure) ==
  \/ /\ MayTransfer(src, n) /\ NoFault /\ Goto(success)
     /\ durable' = Owner(dst, n + 1) /\ tracked' = Token(dst, n + 1) /\ lease' = dst
  \/ ~MayTransfer(src, n) /\ NoFault /\ Goto(failure) /\ UNCHANGED authorityVars
  \/ /\ MayTransfer(src, n) /\ Fault /\ Goto(failure)
     /\ durable' \in {durable, Owner(dst, n + 1)} /\ UNCHANGED <<tracked, lease>>
  \/ /\ MayTransfer(src, n) /\ Fault /\ Goto(failure)
     /\ durable' = Owner(src, n + 2) /\ tracked' = Token(src, n + 2) /\ UNCHANGED lease
  \/ /\ MayTransfer(src, n) /\ Faults(2) /\ Goto(failure)
     /\ durable' = Owner(dst, n + 1) /\ tracked' = Token(dst, n + 1) /\ UNCHANGED lease

TransferOwner ==
  /\ At("transfer") /\ Transfer(Src, host.epoch, Tgt, "activate", "drop")
  /\ UNCHANGED <<processVars, engineVars, archive, late>>

Activate ==
  /\ At("activate")
  /\ Call(Msg("activate", Tgt, host.epoch + 1, 0), "detach", "rollback")
  /\ UNCHANGED <<processVars, authorityVars, archive>>

Detach ==
  /\ At("detach")
  /\ Call(Msg("complete", Src, host.epoch, 0), "retire", "retire")
  /\ UNCHANGED <<processVars, authorityVars, archive>>

\* An activation that may have happened is fenced by a newer epoch, and the
\* source is resumed under it.
RollbackOwner ==
  /\ At("rollback") /\ Transfer(Tgt, host.epoch + 1, Src, "resume", "retire")
  /\ UNCHANGED <<processVars, engineVars, archive, late>>

Resume ==
  /\ At("resume")
  /\ Call(Msg("resume", Src, host.epoch + 2, host.epoch), "restored", "retire")
  /\ UNCHANGED <<processVars, authorityVars, archive>>

\* The cleanup of a handover that stopped before the owner moved.
Undo ==
  /\ At("undo")
  /\ IF tracked = DurableToken /\ durable.held /\ durable.engine = Src
       THEN Call(Msg("resume", Src, durable.epoch, host.epoch), "retire", "retire")
       ELSE UNCHANGED <<engineVars, late>> /\ NoFault /\ Goto("retire")
  /\ UNCHANGED <<processVars, authorityVars, archive>>

-----------------------------------------------------------------------------
(* Retirement of the Engine that is not the default (retireSafeGenerations *)
(* and proveAndStopEngine).                                                *)

\* Fault: an Engine is stopped without proof.
RetireUnproved ==
  /\ At("retire") /\ NoFault /\ HostOnly
  /\ IF dormant[Src] THEN Abandon
     ELSE Goto(IF process[Src] = "running" THEN "stop" ELSE "dormant")

Retire ==
  /\ At("retire") /\ NoFault /\ HostOnly
  /\ IF dormant[Src] \/ lease = Src THEN Abandon
     ELSE Goto(IF process[Src] = "running" THEN "drain" ELSE "dormant")

\* BeginDrain waits for a start that was admitted; nothing takes it back.
BeginDrain ==
  /\ At("drain") /\ entry[Src].at # "claimed"
  /\ \/ draining' = [draining EXCEPT ![Src] = TRUE] /\ NoFault /\ Goto("count")
     \/ draining' \in {draining, [draining EXCEPT ![Src] = TRUE]} /\ Fault /\ Abandon
  /\ UNCHANGED <<default, process, dormant, authorityVars, engineVars, archive, late>>

\* The Control takes the Engine out of its router only while the Engine reports
\* no Recording, and never its default one (DetachGenerationContext).
Detachable(e) == e # default /\ ~Reported(e)

\* ActiveRecordings, then the lease and the detachment from the Control, then
\* RetireEngine counts again.
Prove ==
  /\ HostOnly
  /\ \/ At("count") /\ ~Reported(Src) /\ NoFault /\ Goto("recheck")
     \/ At("recheck") /\ lease # Src /\ Detachable(Src) /\ NoFault /\ Goto("stop")
     \/ At("count") /\ Reported(Src) /\ NoFault /\ Abandon
     \/ At("recheck") /\ ~(lease # Src /\ Detachable(Src)) /\ NoFault /\ Abandon
     \/ host.at \in {"count", "recheck"} /\ Fault /\ Abandon

StopEngine ==
  /\ At("stop")
  /\ process' = [process EXCEPT ![Src] = "stopped"]
  /\ draining' = [draining EXCEPT ![Src] = FALSE]
  /\ entry' = [entry EXCEPT ![Src] = NoEntry] /\ Drop(Src)
  /\ late' = {m \in late : m.engine # Src}
  /\ NoFault /\ Goto("dormant")
  /\ UNCHANGED <<default, dormant, authorityVars, archive>>

MarkDormant ==
  /\ At("dormant") /\ Abandon
  /\ \/ dormant' = [dormant EXCEPT ![Src] = TRUE] /\ NoFault
     \/ UNCHANGED dormant /\ Fault
  /\ UNCHANGED <<default, process, draining, authorityVars, engineVars, archive, late>>

\* An update or a rollback makes e the default between two passes.  An Engine
\* that still runs is used as it is.
Switch(e) ==
  /\ At("idle") /\ e # default /\ EpochsLeft
  /\ default' = e
  /\ process' = [process EXCEPT ![e] = "running"]
  /\ dormant' = [dormant EXCEPT ![e] = FALSE]
  /\ NoFault
  /\ UNCHANGED <<draining, authorityVars, engineVars, archive, late, host>>

-----------------------------------------------------------------------------
Init ==
  /\ default \in Engines
  /\ process = [e \in Engines |-> IF e = default THEN "running" ELSE "stopped"]
  /\ draining = [e \in Engines |-> FALSE]
  /\ dormant = [e \in Engines |-> e # default]
  /\ lease = None
  /\ durable = [engine |-> None, epoch |-> 0, held |-> FALSE]
  /\ tracked = NoToken
  /\ entry = [e \in Engines |-> NoEntry]
  /\ prepared = [e \in Engines |-> None]
  /\ archive = <<>>
  /\ late = {}
  /\ host = Idle
  /\ faults = 0

Worker(e) ==
  Claim(e) \/ StartWorker(e) \/ Release(e) \/ Commit(e) \/ Finish(e) \/ Park(e)

Pass ==
  \/ BeginPass \/ ReadFails \/ ReadAll \/ Reconcile \/ \E e \in Engines : ReadOne(e)
  \/ Check \/ Prepare \/ AskPause \/ AwaitPause \/ Discard \/ PrepareDrained
  \/ TransferOwner \/ Activate \/ Detach \/ RollbackOwner \/ Resume \/ Undo
  \/ Retire \/ BeginDrain \/ Prove \/ StopEngine \/ MarkDormant

Next ==
  \/ Pass
  \/ \E e \in Engines : Worker(e) \/ Switch(e)
  \/ \E m \in late : LateCall(m)

Spec == Init /\ [][Next]_vars

-----------------------------------------------------------------------------
(* Properties.                                                             *)

Epochs == 0..MaxEpoch
Roots == UNION {[1..k -> [what : {Segment, End}, epoch : Epochs]] : k \in 0..MaxCommits + 1}

HostSteps ==
  {"idle", "read", "reconcile", "check", "prepare", "pause", "parking", "discard",
   "drained", "transfer", "activate", "detach", "rollback", "resume", "restored",
   "drop", "undo", "retire", "drain", "count", "recheck", "stop", "dormant"}

Messages ==
  [op : {"activate", "resume", "complete", "discard"}, engine : Engines,
   epoch : Epochs, from : Epochs]

TypeOK ==
  /\ default \in Engines
  /\ process \in [Engines -> {"running", "stopped"}]
  /\ draining \in [Engines -> BOOLEAN] /\ dormant \in [Engines -> BOOLEAN]
  /\ lease \in Engines \cup {None}
  /\ durable \in [engine : Engines \cup {None}, epoch : Epochs, held : BOOLEAN]
  /\ tracked \in [engine : Engines \cup {None}, epoch : Epochs]
  /\ entry \in [Engines -> [at : EntryStates, epoch : Epochs, view : Roots]]
  /\ prepared \in [Engines -> Roots \cup {None}]
  /\ archive \in Roots
  /\ late \subseteq Messages
  /\ host \in [at : HostSteps, left : SUBSET Engines, seen : SUBSET Engines,
               epoch : Epochs, paused : BOOLEAN]
  /\ faults \in 0..MaxFaults

Writes(e) == entry[e].at \in {"running", "asked", "parked"} /\ Holds(e)

\* A worker that may commit is on the Engine the retirement lease names: no
\* lost call or failed write separates the two, so that proving the lease is
\* gone proves that no writer is there (WithProtectedLeases, transfer).
WriterIsLeased == \A e \in Engines : Writes(e) => lease = e

\* An Engine is never stopped under a worker that may commit, or under a start
\* that was admitted (proveAndStopEngine).
EngineIsKept ==
  [][\A e \in Engines : process[e] = "running" /\ process'[e] = "stopped" =>
       ~(entry[e].at \in {"claimed", "running", "asked", "parked"} /\ Holds(e))]_vars

\* Where nothing fails, every pass leaves the Recording with a worker that is
\* recording under the durable token, or that has just ended.
NoFaultStrands ==
  At("idle") /\ faults = 0 /\ durable.held =>
    Holds(durable.engine) /\ entry[durable.engine].at \in {"claimed", "running", "ended"}

\* The epoch under which a root was written last.
LastEpoch(root) == IF root = <<>> THEN 0 ELSE Last(root).epoch

\* What was committed stays in the root, whatever calls were lost and whoever
\* still runs, but for one case: a segment of a target whose activation was
\* rolled back, lost to the source that came back under the next epoch.  A worker
\* of an older epoch never writes again (WithCommit, handoverRecording).
Remains(i) == i <= Len(archive') /\ archive'[i] = archive[i]
OnlyRolledBackIsLost ==
  [][\A i \in DOMAIN archive :
       Remains(i) \/ archive[i].epoch = LastEpoch(archive') - 1]_vars

=============================================================================
