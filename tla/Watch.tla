------------------------------- MODULE Watch -------------------------------
(***************************************************************************)
(* One Watch of the Control plane's watch Service: its checks, the         *)
(* Recordings they start through the Engine, and the links between both.   *)
(*                                                                         *)
(* rt is the persisted Runtime, def the Definition; both are written as    *)
(* one file each, so a crash keeps what was saved.  A check is one job,    *)
(* from the queue to finishJob; it holds Service.mu only within an action  *)
(* and the start gate while its pc is "start".  The scheduler's goroutine  *)
(* reconciles links from a snapshot (rc) it took without a lock.  manager  *)
(* is the Engine behind a call that may be lost, late or refused.          *)
(*                                                                         *)
(* Abstractions.  Time only makes things possible: any check may be due,   *)
(* any call may time out.  States shown to a user are left out, except     *)
(* StateStarting, which the code reads.  The adapter tells the truth about *)
(* the broadcast, with or without its identity.  Other Watches show only   *)
(* as a full queue.  A write that failed changed nothing.                  *)
(***************************************************************************)
EXTENDS Naturals, FiniteSets

CONSTANTS
  MaxRecordings,  \* bound of the model: ids of Recordings the Watch starts
  MaxSessions,    \* bound of the model: broadcasts of the source
  MaxEvents       \* bound of the model: changes by a user, failed writes, lost answers, crashes

ASSUME WatchAssumption == {MaxRecordings, MaxSessions} \subseteq Nat \ {0} /\ MaxEvents \in Nat

VARIABLES
  def,        \* the Definition: "new", "on", "off" or "deleted"
  rt,         \* Runtime
  relations,  \* the Recordings related to the Watch
  svc,        \* the Service: "up", "recovering", "closing" or "down"
  paused,     \* Service.paused
  chk,        \* the job of the Watch in Service.jobs and how far its check came
  claimed,    \* Service.starting: the start this process owns
  rc,         \* the snapshot of the link reconciliation
  calls,      \* starts on their way to the Engine
  recs,       \* the Recordings of the Engine
  fresh,      \* the next id
  air,        \* the broadcast, 0 when there is none
  broadcasts, \* broadcasts so far
  changes,    \* how often a user changed something
  faults,     \* how much went wrong
  notices,    \* stops whose NotifyRecordingStopped is still to come
  abandoned,  \* history: starts the Watch gave up that the Engine carries out
  harm        \* history: "stale", a save undid another; "unlinked", one failed unseen

service == <<svc, paused, claimed>>
engine == <<calls, recs, fresh>>
others == <<air, broadcasts, notices>>
world == <<others, changes>>
ghosts == <<abandoned, harm>>
watchVars == <<def, rt, relations, service, chk, rc, engine, world, faults, ghosts>>

Ids == 1 .. MaxRecordings
Digests == 0 .. MaxSessions   \* of the session reference; 0 is none
Terminal == {"stopped", "completed", "interrupted"}

Runtimes == [starting : BOOLEAN, active : 0 .. MaxRecordings, pending : 0 .. MaxRecordings,
             digest : Digests, live : BOOLEAN, suppressed : BOOLEAN, suppDigest : Digests,
             outcome : {"none"} \cup Terminal]

NewRuntime == [starting |-> FALSE, active |-> 0, pending |-> 0, digest |-> 0, live |-> FALSE,
               suppressed |-> FALSE, suppDigest |-> 0, outcome |-> "none"]

NoCheck == [pc |-> "none", cancel |-> FALSE, base |-> NewRuntime, digest |-> 0, session |-> 0, id |-> 0]
NoScan == [kind |-> "none", base |-> NewRuntime, seen |-> "none"]
NoRecording == [state |-> "none", session |-> 0, known |-> FALSE, notified |-> FALSE]

Exists == def \in {"on", "off"}

\* lockStartGate.
GateFree == chk.pc # "start"
Up == svc # "down"
Started(id) == recs[id].state # "none"
StateOf(id) == IF id = 0 THEN "none" ELSE recs[id].state

-----------------------------------------------------------------------------
(* Saving. *)

Change == changes + faults < MaxEvents /\ changes' = changes + 1

\* A fault, when cond says that there was one.
FaultIf(cond) == faults' = faults + (IF cond THEN 1 ELSE 0) /\ (cond => changes + faults < MaxEvents)

\* Store.SaveRuntime: refused for a Watch that is gone, and the disk may fail.
SaveRuntime(new) ==
  IF Exists THEN rt' \in {new, rt} /\ FaultIf(rt' # new) ELSE UNCHANGED <<rt, faults>>

\* A save of what was computed from base, read before Service.mu was released.
\* Once it undid another, nothing else goes wrong.
SaveOver(base, new) ==
  LET stale == Exists /\ rt \notin {base, new}
  IN  \/ /\ rt' = IF Exists THEN new ELSE rt
         /\ faults' = IF stale THEN MaxEvents ELSE faults
         /\ harm' = IF stale THEN harm \cup {"stale"} ELSE harm
      \/ Exists /\ rt' = rt /\ FaultIf(TRUE) /\ UNCHANGED harm

Idle(r) == [r EXCEPT !.starting = FALSE]
Unpend(r) == [r EXCEPT !.starting = FALSE, !.pending = 0]
Unlink(r) == [r EXCEPT !.starting = FALSE, !.active = 0]

\* The start the Watch no longer pends, when the Engine carries it out all the same.
Forgotten(id) == IF id # 0 /\ rt'.pending # id /\ rt'.active # id /\ (id \in calls \/ Started(id))
                 THEN {id} ELSE {}

\* DeleteRelation of a Watch's Recording.
Unrelate(id) == relations' = relations \ {id}

\* finishJob.
FinishJob == chk' = NoCheck

\* Fault: a start that was called stays claimed.
UnclaimUncalled == claimed' = IF chk.pc = "start" THEN claimed ELSE 0

\* delete(s.starting, id).
Unclaim == claimed' = 0

-----------------------------------------------------------------------------
(* The operations of a user. *)

\* Store.Create: the Definition, written last, is the commit marker.
CreateDefinition == def' = "on" /\ rt' = NewRuntime

\* Store.Update: the Runtime is saved apart.
UpdateDefinition(enabled) == def' = IF enabled THEN "on" ELSE "off"

\* Store.Delete: the Definition goes first, what is left of the rest is cleaned later.
DeleteDefinition == def' = "deleted" /\ rt' = NewRuntime /\ relations' = {}

\* Service.Create.
Create ==
  /\ svc = "up" /\ def = "new"
  /\ CreateDefinition
  /\ UNCHANGED <<relations, service, chk, rc, engine, world, ghosts, faults>>

\* Service.Update, refused while a check runs or a Recording is linked.  A new
\* source has broadcasts of its own.
Update(changed, enabled) ==
  /\ Up /\ Exists /\ chk.pc = "none" /\ rt.active = 0 /\ ~rt.starting
  /\ Change /\ (changed \/ enabled # (def = "on"))
  /\ UpdateDefinition(enabled)
  /\ SaveRuntime(IF changed THEN [NewRuntime EXCEPT !.pending = rt.pending] ELSE rt)
  /\ air' = IF changed THEN 0 ELSE air
  /\ UNCHANGED <<relations, service, chk, rc, engine, broadcasts, notices, ghosts>>

\* Service.SetEnabled: under the start gate, and a check of a disabled Watch ends.
SetEnabled(enabled) ==
  /\ Up /\ Exists /\ enabled # (def = "on") /\ GateFree /\ Change
  /\ UpdateDefinition(enabled)
  /\ SaveRuntime(Idle(rt))
  /\ chk' = [chk EXCEPT !.cancel = @ \/ (~enabled /\ chk.pc \notin {"none", "queued"})]
  /\ UNCHANGED <<relations, service, rc, engine, others, ghosts>>

\* Service.Delete: canonical recordings stay.
Delete ==
  /\ Up /\ Exists /\ GateFree /\ Change
  /\ DeleteDefinition
  /\ chk' = [chk EXCEPT !.cancel = @ \/ chk.pc \notin {"none", "queued"}]
  /\ abandoned' = abandoned \cup Forgotten(rt.pending)
  /\ UNCHANGED <<service, rc, engine, others, harm, faults>>

-----------------------------------------------------------------------------
(* The queue and its workers. *)

\* Service.enqueue: one job per Watch; a full queue changes nothing.
Enqueue ==
  /\ svc \in {"up", "recovering"} /\ ~paused /\ chk.pc = "none"
  /\ chk' = [NoCheck EXCEPT !.pc = "queued"]
  /\ UNCHANGED <<def, rt, relations, service, rc, engine, world, ghosts, faults>>

ManualCheck == def = "on" /\ Enqueue

\* ScheduleDueAt of Store.DueIDs, on the goroutine that reconciles links.
ScheduleDue == svc = "up" /\ rc.kind = "none" /\ def = "on" /\ rt.active = 0 /\ rt.pending = 0 /\ Enqueue

\* failQueued, when Run ends.
FailQueued ==
  /\ svc = "closing" /\ chk.pc = "queued"
  /\ FinishJob
  /\ UNCHANGED <<def, rt, relations, service, rc, engine, world, ghosts, faults>>

\* Pause cancels the check under way and waits for it.
Pause ==
  /\ svc = "up" /\ ~paused /\ Change
  /\ paused' = TRUE
  /\ chk' = [chk EXCEPT !.cancel = @ \/ chk.pc \notin {"none", "queued"}]
  /\ UNCHANGED <<def, rt, relations, svc, claimed, rc, engine, others, ghosts, faults>>

Resume ==
  /\ svc = "up" /\ paused
  /\ paused' = FALSE
  /\ UNCHANGED <<def, rt, relations, svc, claimed, chk, rc, engine, world, ghosts, faults>>

-----------------------------------------------------------------------------
(* A check, up to the observation. *)

\* Service.worker: a job taken while paused ends at once; else runCheck, under
\* Service.mu, marks the Watch as checking.
TakeJob ==
  /\ svc = "up" /\ chk.pc = "queued"
  /\ \/ /\ paused \/ def # "on"
        /\ FinishJob /\ UNCHANGED <<rt, faults>>
     \/ /\ ~paused /\ def = "on" /\ rt.active # 0
        /\ chk' = [chk EXCEPT !.pc = "reconcile", !.base = rt] /\ UNCHANGED <<rt, faults>>
     \/ /\ ~paused /\ def = "on" /\ rt.active = 0
        /\ rt' = Idle(rt) /\ UNCHANGED faults
        /\ chk' = [chk EXCEPT !.pc = "ask"]
     \/ /\ ~paused /\ def = "on" /\ rt.active = 0   \* the save failed
        /\ FinishJob /\ FaultIf(TRUE) /\ UNCHANGED rt
  /\ UNCHANGED <<def, relations, service, rc, engine, world, ghosts>>

\* failed, on the Runtime as it is by now.
Failed ==
  /\ SaveRuntime(Unpend(rt))
  /\ IF rt.pending = 0 THEN UNCHANGED <<relations, claimed>> ELSE Unrelate(rt.pending) /\ Unclaim
  /\ abandoned' = abandoned \cup Forgotten(rt.pending)
  /\ FinishJob

\* The adapter is not ready, WatchCheck or Resolve fail or time out, or what was
\* claimed has no Provenance.
CheckFails ==
  /\ chk.pc \in {"ask", "claim", "claimed"}
  /\ IF Exists /\ ~(chk.pc = "ask" /\ chk.cancel)
     THEN Failed
     ELSE FinishJob /\ UNCHANGED <<rt, relations, claimed, faults, abandoned>>
  /\ UNCHANGED <<def, svc, paused, rc, engine, world, harm>>

\* runCheck returns what its parent context says before it looks at the answer.
CheckCancelled ==
  /\ chk.pc = "ask" /\ chk.cancel
  /\ FinishJob
  /\ UNCHANGED <<def, rt, relations, service, rc, engine, world, ghosts, faults>>

\* offline.
SeesOffline ==
  /\ chk.pc = "ask" /\ ~chk.cancel /\ air = 0
  /\ SaveRuntime([NewRuntime EXCEPT !.pending = rt.pending])
  /\ abandoned' = abandoned \cup Forgotten(rt.active)
  /\ FinishJob
  /\ UNCHANGED <<def, relations, service, rc, engine, world, harm>>

\* What live makes of the Runtime r and the digest d of the session it sees.
Observed(r, d) ==
  LET new == d # 0 /\ r.digest # 0 /\ d # r.digest
      seen == [r EXCEPT !.digest = IF d = 0 THEN @ ELSE d, !.live = TRUE]
  IN  IF new THEN [seen EXCEPT !.suppressed = FALSE, !.suppDigest = 0, !.outcome = "none"] ELSE seen

SameSession(r, d) == IF d = 0 THEN r.live ELSE d = r.digest

\* Fault: a stop is forgotten once the session has an identity.
StillSuppressedById(r, d) == r.suppressed /\ (d = 0 \/ r.suppDigest = d)

\* A suppressed session ends with an offline observation or a known other identity.
StillSuppressed(r, d) == r.suppressed /\ (r.suppDigest = 0 \/ d = 0 \/ r.suppDigest = d)

Unsuppress(r) ==
  IF r.suppressed THEN [r EXCEPT !.suppressed = FALSE, !.suppDigest = 0, !.outcome = "none"] ELSE r

\* What live leaves alone: a session that was stopped or that is being recorded.
LeftAlone(r, d) ==
  LET seen == Observed(r, d)
  IN  \/ StillSuppressed(seen, d)
      \/ SameSession(r, d) /\ Unsuppress(seen).outcome \in {"completed", "stopped"}
      \/ r.active # 0

\* live, under its first hold of Service.mu; the answer names the session or not.
SeesLive(d) ==
  /\ chk.pc = "ask" /\ ~chk.cancel /\ air # 0 /\ d \in {0, air}
  /\ \/ /\ def = "on" /\ LeftAlone(rt, d)
        /\ LET seen == Observed(rt, d)
           IN  SaveRuntime(Idle(IF StillSuppressed(seen, d) THEN seen ELSE Unsuppress(seen)))
        /\ FinishJob
     \/ /\ def = "on" /\ ~LeftAlone(rt, d)
        /\ chk' = [chk EXCEPT !.pc = "claim", !.base = rt, !.digest = d, !.session = air]
        /\ UNCHANGED <<rt, faults>>
     \/ /\ def = "on" /\ ~LeftAlone(rt, d)   \* without media or a way to resolve it
        /\ SaveRuntime(Idle(Unsuppress(Observed(rt, d))))
        /\ FinishJob
     \/ /\ def # "on"
        /\ FinishJob /\ UNCHANGED <<rt, faults>>
  /\ UNCHANGED <<def, relations, service, rc, engine, world, ghosts>>

-----------------------------------------------------------------------------
(* A start. *)

\* Fault: a start that is pending does not prevent another.
ClaimableUnlinked == def = "on" /\ rt.active = 0 /\ ~rt.starting

\* Else ErrActiveRecording.
Claimable == def = "on" /\ rt.active = 0 /\ rt.pending = 0 /\ ~rt.starting

\* claimStarting: saves the Runtime live computed, and a new id.
ClaimStarting ==
  /\ chk.pc = "claim" /\ fresh <= MaxRecordings /\ Claimable
  /\ SaveOver(chk.base, [Unsuppress(Observed(chk.base, chk.digest)) EXCEPT !.starting = TRUE, !.pending = fresh])
  /\ IF rt'.pending = fresh
     THEN /\ chk' = [chk EXCEPT !.pc = "claimed", !.base = NewRuntime, !.id = fresh]
          /\ claimed' = fresh /\ fresh' = fresh + 1
     ELSE FinishJob /\ UNCHANGED <<claimed, fresh>>
  /\ UNCHANGED <<def, relations, svc, paused, rc, calls, recs, world, abandoned>>

ClaimRefused ==
  /\ chk.pc = "claim" /\ ~Claimable
  /\ FinishJob
  /\ UNCHANGED <<def, rt, relations, service, rc, engine, world, ghosts, faults>>

\* clearPendingStart, when the context ended before the gate.
ClearPendingStart ==
  /\ chk.pc = "claimed"
  /\ Unclaim /\ Unrelate(chk.id)
  /\ SaveRuntime(IF rt.pending = chk.id THEN Unpend(rt) ELSE rt)
  /\ FinishJob
  /\ UNCHANGED <<def, svc, paused, rc, engine, world, ghosts>>

MayStart == def = "on" /\ rt.active = 0 /\ rt.pending = chk.id

\* live behind the start gate finds the Watch disabled, deleted or changed.
StartRefused ==
  /\ chk.pc = "claimed" /\ ~MayStart
  /\ Unclaim /\ Unrelate(chk.id)
  /\ SaveRuntime(IF rt.pending = chk.id THEN Unpend(rt) ELSE rt)
  /\ FinishJob
  /\ UNCHANGED <<def, svc, paused, rc, engine, world, ghosts>>

\* SaveRelation failed: the start is withdrawn, then counted as a failure.
RelationFails ==
  /\ chk.pc = "claimed" /\ MayStart
  /\ Unclaim
  /\ rt' \in {Unpend(rt), [rt EXCEPT !.pending = 0], rt} /\ FaultIf(TRUE)
  /\ FinishJob
  /\ UNCHANGED <<def, relations, svc, paused, rc, engine, world, ghosts>>

\* The relation is saved before StartResolvedWithID is called, outside Service.mu.
StartResolved ==
  /\ chk.pc = "claimed" /\ MayStart
  /\ relations' = relations \cup {chk.id}
  /\ calls' = calls \cup {chk.id}
  /\ recs' = [recs EXCEPT ![chk.id] = [NoRecording EXCEPT !.session = chk.session, !.known = chk.digest # 0]]
  /\ chk' = [chk EXCEPT !.pc = "start", !.base = rt]
  /\ UNCHANGED <<def, rt, service, rc, fresh, world, ghosts, faults>>

\* The Engine answered: the pending id becomes the active one.  A save that
\* fails leaves it pending for reconcilePending.
CommitStart ==
  /\ chk.pc = "start" /\ Started(chk.id)
  /\ SaveRuntime(IF rt.pending = chk.id /\ def = "on"
                 THEN [Unpend(rt) EXCEPT !.active = chk.id, !.outcome = "none"] ELSE rt)
  /\ Unclaim /\ FinishJob
  /\ UNCHANGED <<def, relations, svc, paused, rc, engine, world, ghosts>>

\* StartResolvedWithID failed, as far as its caller knows.
StartFails ==
  /\ chk.pc = "start"
  /\ Unrelate(chk.id) /\ Unclaim
  /\ rt' \in {Unpend(chk.base), Unpend(rt), rt}
  /\ FaultIf(rt' \notin {Unpend(chk.base), Unpend(rt)} \/ chk.id \in calls \/ Started(chk.id))
  /\ harm' = harm \cup {h \in {"stale"} : rt' = Unpend(chk.base) /\ rt # chk.base}
  /\ abandoned' = abandoned \cup Forgotten(chk.id)
  /\ FinishJob
  /\ UNCHANGED <<def, svc, paused, rc, engine, world>>

-----------------------------------------------------------------------------
(* The links to the Engine's Recordings. *)

\* reconcileOne and markTerminal of what manager.Get saw, from a Runtime that
\* was read without Service.mu.
Reconcile(base, seen) ==
  /\ SaveOver(base,
       CASE seen \in {"recording", "error"} -> Idle(base)
         [] seen \in Terminal -> [Unlink(base) EXCEPT !.outcome = seen]
         [] OTHER -> Unlink(base))
  /\ IF seen \in {"none", "gone"} THEN Unrelate(base.active) ELSE UNCHANGED relations

\* A check of a Watch with an active Recording only reconciles it.
CheckReconciles ==
  /\ chk.pc = "reconcile"
  /\ \E seen \in {"error", StateOf(chk.base.active)} : Reconcile(chk.base, seen)
  /\ FinishJob
  /\ UNCHANGED <<def, service, rc, engine, world, abandoned>>

\* reconcileLinks takes its snapshots first.
LinkSnapshot ==
  /\ svc = "up" /\ rc.kind = "none" /\ Exists /\ rt.active # 0 /\ rt.pending = 0
  /\ rc' = [kind |-> "links", base |-> rt, seen |-> StateOf(rt.active)]
  /\ UNCHANGED <<def, rt, relations, service, chk, engine, world, ghosts, faults>>

\* manager.Get answers with what the Recording was or is since.
LinkReconciles ==
  /\ rc.kind = "links"
  /\ \E seen \in {"error", rc.seen, StateOf(rc.base.active)} : Reconcile(rc.base, seen)
  /\ rc' = NoScan
  /\ UNCHANGED <<def, service, chk, engine, world, abandoned>>

\* The Runtime with its pending start resolved by what manager.Get saw.
Resolved(r, seen) ==
  CASE seen = "error" -> Idle(r)
    [] seen = "recording" -> [Unpend(r) EXCEPT !.active = r.pending]
    [] seen \in Terminal -> [Unpend(r) EXCEPT !.active = 0, !.outcome = seen]
    [] OTHER -> Unpend(r)

\* The relation of a pending start: kept, saved again, or deleted with it.
Rerelated(related, id, seen) ==
  CASE seen = "error" -> related
    [] seen \in {"none", "gone"} -> related \ {id}
    [] OTHER -> related \cup {id}

\* reconcilePending, all of it under Service.mu, unless this process is starting it.
ReconcilePending ==
  /\ svc = "up" /\ rc.kind = "none" /\ Exists /\ rt.pending \notin {0, claimed}
  /\ \E seen \in {"error", StateOf(rt.pending)} :
       /\ SaveRuntime(Resolved(rt, seen))
       /\ relations' = Rerelated(relations, rt.pending, seen)
  /\ abandoned' = abandoned \cup Forgotten(rt.pending)
  /\ UNCHANGED <<def, service, chk, rc, engine, world, harm>>

\* Store.load: the runtime as the last process saved it is what the recovery
\* begins with.
Loaded == [kind |-> "recover", base |-> rt, seen |-> "none"]

\* Run: what it recovers it read before.
Run ==
  /\ svc = "down"
  /\ svc' = "recovering" /\ paused' = FALSE
  /\ rc' = Loaded
  /\ UNCHANGED <<def, rt, relations, claimed, chk, engine, world, ghosts, faults>>

\* What recoverLinks makes of the active Recording; when the Engine still has it
\* or does not answer, that is all.
Relinked(r, seen) ==
  CASE r.active = 0 \/ seen \in {"recording", "error"} -> Idle(r)
    [] seen \in Terminal -> [Unlink(r) EXCEPT !.outcome = seen]
    [] OTHER -> Unlink(r)

\* recoverLinks.  A start without an id is left to an operator; a relation that
\* cannot be saved is not noticed.
RecoverLinks ==
  /\ svc = "recovering"
  /\ \E seen, seenPending \in {"error", "none", "gone", "recording"} \cup Terminal :
       LET base == rc.base
           related == IF base.active # 0 /\ seen \in {"none", "gone"} THEN relations \ {base.active} ELSE relations
           linked == Relinked(base, seen)
       IN  /\ seen \in {"error", StateOf(base.active)} /\ seenPending \in {"error", StateOf(base.pending)}
           /\ IF base.pending = 0 \/ linked.active # 0
              THEN SaveOver(base, linked) /\ relations' = related /\ UNCHANGED abandoned
              ELSE LET all == Rerelated(related, base.pending, seenPending)
                   IN  /\ SaveRuntime(Resolved(linked, seenPending))
                       /\ relations' \in (IF Exists THEN {all, related} ELSE {related})
                       /\ harm' = harm \cup {h \in {"stale"} : rt' # rt /\ rt # base}
                                       \cup {h \in {"unlinked"} : relations' # all}
                       /\ abandoned' = abandoned \cup Forgotten(base.pending)
  /\ svc' = "up" /\ rc' = NoScan
  /\ UNCHANGED <<def, paused, claimed, chk, engine, world>>

\* NotifyRecordingStopped, after the stop was answered; it may find the identity
\* of an earlier session.
NotifyRecordingStopped(id) ==
  /\ Up /\ id \in notices
  /\ notices' = notices \ {id}
  /\ IF Exists /\ rt.active = id
     THEN /\ SaveRuntime([Unlink(rt) EXCEPT !.pending = 0, !.suppressed = TRUE,
                                            !.suppDigest = rt.digest, !.outcome = "stopped"])
          /\ recs' = [recs EXCEPT ![id].notified = rt' # rt /\ rt.digest \in {0, recs[id].session}]
     ELSE UNCHANGED <<rt, recs, faults>>
  /\ UNCHANGED <<def, relations, service, chk, rc, calls, fresh, air, broadcasts, changes, ghosts>>

\* Close: Run ends once its workers did.
CloseService ==
  /\ svc = "up" /\ Change
  /\ svc' = "closing"
  /\ chk' = [chk EXCEPT !.cancel = @ \/ chk.pc \notin {"none", "queued"}]
  /\ UNCHANGED <<def, rt, relations, paused, claimed, rc, engine, others, ghosts, faults>>

Closed ==
  /\ svc = "closing" /\ chk.pc = "none" /\ rc.kind = "none"
  /\ svc' = "down" /\ paused' = FALSE /\ claimed' = 0 /\ notices' = {}
  /\ UNCHANGED <<def, rt, relations, chk, rc, engine, air, broadcasts, changes, ghosts, faults>>

\* Fault: the Control process dies; what it asked of the Engine is still on its way.
Crash ==
  /\ Up
  /\ svc' = "down" /\ paused' = FALSE /\ claimed' = 0 /\ FaultIf(TRUE)
  /\ chk' = NoCheck /\ rc' = NoScan /\ notices' = {}
  /\ UNCHANGED <<def, rt, relations, engine, air, broadcasts, changes, ghosts>>

-----------------------------------------------------------------------------
(* The Engine and the broadcast. *)

EngineStarts(id) ==
  /\ id \in calls
  /\ calls' = calls \ {id}
  /\ recs' = [recs EXCEPT ![id].state = "recording"]
  /\ UNCHANGED <<def, rt, relations, service, chk, rc, fresh, world, ghosts, faults>>

\* The Engine refuses the start, or the call is lost.
EngineRefuses(id) ==
  /\ id \in calls
  /\ calls' = calls \ {id}
  /\ UNCHANGED <<def, rt, relations, service, chk, rc, recs, fresh, world, ghosts, faults>>

\* Server.stopRecording: the Engine stops it, the notice follows.
StopRecording(id) ==
  /\ Up /\ recs[id].state = "recording"
  /\ recs' = [recs EXCEPT ![id].state = "stopped"]
  /\ notices' = notices \cup {id}
  /\ UNCHANGED <<def, rt, relations, service, chk, rc, calls, fresh, air, broadcasts, changes, ghosts, faults>>

EndRecording(id) ==
  /\ recs[id].state = "recording"
  /\ \E s \in {"completed", "interrupted"} : recs' = [recs EXCEPT ![id] = [NoRecording EXCEPT !.state = s]]
  /\ UNCHANGED <<def, rt, relations, service, chk, rc, calls, fresh, world, ghosts, faults>>

DeleteRecording(id) ==
  /\ Up /\ recs[id].state \in Terminal /\ Change
  /\ recs' = [recs EXCEPT ![id] = [NoRecording EXCEPT !.state = "gone"]]
  /\ UNCHANGED <<def, rt, relations, service, chk, rc, calls, fresh, others, ghosts, faults>>

BroadcastStarts ==
  /\ broadcasts < MaxSessions
  /\ broadcasts' = broadcasts + 1 /\ air' = broadcasts + 1
  /\ UNCHANGED <<def, rt, relations, service, chk, rc, engine, notices, changes, ghosts, faults>>

BroadcastEnds ==
  /\ air # 0 /\ air' = 0
  /\ UNCHANGED <<def, rt, relations, service, chk, rc, engine, broadcasts, notices, changes, ghosts, faults>>

-----------------------------------------------------------------------------
WatchInit ==
  /\ faults = 0 /\ changes = 0 /\ def = "new" /\ rt = NewRuntime /\ relations = {}
  /\ svc = "down" /\ paused = FALSE /\ chk = NoCheck /\ claimed = 0 /\ rc = NoScan
  /\ calls = {} /\ recs = [id \in Ids |-> NoRecording] /\ fresh = 1
  /\ air = 0 /\ broadcasts = 0 /\ notices = {}
  /\ abandoned = {} /\ harm = {}

User ==
  \/ Create \/ Delete \/ ManualCheck \/ Pause \/ Resume
  \/ \E enabled \in BOOLEAN : SetEnabled(enabled) \/ \E changed \in BOOLEAN : Update(changed, enabled)
  \/ \E id \in Ids : StopRecording(id) \/ NotifyRecordingStopped(id) \/ DeleteRecording(id)

Worker ==
  \/ TakeJob \/ FailQueued \/ CheckFails \/ CheckCancelled \/ SeesOffline
  \/ \E d \in Digests : SeesLive(d)
  \/ ClaimStarting \/ ClaimRefused \/ ClearPendingStart
  \/ StartRefused \/ RelationFails \/ StartResolved \/ CommitStart \/ StartFails \/ CheckReconciles

Scheduler == ScheduleDue \/ LinkSnapshot \/ LinkReconciles \/ ReconcilePending

Lifecycle == Run \/ RecoverLinks \/ CloseService \/ Closed \/ Crash

Outside ==
  \/ BroadcastStarts \/ BroadcastEnds
  \/ \E id \in Ids : EngineStarts(id) \/ EngineRefuses(id) \/ EndRecording(id)

WatchNext == User \/ Worker \/ Scheduler \/ Lifecycle \/ Outside

WatchSpec == WatchInit /\ [][WatchNext]_watchVars

\* A worker takes the next step of its job; Run ends what Close began; ticks of
\* the scheduler keep coming, a call reaches the Engine or not, and now and then
\* the Engine answers and the disk takes a save.
Fairness ==
  /\ WF_watchVars(Worker)
  /\ WF_watchVars(\E id \in Ids : EngineStarts(id) \/ EngineRefuses(id))
  /\ WF_watchVars(RecoverLinks) /\ WF_watchVars(LinkReconciles) /\ WF_watchVars(Closed)
  /\ SF_watchVars(ReconcilePending /\ rt'.pending = 0)

FairWatchSpec == WatchSpec /\ Fairness
=============================================================================
