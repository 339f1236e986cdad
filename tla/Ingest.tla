------------------------------- MODULE Ingest -------------------------------
(***************************************************************************)
(* The volatile ingest of recorder Engines (internal/storage/ingest.go)    *)
(* over the resource Coordinator of the Runtime Host                       *)
(* (internal/runtimehost/resources), reached by a local RPC whose answer   *)
(* may be lost.                                                            *)
(*                                                                         *)
(* A payload reserves bytes in its Engine, then at the Host, before its    *)
(* backing array grows; when it is complete it is queued, and one writer   *)
(* per Engine persists it under the one writer permit of the Host.         *)
(* Engines of two generations may hold payloads of one Recording.          *)
(*                                                                         *)
(* Abstractions.  Bytes are counted in allocation chunks, which is also    *)
(* the size of a read.  The identities of a payload's leases are random,   *)
(* so the payload stands for them.  The releases that end a job are one    *)
(* step.  A call that is lost was applied by the Host or not; of a release *)
(* nobody reads the answer.  Client and Host stop a waiting call at the    *)
(* same instant: the client mostly sees its own deadline and gives up, and *)
(* otherwise repeats the call, which changes nothing.  The attempts at one *)
(* commit are in Archive.                                                  *)
(***************************************************************************)
EXTENDS Naturals, Integers, Sequences, FiniteSets, FiniteSetsExt

CONSTANTS
  Engines, Recordings,
  Payloads,           \* bodies and byte-free commits
  Assignments,        \* what Engine may capture which payload of which Recording
  GlobalBytes, PerRecordingBytes, MaxPayloadBytes, QueueObjects,
  MaxFaults           \* bound of the model: calls that are lost

VARIABLES
  home, rec, \* the Engine and the Recording of each payload
  pay,      \* IngestPayload and ingestJob of each payload, and how far it is
  local,    \* reservedByRecording of each Engine
  eng,      \* the IngestService of each Engine
  hold,     \* Coordinator.reservations: bytes by payload
  queue, writers,  \* Coordinator.queue and writers
  orphans,  \* calls of dead Engines that the Host still serves
  faults

assignment == <<home, rec>>
host == <<hold, queue, writers>>
vars == <<assignment, pay, local, eng, host, orphans, faults>>

-----------------------------------------------------------------------------
(* How a backing array grows. *)

\* allocationCapacity: chunks double until they hold required bytes.
AllocationCapacity(required, maximum) ==
  IF required <= 0 THEN 0
  ELSE Min({maximum} \cup {c \in required .. maximum : \E k \in 0 .. maximum : c = 2 ^ k})

\* maxReallocationPeak: the two largest arrays of the growth path.
MaxReallocationPeak(maximum) ==
  LET previous == {c \in {2 ^ k : k \in 0 .. maximum} : c < maximum}
  IN IF maximum <= 0 THEN 0
     ELSE IF previous = {} THEN maximum ELSE Max(previous) + maximum

\* ValidateIngestOptions and Limits.Validate, which have the same limits.
IngestAssumption ==
  /\ Assignments \subseteq [home : [Payloads -> Engines], rec : [Payloads -> Recordings]]
  /\ {GlobalBytes, PerRecordingBytes, MaxPayloadBytes, QueueObjects} \subseteq Nat \ {0}
  /\ PerRecordingBytes <= GlobalBytes
  /\ MaxPayloadBytes <= PerRecordingBytes
  /\ MaxReallocationPeak(MaxPayloadBytes) <= PerRecordingBytes
  /\ MaxFaults \in Nat
ASSUME IngestAssumption

Fresh == [at |-> "new", len |-> 0, cap |-> 0, old |-> 0, next |-> 0, reserved |-> 0,
          remote |-> 0, want |-> 0, growing |-> FALSE]
Service == [state |-> "open", overflowing |-> FALSE, slots |-> 0, jobs |-> <<>>, failed |-> {}]

Reading == {"reserve", "grant", "reading", "copy", "shrink", "unread"}
Submitting == {"slot", "lease", "unqueued"}
Writing == {"permit", "persist", "unwritten", "refused"}
Phases == {"new", "read", "queued", "over", "dead"} \cup Reading \cup Submitting \cup Writing

\* What a payload and its job keep, and what the IngestService of an Engine does.
Payload ==
  [at : Phases, len : 0 .. MaxPayloadBytes, cap : 0 .. MaxPayloadBytes,
   old : 0 .. MaxPayloadBytes, next : 0 .. MaxPayloadBytes,
   reserved : Nat, remote : Nat, want : Nat, growing : BOOLEAN]
ServiceState ==
  [state : {"open", "closed", "done", "dead", "reclaimed"}, overflowing : BOOLEAN,
   slots : 0 .. QueueObjects, jobs : Seq(Payloads), failed : SUBSET Recordings]

At(p, phase) == pay[p].at = phase
Alive(e) == eng[e].state \in {"open", "closed", "done"}
SumOf(f) == MapThenSumSet(LAMBDA x : f[x], DOMAIN f)

\* The payloads of e in one of phases.
In(e, phases) == {p \in Payloads : home[p] = e /\ pay[p].at \in phases}

\* Bytes of the backing arrays that exist.
Arrays(p) == pay[p].cap + pay[p].old

-----------------------------------------------------------------------------
(* The Coordinator: what it admits and what it takes back. *)

SetReservationAdmits(p, desired) ==
  /\ SumOf(hold) - hold[p] + desired <= GlobalBytes
  /\ SumOf([q \in {q \in Payloads : rec[q] = rec[p]} |-> hold[q]]) - hold[p] + desired
       <= PerRecordingBytes
AcquireQueueAdmits(p) == p \in queue \/ Cardinality(queue) < QueueObjects
AcquireWriterAdmits(p) == p \in writers \/ writers = {}

Admits(call, p, desired) ==
  CASE call = "grant" -> SetReservationAdmits(p, desired)
    [] call = "lease" -> AcquireQueueAdmits(p)
    [] call = "permit" -> AcquireWriterAdmits(p)

\* The call was applied.
Apply(call, p, desired) ==
  /\ hold' = IF call = "grant" THEN [hold EXCEPT ![p] = desired] ELSE hold
  /\ queue' = IF call = "lease" THEN queue \cup {p} ELSE queue
  /\ writers' = IF call = "permit" THEN writers \cup {p} ELSE writers

MayLose == faults < MaxFaults

\* The releases of the leases in what, but for those that are lost.
ReleaseLeases(p, what) ==
  \E lost \in SUBSET what :
    /\ faults + Cardinality(lost) <= MaxFaults
    /\ hold' = IF "bytes" \in what \ lost THEN [hold EXCEPT ![p] = 0] ELSE hold
    /\ queue' = IF "queue" \in what \ lost THEN queue \ {p} ELSE queue
    /\ writers' = IF "writer" \in what \ lost THEN writers \ {p} ELSE writers
    /\ faults' = faults + Cardinality(lost)

Bytes(p) == IF pay[p].remote > 0 THEN {"bytes"} ELSE {}

\* IngestPayload.Release: what is noted goes back, here and at the Host.
ReleasePayload(p) ==
  /\ local' = [local EXCEPT ![home[p]][rec[p]] = @ - pay[p].reserved - pay[p].want]
  /\ pay' = [pay EXCEPT ![p] = [Fresh EXCEPT !.at = "over"]]

-----------------------------------------------------------------------------
(* ReadPayload. *)

Goto(p, phase) == pay' = [pay EXCEPT ![p].at = phase]
Abandon(p) == pay' = [pay EXCEPT ![p].at = "unread", ![p].want = 0]

\* An advertised size is the first reservation, in the capacity it takes.
BeginRead(p, hint) ==
  LET reserve == AllocationCapacity(hint, MaxPayloadBytes)
  IN /\ At(p, "new") /\ Alive(home[p])
     /\ pay' = [pay EXCEPT ![p].at = IF reserve = 0 THEN "reading" ELSE "reserve",
                           ![p].want = reserve]
     /\ UNCHANGED <<local, eng, host, orphans, faults>>

\* reserve: within the Engine's budget.  What will be asked of the Host is
\* noted before it is asked.
Reserve(p) ==
  LET e == home[p] want == pay[p].want
  IN /\ At(p, "reserve") /\ eng[e].state = "open"
     /\ SumOf(local[e]) + want <= GlobalBytes
     /\ local[e][rec[p]] + want <= PerRecordingBytes
     /\ local' = [local EXCEPT ![e][rec[p]] = @ + want]
     /\ pay' = [pay EXCEPT ![p].at = "grant", ![p].remote = @ + want]
     /\ UNCHANGED <<eng, host, orphans, faults>>

\* reserve: the service closed while it waited.
ReserveClosed(p) ==
  /\ At(p, "reserve") /\ eng[home[p]].state # "open"
  /\ Abandon(p)
  /\ UNCHANGED <<local, eng, host, orphans, faults>>

\* The acquisition was stopped, or its source failed or broke the size promised.
ReadFails(p) ==
  /\ pay[p].at \in {"reserve", "reading"}
  /\ Abandon(p)
  /\ UNCHANGED <<local, eng, host, orphans, faults>>

\* A read filled what there is room for.
ReadChunk(p) ==
  /\ At(p, "reading") /\ pay[p].len < pay[p].cap
  /\ pay' = [pay EXCEPT ![p].len = @ + 1]
  /\ UNCHANGED <<local, eng, host, orphans, faults>>

\* Fault: only the difference of the two arrays is reserved.
GrowByDifference(p) ==
  LET e == home[p]
      next == AllocationCapacity(pay[p].len + 1, MaxPayloadBytes)
      more == IF pay[p].cap = 0 THEN Max({0, next - pay[p].reserved}) ELSE next - pay[p].cap
      needsLease == more > 0 /\ pay[p].reserved > 0
  IN /\ At(p, "reading") /\ pay[p].len = pay[p].cap /\ pay[p].len < MaxPayloadBytes
     /\ IF needsLease /\ (eng[e].overflowing \/ eng[e].state # "open")
        THEN Abandon(p) /\ UNCHANGED eng
        ELSE /\ pay' = [pay EXCEPT ![p].at = IF more = 0 THEN "copy" ELSE "reserve",
                                   ![p].want = more, ![p].next = next, ![p].growing = needsLease]
             /\ eng' = [eng EXCEPT ![e].overflowing = @ \/ needsLease]
     /\ UNCHANGED <<local, host, orphans, faults>>

\* Fault: readers that grow wait for each other.
GrowTogether(p) ==
  LET e == home[p]
      next == AllocationCapacity(pay[p].len + 1, MaxPayloadBytes)
      more == IF pay[p].cap = 0 THEN Max({0, next - pay[p].reserved}) ELSE next
      needsLease == more > 0 /\ pay[p].reserved > 0
  IN /\ At(p, "reading") /\ pay[p].len = pay[p].cap /\ pay[p].len < MaxPayloadBytes
     /\ IF needsLease /\ eng[e].state # "open"
        THEN Abandon(p) /\ UNCHANGED eng
        ELSE /\ pay' = [pay EXCEPT ![p].at = IF more = 0 THEN "copy" ELSE "reserve",
                                   ![p].want = more, ![p].next = next, ![p].growing = needsLease]
             /\ eng' = [eng EXCEPT ![e].overflowing = @ \/ needsLease]
     /\ UNCHANGED <<local, host, orphans, faults>>

\* A read needs a larger array, and all of it while the old one lives.  Who
\* holds bytes and wants more takes the reallocation lease; the others fail at
\* once and release what they hold.
Grow(p) ==
  LET e == home[p]
      next == AllocationCapacity(pay[p].len + 1, MaxPayloadBytes)
      more == IF pay[p].cap = 0 THEN Max({0, next - pay[p].reserved}) ELSE next
      needsLease == more > 0 /\ pay[p].reserved > 0
  IN /\ At(p, "reading") /\ pay[p].len = pay[p].cap /\ pay[p].len < MaxPayloadBytes
     /\ IF needsLease /\ (eng[e].overflowing \/ eng[e].state # "open")
        THEN Abandon(p) /\ UNCHANGED eng
        ELSE /\ pay' = [pay EXCEPT ![p].at = IF more = 0 THEN "copy" ELSE "reserve",
                                   ![p].want = more, ![p].next = next, ![p].growing = needsLease]
             /\ eng' = [eng EXCEPT ![e].overflowing = @ \/ needsLease]
     /\ UNCHANGED <<local, host, orphans, faults>>

\* The old array is copied into the new one; both are there.
Copy(p) ==
  /\ At(p, "copy")
  /\ pay' = [pay EXCEPT ![p].at = "shrink", ![p].old = pay[p].cap, ![p].cap = pay[p].next]
  /\ UNCHANGED <<local, eng, host, orphans, faults>>

\* releasePayloadReservation: an answered resize is noted, a lost one is not,
\* so that the Host never holds less than the client believes it may need.
ShrinkHost(p, excess, next) ==
  LET desired == pay[p].remote - excess
      lower == IF desired > 0 THEN desired ELSE 0
      applied == hold' = [hold EXCEPT ![p] = lower]
  IN /\ local' = [local EXCEPT ![home[p]][rec[p]] = @ - excess]
     /\ \/ /\ excess = 0 /\ UNCHANGED <<hold, faults>>
           /\ pay' = [pay EXCEPT ![p] = next]
        \/ /\ excess > 0 /\ (lower <= hold[p] \/ SetReservationAdmits(p, lower))
           /\ applied /\ UNCHANGED faults
           /\ pay' = [pay EXCEPT ![p] = [next EXCEPT !.remote = lower]]
        \/ /\ excess > 0 /\ MayLose /\ faults' = faults + 1
           /\ applied \/ UNCHANGED hold
           /\ pay' = [pay EXCEPT ![p] = next]
     /\ UNCHANGED <<queue, writers, orphans>>

\* The old array is gone, or an advertised size reserved more than the new one.
Shrink(p) ==
  /\ At(p, "shrink")
  /\ ShrinkHost(p, pay[p].reserved - pay[p].cap,
                [pay[p] EXCEPT !.at = "reading", !.len = @ + 1, !.old = 0, !.reserved = pay[p].cap,
                               !.next = 0, !.growing = FALSE])
  /\ eng' = IF pay[p].growing THEN [eng EXCEPT ![home[p]].overflowing = FALSE] ELSE eng

\* The body ended.
EndRead(p) ==
  /\ At(p, "reading")
  /\ ShrinkHost(p, pay[p].reserved - pay[p].cap, [pay[p] EXCEPT !.at = "read", !.reserved = pay[p].cap])
  /\ UNCHANGED eng

\* The reader failed and gives everything back.
Unread(p) ==
  /\ At(p, "unread")
  /\ ReleaseLeases(p, Bytes(p)) /\ ReleasePayload(p)
  /\ eng' = IF pay[p].growing THEN [eng EXCEPT ![home[p]].overflowing = FALSE] ELSE eng
  /\ UNCHANGED orphans

-----------------------------------------------------------------------------
(* Submit and the writer. *)

\* Submit and SubmitCommit, which has no bytes; a closed service leaves the
\* payload with its caller.
Submit(p) ==
  /\ pay[p].at \in {"new", "read"} /\ Alive(home[p])
  /\ IF eng[home[p]].state = "open" THEN Goto(p, "slot") ELSE Abandon(p)
  /\ UNCHANGED <<local, eng, host, orphans, faults>>

\* A payload staged for a handover is discarded.
Discard(p) ==
  /\ At(p, "read")
  /\ Abandon(p)
  /\ UNCHANGED <<local, eng, host, orphans, faults>>

TakeSlot(p) ==
  /\ At(p, "slot") /\ eng[home[p]].slots < QueueObjects
  /\ eng' = [eng EXCEPT ![home[p]].slots = @ + 1]
  /\ Goto(p, "lease")
  /\ UNCHANGED <<local, host, orphans, faults>>

\* AcquireQueue failed: the caller is told and keeps the payload.
Unqueued(p) ==
  /\ At(p, "unqueued")
  /\ eng' = [eng EXCEPT ![home[p]].slots = @ - 1]
  /\ ReleaseLeases(p, Bytes(p) \cup {"queue"}) /\ ReleasePayload(p)
  /\ UNCHANGED orphans

\* The writer takes a job and its slot; a Recording that failed stays failed.
Dequeue(e) ==
  LET p == Head(eng[e].jobs)
  IN /\ eng[e].jobs # <<>> /\ Alive(e) /\ In(e, Writing) = {}
     /\ eng' = [eng EXCEPT ![e].jobs = Tail(@), ![e].slots = @ - 1]
     /\ Goto(p, IF rec[p] \in eng[e].failed THEN "refused" ELSE "permit")
     /\ UNCHANGED <<local, host, orphans, faults>>

\* The job is over: its leases in what are released, then its bytes.  After a
\* failure the Recording is failed.
Complete(p, what, result) ==
  /\ ReleaseLeases(p, Bytes(p) \cup what) /\ ReleasePayload(p)
  /\ eng' = IF result = "failed" THEN [eng EXCEPT ![home[p]].failed = @ \cup {rec[p]}] ELSE eng
  /\ UNCHANGED orphans

Refused(p) == At(p, "refused") /\ Complete(p, {"queue"}, "failed")

\* AcquireWriter failed, applied or not.
Unwritten(p) == At(p, "unwritten") /\ Complete(p, {"writer", "queue"}, "failed")

\* persistWithRetry ended.
Persisted(p, result) == At(p, "persist") /\ Complete(p, {"writer"}, result)

-----------------------------------------------------------------------------
(* The calls a payload waits for (RuntimeClient, IPCHandler). *)

Waiting == {"grant", "lease", "permit"}
IsWaiting(p) == pay[p].at \in Waiting

\* SetReservation was answered.
Granted(p) ==
  /\ At(p, "grant") /\ SetReservationAdmits(p, pay[p].remote)
  /\ Apply("grant", p, pay[p].remote)
  /\ pay' = [pay EXCEPT ![p].at = IF pay[p].next > 0 THEN "copy" ELSE "reading",
                        ![p].reserved = @ + pay[p].want, ![p].want = 0]
  /\ UNCHANGED <<local, eng, orphans, faults>>

\* AcquireQueue was answered; the job is sent to the writer.
Queued(p) ==
  /\ At(p, "lease") /\ AcquireQueueAdmits(p)
  /\ Apply("lease", p, 0)
  /\ Goto(p, "queued")
  /\ eng' = [eng EXCEPT ![home[p]].jobs = Append(@, p)]
  /\ UNCHANGED <<local, orphans, faults>>

\* AcquireWriter was answered; the queue lease, released now, may stay.
Permitted(p) ==
  /\ At(p, "permit") /\ AcquireWriterAdmits(p)
  /\ writers' = writers \cup {p}
  /\ \/ queue' = queue \ {p} /\ UNCHANGED faults
     \/ MayLose /\ faults' = faults + 1 /\ UNCHANGED queue
  /\ Goto(p, "persist")
  /\ UNCHANGED <<local, eng, hold, orphans>>

Failed == [grant |-> "unread", lease |-> "unqueued", permit |-> "unwritten"]

\* The call met its deadline before the Host could admit it.
Deadline(p) ==
  /\ IsWaiting(p) /\ ~Admits(pay[p].at, p, pay[p].remote)
  /\ Goto(p, Failed[pay[p].at])
  /\ UNCHANGED <<local, eng, host, orphans, faults>>

\* The call was refused, or its answer lost.
CallLost(p) ==
  /\ IsWaiting(p) /\ MayLose /\ faults' = faults + 1
  /\ \/ UNCHANGED host
     \/ Admits(pay[p].at, p, pay[p].remote) /\ Apply(pay[p].at, p, pay[p].remote)
  /\ Goto(p, Failed[pay[p].at])
  /\ UNCHANGED <<local, eng, orphans>>

-----------------------------------------------------------------------------
(* The service and its process. *)

\* Close stops admission.
Close(e) ==
  /\ eng[e].state = "open"
  /\ eng' = [eng EXCEPT ![e].state = "closed"]
  /\ UNCHANGED <<pay, local, host, orphans, faults>>

\* No submission is under way, the queue is drained and the writer returned.
Drained(e) ==
  /\ eng[e].state = "closed"
  /\ In(e, Submitting) = {} /\ eng[e].jobs = <<>> /\ In(e, Writing) = {}
  /\ eng' = [eng EXCEPT ![e].state = "done"]
  /\ UNCHANGED <<pay, local, host, orphans, faults>>

\* The process dies: volatile bytes are gone, and the Host goes on serving the
\* calls it received.
Die(e) ==
  LET mine == {p \in Payloads : home[p] = e}
  IN /\ Alive(e)
     /\ eng' = [eng EXCEPT ![e] = [Service EXCEPT !.state = "dead"]]
     /\ orphans' = orphans \cup {[call |-> pay[p].at, of |-> p, bytes |-> pay[p].remote] :
                                  p \in {p \in mine : IsWaiting(p)}}
     /\ pay' = [p \in Payloads |-> IF p \in mine THEN [Fresh EXCEPT !.at = "dead"] ELSE pay[p]]
     /\ local' = [local EXCEPT ![e] = [r \in Recordings |-> 0]]
     /\ UNCHANGED <<host, faults>>

\* Fault: leases are reclaimed when the Engine is asked to close.
ReleaseClosing(e) ==
  /\ eng[e].state \in {"closed", "dead"}
  /\ hold' = [p \in Payloads |-> IF home[p] = e THEN 0 ELSE hold[p]]
  /\ queue' = {p \in queue : home[p] # e}
  /\ writers' = {p \in writers : home[p] # e}
  /\ UNCHANGED <<pay, local, eng, orphans, faults>>

\* releaseProcessResources: the death was confirmed, every lease is reclaimed.
ReleaseOwner(e) ==
  /\ eng[e].state = "dead"
  /\ eng' = [eng EXCEPT ![e].state = "reclaimed"]
  /\ hold' = [p \in Payloads |-> IF home[p] = e THEN 0 ELSE hold[p]]
  /\ queue' = {p \in queue : home[p] # e}
  /\ writers' = {p \in writers : home[p] # e}
  /\ UNCHANGED <<pay, local, orphans, faults>>

\* A call of a dead Engine is admitted, or meets its deadline.
OrphanAdmitted(o) ==
  /\ Admits(o.call, o.of, o.bytes) /\ Apply(o.call, o.of, o.bytes)
  /\ orphans' = orphans \ {o}
  /\ UNCHANGED <<pay, local, eng, faults>>

OrphanExpires(o) ==
  /\ orphans' = orphans \ {o}
  /\ UNCHANGED <<pay, local, eng, host, faults>>

-----------------------------------------------------------------------------
Init ==
  /\ \E a \in Assignments : home = a.home /\ rec = a.rec
  /\ pay = [p \in Payloads |-> Fresh]
  /\ local = [e \in Engines |-> [r \in Recordings |-> 0]]
  /\ eng = [e \in Engines |-> Service]
  /\ hold = [p \in Payloads |-> 0] /\ queue = {} /\ writers = {}
  /\ orphans = {} /\ faults = 0

\* What the Engine's goroutines do with p once they run.
Step(p) ==
  \/ Reserve(p) \/ ReserveClosed(p) \/ Granted(p)
  \/ ReadChunk(p) \/ Grow(p) \/ Copy(p) \/ Shrink(p) \/ EndRead(p) \/ Unread(p)
  \/ At(p, "read") /\ (Submit(p) \/ Discard(p))
  \/ TakeSlot(p) \/ Queued(p) \/ Unqueued(p)
  \/ Permitted(p) \/ Refused(p) \/ Unwritten(p)
  \/ \E result \in {"canonical", "failed"} : Persisted(p, result)
  \/ Deadline(p)

Next ==
  /\ \/ \E p \in Payloads :
          \/ \E hint \in 0 .. MaxPayloadBytes : BeginRead(p, hint)
          \/ At(p, "new") /\ Submit(p)
          \/ ReadFails(p) \/ CallLost(p) \/ Step(p)
     \/ \E e \in Engines : Dequeue(e) \/ Close(e) \/ Drained(e) \/ Die(e) \/ ReleaseOwner(e)
     \/ \E o \in orphans : OrphanAdmitted(o) \/ OrphanExpires(o)
  /\ UNCHANGED assignment

\* Goroutines are scheduled, bodies end, commits return, and every call meets
\* its deadline; nobody needs to close, to die or to start reading.
Fairness ==
  /\ \A p \in Payloads : WF_vars(Step(p) /\ UNCHANGED assignment)
  /\ \A e \in Engines : WF_vars((Dequeue(e) \/ Drained(e)) /\ UNCHANGED assignment)

Spec == Init /\ [][Next]_vars /\ Fairness

-----------------------------------------------------------------------------
(* Properties. *)

TypeOK ==
  /\ home \in [Payloads -> Engines] /\ rec \in [Payloads -> Recordings]
  /\ pay \in [Payloads -> Payload]
  /\ local \in [Engines -> [Recordings -> 0 .. PerRecordingBytes]]
  /\ eng \in [Engines -> ServiceState]
  /\ hold \in [Payloads -> Nat] /\ queue \subseteq Payloads /\ writers \subseteq Payloads

\* The Host accounts for every backing array that exists, whatever call was
\* lost (releasePayloadReservation promises it can never under-account one).
HostCoversArrays == \A p \in Payloads : Arrays(p) <= hold[p]

\* One Engine at a time commits to the archive, through lost answers, deaths
\* and the overlap of generations (the permit of WriterConcurrency one).
OneWriterPersists ==
  \A p, q \in Payloads : At(p, "persist") /\ At(q, "persist") => p = q

\* A body that is read ends: growing readers do not wait for each other's
\* bytes for ever (acquireReallocationLease).
ReadsEnd == \A p \in Payloads : (pay[p].at \in Reading) ~> (pay[p].at \notin Reading)

=============================================================================
