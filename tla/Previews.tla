------------------------------ MODULE Previews ------------------------------
(***************************************************************************)
(* The preview Service of the Control plane: one JPEG frame for each       *)
(* committed segment of a Recording whose policy asks for it.              *)
(*                                                                         *)
(* Service.mu is held within an action and released between actions, so    *)
(* a reconciliation works on a Recording it read before (snap), a worker   *)
(* extracts without the lock (active), and DeleteRecording waits without   *)
(* it.  index and dirty are the resident indexes, indexDisk and frames the *)
(* files below previews/, modeDisk the policy files.                       *)
(*                                                                         *)
(* Abstractions.  A Recording is the number of its committed segments, and *)
(* a segment its ordinal.  A written frame is a valid one: publishing      *)
(* checks and syncs it before the rename, and nothing else writes there.   *)
(* An extraction ends with a frame, a failure worth a retry or a permanent *)
(* one; a permanent failure counts as MaxTaskRetries attempts.  A retry    *)
(* may be due at any time.  Any resident index may be the one least        *)
(* recently used, and a pass may begin with any Recording.                 *)
(*                                                                         *)
(* The Control application runs the loop that reconciles, and stops it     *)
(* before it hands its files to the next generation.  The pass that        *)
(* RetryFailed makes is one of the loop; the other loops of the            *)
(* application, and the Watch service, are left out.                       *)
(***************************************************************************)
EXTENDS Naturals, Sequences, FiniteSets, SequencesExt, Functions

CONSTANTS
  PreviewRecordings, PreviewWorkers,
  QueueCapacity,   \* previewQueueCapacity
  IndexCap,        \* previewIndexCacheCap
  PersistBatch,    \* indexPersistBatch
  MaxTaskRetries,  \* maxTaskRetries
  PassWindow,      \* maxSegmentsPerRecordingPass
  PassBudget,      \* maxQueuedPerRecordingPass
  LatestBudget,    \* maxQueuedLatestPerPass
  MaxSegments,     \* bound of the model: segments of all Recordings
  MaxEvents        \* bound of the model: requests of a user, failed writes and crashes

ASSUME PreviewAssumption ==
  /\ {QueueCapacity, IndexCap, PersistBatch, MaxTaskRetries, PassWindow, PassBudget, MaxSegments} \subseteq Nat \ {0}
  /\ {LatestBudget, MaxEvents} \subseteq Nat /\ LatestBudget <= PassBudget

VARIABLES
  archived,  \* the archive still has the Recording
  live,      \* it is recording
  count,     \* its committed segments
  svc,       \* "open", "closing" or "closed"
  loop,      \* previewCancel, previewStopping: "on", "stopping" or "off"
  again,     \* previewRestart
  hand,      \* prepareHandoff: "serving", "join" the loop, "drain", "handed"
  leftover,  \* history: a restart asked for before this handoff came in the middle of it
  mode,      \* policies: the Recordings previewed segment by segment
  modeDisk,  \* the policy files
  index,     \* indexes
  indexDisk, \* the index.json files
  dirty,     \* dirtyIndexes
  checked,   \* indexChecked
  cursor,    \* scanCursor
  frames,    \* the frame files
  taskQueue, \* the channel of tasks
  queued,    \* the keys of Service.queued
  active,    \* the task of each worker
  snap,      \* the Recording a reconciliation read before it took the lock
  tomb,      \* deleted
  deleting,  \* how far DeleteRecording came
  events     \* requests and faults so far

archive == <<archived, live, count>>
handoff == <<loop, again, hand, leftover>>
policy == <<mode, modeDisk>>
indexes == <<index, indexDisk, dirty>>
scan == <<checked, cursor, snap>>
tasks == <<taskQueue, queued, active>>
removals == <<tomb, deleting>>
previewsVars == <<archive, svc, handoff, policy, indexes, scan, frames, tasks, removals, events>>

Ordinals == 1 .. MaxSegments
NoIndex == [items |-> {}, failed |-> [s \in Ordinals |-> MaxTaskRetries + 1]]
EmptyIndex == [items |-> {}, failed |-> [s \in Ordinals |-> 0]]
NoTask == [rec |-> "none", seg |-> 0, live |-> FALSE, attempt |-> 0]
NoSnap == [rec |-> "none", count |-> 0, live |-> FALSE]

Event == events < MaxEvents /\ events' = events + 1
\* A write that may fail as an event.
Writes(ok) == IF ok THEN UNCHANGED events ELSE Event

Busy(w) == active[w] # NoTask
Keys(w) == <<active[w].rec, active[w].seg>>
Works(r) == \E w \in PreviewWorkers : active[w].rec = r
HasTasks(r) == Works(r) \/ \E key \in queued : key[1] = r

\* Open: policies are read, indexes only when they are needed.
PreviewsInit ==
  /\ archived = [r \in PreviewRecordings |-> TRUE] /\ live = archived
  /\ count = [r \in PreviewRecordings |-> 0]
  /\ svc = "open" /\ mode = {} /\ modeDisk = {}
  /\ loop = "on" /\ again = FALSE /\ hand = "serving" /\ leftover = FALSE
  /\ index = [r \in PreviewRecordings |-> NoIndex] /\ indexDisk = index
  /\ dirty = count /\ cursor = count /\ checked = {} /\ frames = [r \in PreviewRecordings |-> {}]
  /\ taskQueue = <<>> /\ queued = {} /\ active = [w \in PreviewWorkers |-> NoTask] /\ snap = NoSnap
  /\ tomb = {} /\ deleting = [r \in PreviewRecordings |-> "none"] /\ events = 0

-----------------------------------------------------------------------------
(* Indexes.  Each operator relates the three index variables to their next values. *)

Loaded(r) == IF index[r] # NoIndex THEN index[r]
             ELSE IF indexDisk[r] # NoIndex THEN indexDisk[r] ELSE EmptyIndex

Resident == {r \in PreviewRecordings : index[r] # NoIndex}

\* makeIndexRoomLocked: who leaves, {} when there is room; a dirty index is saved first.
Victims(r) == IF r \in Resident \/ Cardinality(Resident) < IndexCap THEN {{}}
              ELSE {{v} : v \in Resident}

\* flushIndexLocked and persistIndexLocked: a Recording that is deleted is not saved.
\* The index idx of r becomes resident, the victims leave, and r is saved when asked.
StoreIndex(r, idx, victims, save, more) ==
  LET saved == {v \in victims : dirty[v] > 0} \cup (IF save /\ r \notin tomb THEN {r} ELSE {})
      next == [v \in PreviewRecordings |-> IF v = r THEN idx ELSE IF v \in victims THEN NoIndex ELSE index[v]]
  IN  /\ index' = next
      /\ indexDisk' = [v \in PreviewRecordings |-> IF v \notin saved THEN indexDisk[v]
                                                   ELSE IF v = r THEN idx ELSE index[v]]
      /\ dirty' = [v \in PreviewRecordings |-> IF v \in saved THEN 0 ELSE IF v = r THEN dirty[v] + more ELSE dirty[v]]

\* indexLocked refused: the index that would have to leave could not be saved.
NoRoom(r) == \E v \in PreviewRecordings : {v} \in Victims(r) /\ dirty[v] > 0

\* OpenFrame: an indexed frame is served if its file is there.
OpenFrame(r, s) == r \notin tomb /\ s \in Loaded(r).items /\ s \in frames[r]

\* summaryLocked: the state a client sees of a previewed Recording with segments.
State(r) ==
  LET items == Cardinality(Loaded(r).items)
      failures == Cardinality({s \in Ordinals : Loaded(r).failed[s] > 0})
  IN  CASE items >= count[r] -> "ready"
        [] Works(r) -> "processing"
        [] HasTasks(r) /\ ~Works(r) -> "queued"
        [] items > 0 /\ items < count[r] /\ ~HasTasks(r) -> "partial"
        [] OTHER -> IF failures >= count[r] THEN "failed" ELSE "queued"

-----------------------------------------------------------------------------
(* The archive and the requests of the server. *)

CommitSegment(r) ==
  /\ archived[r] /\ live[r] /\ FoldFunction(+, 0, count) < MaxSegments
  /\ count' = [count EXCEPT ![r] = @ + 1]
  /\ UNCHANGED <<archived, live, svc, handoff, policy, indexes, scan, frames, tasks, removals, events>>

EndRecording(r) ==
  /\ live[r] /\ live' = [live EXCEPT ![r] = FALSE]
  /\ UNCHANGED <<archived, count, svc, handoff, policy, indexes, scan, frames, tasks, removals, events>>

\* SetMode, from previewEnable, thumbnailRegenerate or the start of a Recording:
\* the policy file is written before the policy holds.  The gate admits it.
SetMode(r) ==
  /\ archived[r] /\ svc = "open" /\ hand = "serving" /\ r \notin tomb /\ r \notin mode
  /\ \/ mode' = mode \cup {r} /\ modeDisk' = modeDisk \cup {r} /\ UNCHANGED events
     \/ Event /\ UNCHANGED policy
  /\ UNCHANGED <<archive, svc, handoff, indexes, scan, frames, tasks, removals>>

\* RetryFailed: an error leaves the failures forgotten in memory only.
RetryFailed(r) ==
  /\ archived[r] /\ svc = "open" /\ hand = "serving" /\ r \notin tomb /\ r \in mode
  /\ \E victims \in Victims(r), save \in BOOLEAN :
       /\ \A v \in victims : dirty[v] = 0
       /\ StoreIndex(r, [Loaded(r) EXCEPT !.failed = EmptyIndex.failed], victims, save, 0)
  /\ Event
  /\ UNCHANGED <<archive, svc, handoff, policy, scan, frames, tasks, removals>>

-----------------------------------------------------------------------------
(* Reconciliation. *)

\* boundedRecordingSnapshot and the state: what a pass keeps of a Recording.
Snapshot(r) == [rec |-> r, count |-> count[r], live |-> live[r]]

\* Reconcile reads the Recording without the lock.
ReconcileGet(r) ==
  /\ svc = "open" /\ loop # "off" /\ snap = NoSnap /\ r \in mode \ tomb /\ archived[r]
  /\ snap' = Snapshot(r)
  /\ UNCHANGED <<archive, svc, handoff, policy, indexes, checked, cursor, frames, tasks, removals, events>>

\* Reconcile: the Recording was deleted, the Service closed or no index had room meanwhile.
ReconcileSkip ==
  /\ snap # NoSnap
  /\ \/ (svc # "open" \/ snap.rec \in tomb \/ snap.rec \notin mode) /\ UNCHANGED events
     \/ NoRoom(snap.rec) /\ Event
  /\ snap' = NoSnap
  /\ UNCHANGED <<archive, svc, handoff, policy, indexes, checked, cursor, frames, tasks, removals>>

\* recoverReadyFramesLocked: an indexed frame whose file is gone is dropped, a
\* frame file the index misses is adopted.
RecoveredIndex(r, idx) ==
  LET found == {s \in 1 .. snap.count : s \in frames[r]}
  IN  IF r \in checked THEN idx ELSE [idx EXCEPT !.items = (@ \cap found) \cup (found \ @)]

\* Fault: a failed extraction is not tried again.
WantedOnce(r, idx, due, s) ==
  /\ s \notin idx.items /\ idx.failed[s] = 0
  /\ <<r, s>> \notin queued /\ \A w \in PreviewWorkers : Keys(w) # <<r, s>>

\* enqueueLocked: what keeps a segment from being queued, but a full queue.
Wanted(r, idx, due, s) ==
  /\ s \notin idx.items
  /\ idx.failed[s] = 0 \/ (idx.failed[s] < MaxTaskRetries /\ s \in due)
  /\ <<r, s>> \notin queued /\ \A w \in PreviewWorkers : Keys(w) # <<r, s>>

Span(from, to) == [i \in 1 .. (IF to < from THEN 0 ELSE to - from + 1) |-> from + i - 1]

\* The segments of the list that are wanted, in its order and each once, while there is room.
Picked(list, wanted, room) ==
  LET picked[i \in 0 .. Len(list)] ==
        IF i = 0 THEN <<>>
        ELSE IF list[i] \in wanted \ ToSet(picked[i - 1]) /\ Len(picked[i - 1]) < room
             THEN Append(picked[i - 1], list[i])
             ELSE picked[i - 1]
  IN  picked[Len(list)]

\* The segments one pass queues: the newest of a live Recording, then a window
\* of its history from the cursor, within a budget and the room of the queue.
Chosen(r, idx, due, from, to) ==
  LET oldest == IF snap.count > LatestBudget THEN snap.count - LatestBudget + 1 ELSE 1
      latest == IF snap.live THEN Reverse(Span(oldest, snap.count)) ELSE <<>>
      free == QueueCapacity - Len(taskQueue)
  IN  Picked(latest \o Span(from, to), {s \in Ordinals : Wanted(r, idx, due, s)},
             IF free < PassBudget THEN free ELSE PassBudget)

\* scanCursor after a window.
NextCursor(from, to) == IF to >= snap.count THEN 0 ELSE to

\* Reconcile for one Recording, under the lock.
ReconcileOne(due) ==
  LET r == snap.rec
      idx == RecoveredIndex(r, Loaded(r))
      recovered == r \notin checked /\ idx # Loaded(r)
      flush == ~snap.live /\ ~HasTasks(r) /\ dirty[r] > 0
      from == IF cursor[r] >= snap.count THEN 1 ELSE cursor[r] + 1
      to == IF from + PassWindow - 1 < snap.count THEN from + PassWindow - 1 ELSE snap.count
      chosen == Chosen(r, idx, due, from, to)
  IN  /\ snap # NoSnap /\ svc = "open" /\ r \in mode \ tomb
      /\ \E victims \in Victims(r), ok \in BOOLEAN :
           /\ (~recovered /\ ~flush) => ok
           /\ Writes(ok)
           /\ StoreIndex(r, idx, victims, ok /\ (recovered \/ flush), 0)
      /\ checked' = checked \cup {r}
      /\ taskQueue' = taskQueue \o [i \in 1 .. Len(chosen) |-> [rec |-> r, seg |-> chosen[i], live |-> snap.live]]
      /\ queued' = queued \cup {<<r, s>> : s \in ToSet(chosen)}
      /\ cursor' = [cursor EXCEPT ![r] = NextCursor(from, to)]
      /\ snap' = NoSnap
      /\ UNCHANGED <<archive, svc, handoff, policy, frames, active, removals>>

-----------------------------------------------------------------------------
(* Workers. *)

\* runTask up to the extraction: the queue may hold tasks nobody wants any more.
TakeTask(w) ==
  /\ ~Busy(w) /\ taskQueue # <<>> /\ svc # "closed"
  /\ taskQueue' = Tail(taskQueue)
  /\ LET task == Head(taskQueue)
         r == task.rec
         idx == Loaded(r)
     IN  /\ queued' = queued \ {<<r, task.seg>>}
         /\ \/ /\ svc = "closing" \/ r \in tomb \/ r \notin mode
               /\ UNCHANGED <<active, indexes, events>>
            \/ /\ svc = "open" /\ r \in mode \ tomb /\ NoRoom(r)
               /\ Event /\ UNCHANGED <<active, indexes>>
            \/ /\ svc = "open" /\ r \in mode \ tomb
               /\ \E victims \in Victims(r) : StoreIndex(r, idx, victims, FALSE, 0)
               /\ active' = IF task.seg \in idx.items THEN active
                            ELSE [active EXCEPT ![w] = [rec |-> r, seg |-> task.seg, live |-> task.live,
                                                        attempt |-> idx.failed[task.seg] + 1]]
               /\ UNCHANGED events
  /\ UNCHANGED <<archive, svc, handoff, policy, scan, frames, removals>>

\* delete(s.active, key).
Cleared(w) == [active EXCEPT ![w] = NoTask]

\* runTask after an extraction nobody wants: the Recording was deleted or the Service closed.
DropResult(w) ==
  /\ Busy(w) /\ (svc # "open" \/ active[w].rec \in tomb \/ NoRoom(active[w].rec))
  /\ IF svc = "open" /\ active[w].rec \notin tomb THEN Event ELSE UNCHANGED events
  /\ active' = Cleared(w)
  /\ UNCHANGED <<archive, svc, handoff, policy, indexes, scan, frames, taskQueue, queued, removals>>

\* Fault: a frame is indexed although its file was not published.
IndexedUnpublished(idx, s, published, attempt) ==
  [idx EXCEPT !.items = @ \cup {s}, !.failed[s] = 0]

\* The index after an extraction: a frame that could not be published is a
\* failed decode.
Indexed(idx, s, published, attempt) ==
  IF published THEN [idx EXCEPT !.items = @ \cup {s}, !.failed[s] = 0]
  ELSE [idx EXCEPT !.failed[s] = attempt]

Outcomes == {"frame", "retry", "permanent"}

\* publishFrameLocked writes, checks and renames the frame.
Published(r, s, outcome) == IF outcome = "frame" THEN [frames EXCEPT ![r] = @ \cup {s}] ELSE frames

\* runTask: the frame is published before the index counts as changed, which is saved with a batch, a permanent failure or
\* the last task of an ended Recording.
FinishTask(w, outcome) ==
  LET task == active[w]
      r == task.rec
      s == task.seg
      attempt == IF outcome = "permanent" \/ task.attempt > MaxTaskRetries THEN MaxTaskRetries ELSE task.attempt
      idx == Indexed(Loaded(r), s, outcome = "frame", attempt)
      last == ~task.live /\ ~\E key \in queued : key[1] = r /\ \A v \in PreviewWorkers \ {w} : active[v].rec # r
      due == dirty[r] + 1 >= PersistBatch \/ last \/ (outcome # "frame" /\ attempt = MaxTaskRetries)
  IN  /\ Busy(w) /\ svc = "open" /\ r \notin tomb
      /\ frames' = Published(r, s, outcome)
      /\ \E victims \in Victims(r), ok \in BOOLEAN :
           /\ ~due => ok
           /\ Writes(ok) /\ StoreIndex(r, idx, victims, ok /\ due, 1)
      /\ active' = Cleared(w)
      /\ UNCHANGED <<archive, svc, handoff, policy, scan, taskQueue, queued, removals>>

-----------------------------------------------------------------------------
(* Deletion, with the write lock of the server on the Recording. *)

\* recordingDelete and deleteRetentionCandidateLocked: the archive goes first.
DeleteArchive(r) ==
  /\ archived[r] /\ ~live[r] /\ hand = "serving" /\ Event
  /\ archived' = [archived EXCEPT ![r] = FALSE]
  /\ deleting' = [deleting EXCEPT ![r] = "archive"]
  /\ UNCHANGED <<live, count, svc, handoff, policy, indexes, scan, frames, tasks, tomb>>

\* DeleteRecording marks the id and cancels its extractions.
DeleteMark(r) ==
  /\ deleting[r] = "archive"
  /\ tomb' = tomb \cup {r} /\ deleting' = [deleting EXCEPT ![r] = "waiting"]
  /\ UNCHANGED <<archive, svc, handoff, policy, indexes, scan, frames, tasks, events>>

\* DeleteRecording forgets the Recording; its tasks stay in the channel.
DeleteForget(r) ==
  /\ deleting[r] = "waiting" /\ ~Works(r)
  /\ mode' = mode \ {r}
  /\ index' = [index EXCEPT ![r] = NoIndex] /\ dirty' = [dirty EXCEPT ![r] = 0]
  /\ checked' = checked \ {r} /\ cursor' = [cursor EXCEPT ![r] = 0]
  /\ queued' = {key \in queued : key[1] # r}
  /\ deleting' = [deleting EXCEPT ![r] = "files"]
  /\ UNCHANGED <<archive, svc, handoff, modeDisk, indexDisk, snap, frames, taskQueue, active, tomb, events>>

\* DeleteRecording removes the policy file and then the tree.
DeletePolicyFile(r) ==
  /\ deleting[r] = "files"
  /\ \/ modeDisk' = modeDisk \ {r} /\ deleting' = [deleting EXCEPT ![r] = "tree"] /\ UNCHANGED events
     \/ Event /\ deleting' = [deleting EXCEPT ![r] = "failed"] /\ UNCHANGED modeDisk
  /\ UNCHANGED <<archive, svc, handoff, mode, indexes, scan, frames, tasks, tomb>>

DeleteTree(r) ==
  /\ deleting[r] = "tree"
  /\ frames' = [frames EXCEPT ![r] = {}] /\ indexDisk' = [indexDisk EXCEPT ![r] = NoIndex]
  /\ deleting' = [deleting EXCEPT ![r] = "done"]
  /\ UNCHANGED <<archive, svc, handoff, policy, index, dirty, scan, tasks, tomb, events>>

\* DeleteRecording gives up when the Service closes; so does the process.
DeleteGivesUp(r) ==
  /\ deleting[r] = "waiting" /\ svc # "open" /\ Works(r)
  /\ deleting' = [deleting EXCEPT ![r] = "failed"]
  /\ UNCHANGED <<archive, svc, handoff, policy, indexes, scan, frames, tasks, tomb, events>>

-----------------------------------------------------------------------------
(* The handoff of the Control application. *)

\* prepareHandoff: the gate is fenced, and the loop is told to stop.
PrepareHandoff ==
  /\ svc = "open" /\ hand = "serving" /\ Event
  /\ IF loop = "off" THEN hand' = "drain" /\ UNCHANGED loop ELSE hand' = "join" /\ loop' = "stopping"
  /\ UNCHANGED <<archive, svc, again, leftover, policy, indexes, scan, frames, tasks, removals>>

\* The loop ends after its pass and starts again if a resume asked for that.
LoopEnds ==
  /\ loop = "stopping" /\ snap = NoSnap
  /\ loop' = (IF again THEN "on" ELSE "off") /\ again' = FALSE
  /\ hand' = IF hand = "join" THEN "drain" ELSE hand
  /\ leftover' = (leftover \/ (again /\ hand # "serving"))
  /\ UNCHANGED <<archive, svc, policy, indexes, scan, frames, tasks, removals, events>>

\* resumeAfterHandoff: a loop that is still stopping is restarted when it ends.
ResumeAfterHandoff ==
  /\ hand' = "serving" /\ leftover' = FALSE
  /\ loop' = (IF loop = "off" THEN "on" ELSE loop)
  /\ again' = (again \/ loop = "stopping")

\* WaitForIdle and Close save every changed index.
SavedAll == [r \in PreviewRecordings |-> IF dirty[r] > 0 THEN index[r] ELSE indexDisk[r]]

\* Fault: the workers are not waited for.
QueueIsEmpty == queued = {}
\* WaitForIdle: no task is queued and no worker has one.
IsIdle == queued = {} /\ \A w \in PreviewWorkers : ~Busy(w)

\* What WaitForDrain waits for: the deletions that the gate admitted.
Drained == \A r \in PreviewRecordings : deleting[r] \in {"none", "done", "failed"}

\* pauseForHandoff, after the loop: the accepted tasks are over and the changed
\* indexes are saved.
HandOff ==
  /\ hand = "drain" /\ svc = "open" /\ Drained /\ IsIdle
  /\ indexDisk' = SavedAll /\ dirty' = [r \in PreviewRecordings |-> 0] /\ hand' = "handed"
  /\ UNCHANGED <<archive, svc, loop, again, leftover, policy, index, scan, frames, tasks, removals, events>>

\* A wait met its deadline, or a save failed.
HandoffFails ==
  /\ hand \in {"join", "drain"} /\ ResumeAfterHandoff
  /\ UNCHANGED <<archive, svc, policy, indexes, scan, frames, tasks, removals, events>>

\* The Host keeps this generation.
ResumePreviews ==
  /\ hand = "handed" /\ ResumeAfterHandoff
  /\ UNCHANGED <<archive, svc, policy, indexes, scan, frames, tasks, removals, events>>

-----------------------------------------------------------------------------
(* Closing, crashes and the next process. *)

\* Close, from the close of the application, which drops a restart.
ClosePreviews ==
  /\ svc = "open" /\ hand \in {"serving", "handed"} /\ Event /\ svc' = "closing" /\ again' = FALSE
  /\ UNCHANGED <<archive, loop, hand, leftover, policy, indexes, scan, frames, tasks, removals>>

\* Close after its workers: a failed save is its error, and svc stays "closing".
CloseSaves ==
  /\ svc = "closing" /\ \A w \in PreviewWorkers : ~Busy(w)
  /\ indexDisk' = SavedAll
  /\ dirty' = [r \in PreviewRecordings |-> 0] /\ svc' = "closed"
  /\ UNCHANGED <<archive, handoff, policy, index, scan, frames, tasks, removals, events>>

\* Fault: only policies are looked for.
OrphanPolicies == {r \in modeDisk : ~archived[r]}

\* cleanupOrphans of the next process: what belongs to no Recording is removed,
\* unless the archive cannot tell.
OrphanedPreviews == {r \in PreviewRecordings : ~archived[r] /\ (r \in modeDisk \/ indexDisk[r] # NoIndex \/ frames[r] # {})}

\* loadPolicies, and what cleanupOrphans leaves of it.
Policies(removed) == modeDisk \ removed

\* The process ends, closed or not, and the next one opens the Service; or the
\* next generation does, once this one has handed its files over.
RestartPreviews ==
  /\ IF svc = "closed" \/ hand = "handed" THEN UNCHANGED events ELSE Event
  /\ svc' = "open" /\ loop' = "on" /\ again' = FALSE /\ hand' = "serving" /\ leftover' = FALSE
  /\ \E removed \in {OrphanedPreviews, {}} :
       /\ removed # OrphanedPreviews => OrphanedPreviews # {} /\ events < MaxEvents
       /\ mode' = Policies(removed) /\ modeDisk' = mode' /\ tomb' = removed
       /\ frames' = [r \in PreviewRecordings |-> IF r \in removed THEN {} ELSE frames[r]]
       /\ indexDisk' = [r \in PreviewRecordings |-> IF r \in removed THEN NoIndex ELSE indexDisk[r]]
  /\ index' = [r \in PreviewRecordings |-> NoIndex]
  /\ dirty' = [r \in PreviewRecordings |-> 0] /\ cursor' = dirty' /\ checked' = {}
  /\ taskQueue' = <<>> /\ queued' = {} /\ active' = [w \in PreviewWorkers |-> NoTask] /\ snap' = NoSnap
  /\ deleting' = [r \in PreviewRecordings |-> IF deleting[r] = "done" \/ (~archived[r] /\ tomb' = OrphanedPreviews) THEN "done"
                                              ELSE IF deleting[r] = "none" THEN "none" ELSE "failed"]
  /\ UNCHANGED archive

-----------------------------------------------------------------------------
PreviewsNext ==
  \/ \E r \in PreviewRecordings :
       \/ CommitSegment(r) \/ EndRecording(r) \/ SetMode(r) \/ RetryFailed(r) \/ ReconcileGet(r)
       \/ DeleteArchive(r) \/ DeleteMark(r) \/ DeleteForget(r) \/ DeletePolicyFile(r)
       \/ DeleteTree(r) \/ DeleteGivesUp(r)
  \/ \E due \in {{}, Ordinals} : ReconcileOne(due)
  \/ ReconcileSkip
  \/ \E w \in PreviewWorkers : TakeTask(w) \/ DropResult(w)
  \/ \E w \in PreviewWorkers, outcome \in Outcomes : FinishTask(w, outcome)
  \/ PrepareHandoff \/ LoopEnds \/ HandOff \/ HandoffFails \/ ResumePreviews
  \/ ClosePreviews \/ CloseSaves \/ RestartPreviews

PreviewsSpec == PreviewsInit /\ [][PreviewsNext]_previewsVars

\* The ticker reconciles every Recording, again after RetryAfter, an extraction
\* ends (previewTimeout), workers run, a deletion goes on, a closed process is
\* followed by another, a stopped loop ends and the waits of a handoff have a deadline.
Fairness ==
  /\ \A r \in PreviewRecordings : SF_previewsVars(ReconcileGet(r))
  /\ WF_previewsVars(ReconcileSkip \/ ReconcileOne(Ordinals))
  /\ \A r \in PreviewRecordings, s \in Ordinals :
       SF_previewsVars(snap.rec = r /\ ReconcileOne(Ordinals) /\ <<r, s>> \in queued' \ queued)
  /\ \A w \in PreviewWorkers : WF_previewsVars(TakeTask(w) \/ DropResult(w) \/ \E outcome \in Outcomes : FinishTask(w, outcome))
  /\ WF_previewsVars(\E r \in PreviewRecordings : DeleteMark(r) \/ DeleteForget(r) \/ DeletePolicyFile(r) \/ DeleteTree(r) \/ DeleteGivesUp(r))
  /\ SF_previewsVars(LoopEnds) /\ WF_previewsVars(HandoffFails)
  /\ WF_previewsVars(CloseSaves \/ (svc = "closed" /\ RestartPreviews))

FairPreviewsSpec == PreviewsSpec /\ Fairness
=============================================================================
