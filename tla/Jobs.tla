-------------------------------- MODULE Jobs --------------------------------
(***************************************************************************)
(* The two job Services of the Control plane, integrity verification and   *)
(* export, and the deletions and tags of the server they must agree with.  *)
(*                                                                         *)
(* Each Service holds its mu within an action; verification, FFmpeg and    *)
(* the removal of files run between actions.  jobs and results are the     *)
(* maps of both Services, jobsDisk their two state files, artifact the     *)
(* directories below exports/.  held is the write lock of a Recording's    *)
(* productLock; a handler that only reads the Recording is one action and  *)
(* asks that the lock is free.                                             *)
(*                                                                         *)
(* Abstractions.  All Recordings have ended, and are old enough for the    *)
(* retention.  A job is numbered by its creation.  A verdict is the number *)
(* of the job that reached it.  A save fails before or after the rename:   *)
(* an error leaves the old file or the new one.  Files are removed at      *)
(* once, so a crash never brings one back.                                 *)
(***************************************************************************)
EXTENDS Naturals, Sequences, FiniteSets, SequencesExt, FiniteSetsExt

CONSTANTS
  Recordings,
  Workers,      \* the workers of each Service
  MaxActive,    \* maxActiveJobs, and the capacity of the queues
  MaxHistory,   \* maxJobHistory, maxHistory
  MaxJobs,      \* bound of the model: jobs ever created
  MaxJobFaults  \* bound of the model: failed writes, crashes, deletions and changes of tags

ASSUME JobsAssumption ==
  /\ {MaxActive, MaxHistory, MaxJobs} \subseteq Nat \ {0} /\ MaxJobFaults \in Nat
  /\ "none" \notin Recordings

VARIABLES
  jobs,       \* Service.jobs of both Services
  results,    \* integrity: the result of each Recording
  previous,   \* jobControl.previous
  jobsDisk,   \* the state files
  issued,     \* jobs created so far
  queue,      \* the channel of each Service
  work,       \* what each worker does
  canceled,   \* exports whose context is canceled
  artifact,   \* the directory of each export
  removing,   \* exports whose Delete has still to remove the directory
  closed,     \* the Services are closed
  kept,       \* the archive has the Recording
  held,       \* the write lock: who deletes, and how far
  candidates, \* the retention's scan
  tags,       \* management Store.tags: the tagged Recordings
  tagFiles, eventFiles, markers,  \* its files
  forgetting, \* its write fence
  late,       \* integrityStart handlers that have still to append their event
  jobFaults

services == <<jobs, results, previous, jobsDisk, issued, queue, work, canceled, artifact, removing, closed>>
projections == <<tags, tagFiles, eventFiles, markers, forgetting>>
removal == <<kept, held, candidates>>
jobsVars == <<services, removal, projections, late, jobFaults>>

Kinds == {"integrity", "export"}
Ids == 1 .. MaxJobs
NoJob == [kind |-> "none", rec |-> "none", state |-> "none"]
\* A result is the job of its verdict, or one of these.
NoResult == 0
Unknown == MaxJobs + 1
InProgressResult == MaxJobs + 2
NoWork == [job |-> 0, step |-> "idle", err |-> ""]

Fault == jobFaults < MaxJobFaults /\ jobFaults' = jobFaults + 1

IsActive(state) == state \in {"queued", "running"}
ActiveJobs(k) == {j \in Ids : jobs[j].kind = k /\ IsActive(jobs[j].state)}
\* InProgress of one Service.
InProgress(k, r) == \E j \in ActiveJobs(k) : jobs[j].rec = r
\* recordingJobInProgress
JobInProgress(r) == \E k \in Kinds : InProgress(k, r)

With(j, state) == [jobs EXCEPT ![j].state = state]
\* A Service writes its own jobs; the integrity Service its results, too.
Saved(k, newJobs, newResults) ==
  [jobs |-> [j \in Ids |-> IF k \in {newJobs[j].kind, jobsDisk.jobs[j].kind} THEN newJobs[j] ELSE jobsDisk.jobs[j]],
   results |-> IF k = "integrity" THEN newResults ELSE jobsDisk.results]

\* persistLocked succeeds, or fails before or after the rename.
SaveOk(k, newResults) == jobsDisk' = Saved(k, jobs', newResults) /\ UNCHANGED jobFaults
SaveFails(versions) == Fault /\ jobsDisk' \in {jobsDisk} \cup versions

JobsInit ==
  /\ jobs = [j \in Ids |-> NoJob] /\ results = [r \in Recordings |-> NoResult]
  /\ previous = [j \in Ids |-> NoResult] /\ jobsDisk = [jobs |-> jobs, results |-> results]
  /\ issued = 0 /\ queue = [k \in Kinds |-> <<>>] /\ work = [k \in Kinds |-> [w \in Workers |-> NoWork]]
  /\ canceled = {} /\ artifact = [j \in Ids |-> "none"] /\ removing = {} /\ closed = FALSE
  /\ kept = Recordings /\ held = [r \in Recordings |-> "free"] /\ candidates = {}
  /\ tags = {} /\ tagFiles = {} /\ eventFiles = {} /\ markers = {} /\ forgetting = {}
  /\ late = {} /\ jobFaults = 0

-----------------------------------------------------------------------------
(* Requests for jobs. *)

Terminal(k) == {j \in Ids : jobs[j].kind = k /\ ~IsActive(jobs[j].state)}
History(k) == {j \in Ids : jobs[j].kind = k}
\* The oldest job leaves a full history: the integrity Service takes a terminal
\* one, the export Service fails when its oldest is active.
Pruned(k) == IF Cardinality(History(k)) < MaxHistory THEN {} ELSE {Min(IF k = "integrity" THEN Terminal(k) ELSE History(k))}
CanPrune(k) == Cardinality(History(k)) < MaxHistory \/ Pruned(k) \subseteq Terminal(k)

\* The guards of both Starts and of their handlers; an active job of the
\* Recording is returned as it is.
Admits(k, r) ==
  /\ ~closed /\ r \in kept /\ held[r] = "free" /\ ~InProgress(k, r)
  /\ Cardinality(ActiveJobs(k)) < MaxActive /\ issued < MaxJobs
Without(pruned) == [j \in Ids |-> IF j \in pruned THEN NoJob ELSE jobs[j]]
NewJob(k, r) == [Without(Pruned(k)) EXCEPT ![issued + 1] = [kind |-> k, rec |-> r, state |-> "queued"]]

\* integrity.Start enqueues before it saves: an error leaves a tombstone in the
\* queue, and undoes the pruning.
StartIntegrity(r) ==
  LET k == "integrity" IN
  /\ Admits(k, r) /\ (Cardinality(History(k)) >= MaxHistory => Terminal(k) # {}) /\ Len(queue[k]) < MaxActive
  /\ issued' = issued + 1 /\ queue' = [queue EXCEPT ![k] = Append(@, issued + 1)]
  /\ \/ jobs' = NewJob(k, r) /\ SaveOk(k, results) /\ late' = late \cup {r}
     \/ SaveFails({Saved(k, NewJob(k, r), results)}) /\ UNCHANGED <<jobs, late>>
  /\ UNCHANGED <<results, previous, work, canceled, artifact, removing, closed, removal, projections>>

\* integrityStart appends its event after it released the lock.
AppendEvent(r) ==
  /\ r \in late /\ late' = late \ {r}
  /\ eventFiles' = IF r \in forgetting THEN eventFiles ELSE eventFiles \cup {r}
  /\ UNCHANGED <<services, removal, tags, tagFiles, markers, forgetting, jobFaults>>

\* derivative.Start saves before it enqueues; an error takes the job back, not
\* what persistLocked pruned.
StartExport(r) ==
  LET k == "export"
      pruned == IF CanPrune(k) THEN Pruned(k) ELSE {}
      room == Len(queue[k]) < MaxActive
  IN
  /\ Admits(k, r) /\ issued' = issued + 1
  /\ artifact' = [j \in Ids |-> IF j \in pruned THEN "none" ELSE artifact[j]]
  /\ \/ /\ CanPrune(k) /\ room /\ jobs' = NewJob(k, r) /\ SaveOk(k, results)
        /\ queue' = [queue EXCEPT ![k] = Append(@, issued + 1)]
     \/ /\ CanPrune(k) /\ ~room /\ jobs' = Without(pruned) /\ UNCHANGED queue
        /\ \/ SaveOk(k, results)
           \/ Fault /\ jobsDisk' = Saved(k, NewJob(k, r), results)
     \/ /\ CanPrune(k) /\ jobs' = Without(pruned) /\ UNCHANGED queue
        /\ SaveFails({Saved(k, NewJob(k, r), results)})
     \/ ~CanPrune(k) /\ UNCHANGED <<jobs, queue, jobsDisk, jobFaults>>
  /\ UNCHANGED <<results, previous, work, canceled, removing, closed, removal, projections, late>>

\* cancelJobLocked: the results after the integrity jobs ids are canceled.
Restored(ids) ==
  [r \in Recordings |->
     IF \E j \in ids : jobs[j].rec = r /\ jobs[j].state = "running"
     THEN previous[CHOOSE j \in ids : jobs[j].rec = r /\ jobs[j].state = "running"] ELSE results[r]]

\* integrity.Cancel, which keeps the canceled state when it cannot be saved.
CancelIntegrity(j) ==
  /\ j \in ActiveJobs("integrity") /\ jobs' = With(j, "canceled") /\ results' = Restored({j})
  /\ SaveOk("integrity", results') \/ SaveFails({Saved("integrity", jobs', results')})
  /\ UNCHANGED <<previous, issued, queue, work, canceled, artifact, removing, closed, removal, projections, late>>

\* derivative.Cancel: a running export is only told to stop.
CancelExport(j) ==
  /\ j \in ActiveJobs("export")
  /\ IF jobs[j].state = "running"
     THEN j \notin canceled /\ canceled' = canceled \cup {j} /\ UNCHANGED <<jobs, jobsDisk, jobFaults>>
     ELSE /\ jobs' = With(j, "canceled") /\ UNCHANGED canceled
          /\ SaveOk("export", results) \/ SaveFails({Saved("export", jobs', results)})
  /\ UNCHANGED <<results, previous, issued, queue, work, artifact, removing, closed, removal, projections, late>>

\* derivative.Delete: the job leaves the state file before its directory goes.
DeleteExport(j) ==
  /\ j \in Terminal("export")
  /\ \/ jobs' = Without({j}) /\ SaveOk("export", results) /\ removing' = removing \cup {j}
     \/ /\ UNCHANGED <<jobs, removing>>
        /\ SaveFails({Saved("export", Without({j}), results), Saved("export", jobs, results)})
  /\ UNCHANGED <<results, previous, issued, queue, work, canceled, artifact, closed, removal, projections, late>>

RemoveDirectory(j) ==
  /\ j \in removing /\ removing' = removing \ {j} /\ artifact' = [artifact EXCEPT ![j] = "none"]
  /\ UNCHANGED <<jobs, results, previous, jobsDisk, issued, queue, work, canceled, closed, removal, projections, late, jobFaults>>

-----------------------------------------------------------------------------
(* The workers. *)

Sets(k, w, task) == work' = [work EXCEPT ![k][w] = task]

\* run of an entry that is no longer queued, or after Close.
DropEntry(k, w) ==
  /\ work[k][w] = NoWork /\ queue[k] # <<>>
  /\ jobs[Head(queue[k])].state # "queued" \/ closed
  /\ queue' = [queue EXCEPT ![k] = Tail(@)]
  /\ UNCHANGED <<jobs, results, previous, jobsDisk, issued, work, canceled, artifact, removing, closed, removal, projections, late, jobFaults>>

\* run, first section: running is saved before the work begins.
Running(j) == With(j, "running")
Verifying(k, j) == IF k = "integrity" THEN [results EXCEPT ![jobs[j].rec] = InProgressResult] ELSE results
TakeJob(k, w) ==
  /\ work[k][w] = NoWork /\ queue[k] # <<>> /\ ~closed /\ queue' = [queue EXCEPT ![k] = Tail(@)]
  /\ LET j == Head(queue[k]) IN
     /\ jobs[j].state = "queued"
     /\ previous' = IF k = "integrity" THEN [previous EXCEPT ![j] = results[jobs[j].rec]] ELSE previous
     /\ \/ /\ jobs' = Running(j) /\ results' = Verifying(k, j) /\ SaveOk(k, results')
           /\ Sets(k, w, [job |-> j, step |-> "work", err |-> ""])
           /\ artifact' = IF k = "export" THEN [artifact EXCEPT ![j] = "work"] ELSE artifact
        \/ /\ jobs' = With(j, "failed")
           /\ SaveFails({Saved(k, Running(j), Verifying(k, j)), Saved(k, jobs', results)})
           /\ UNCHANGED <<results, work, artifact>>
  /\ UNCHANGED <<issued, canceled, removing, closed, removal, projections, late>>

\* safeVerify returns a verdict, or panicked.
Verify(w) ==
  LET task == work["integrity"][w] IN
  /\ task.step = "work"
  /\ \E err \in {"", "failed"} : Sets("integrity", w, [task EXCEPT !.step = "finish", !.err = err])
  /\ UNCHANGED <<jobs, results, previous, jobsDisk, issued, queue, canceled, artifact, removing, closed, removal, projections, late, jobFaults>>

\* prepareInputs: every payload is copied and equals its digest, or the export fails.
Inputs == {"", "failed"}
\* export and publish, which is skipped when the context has ended.
Export(w) ==
  LET task == work["export"][w] IN
  /\ task.step = "work"
  /\ \E err \in Inputs :
       LET stops == task.job \in canceled IN
       /\ Sets("export", w, [task EXCEPT !.step = IF stops \/ err # "" THEN "finish" ELSE "publish",
                                          !.err = IF stops THEN "canceled" ELSE err])
       /\ artifact' = IF err # "" THEN [artifact EXCEPT ![task.job] = "none"] ELSE artifact
  /\ UNCHANGED <<jobs, results, previous, jobsDisk, issued, queue, canceled, removing, closed, removal, projections, late, jobFaults>>

Publish(w) ==
  LET task == work["export"][w] IN
  /\ task.step = "publish"
  /\ \E err \in {"", "failed"}, state \in {"work", "output"} :
       /\ err = "" => state = "output"
       /\ Sets("export", w, [task EXCEPT !.step = "finish", !.err = err])
       /\ artifact' = [artifact EXCEPT ![task.job] = state]
  /\ UNCHANGED <<jobs, results, previous, jobsDisk, issued, queue, canceled, removing, closed, removal, projections, late, jobFaults>>

\* run, last section of the integrity Service: the result of a job that is no
\* longer running is dropped; what cannot be saved is not reported.
FinishIntegrity(w) ==
  LET task == work["integrity"][w]
      j == task.job
      r == jobs[j].rec
      done == IF task.err = "" THEN "completed" ELSE "failed"
      verdict == [results EXCEPT ![r] = IF task.err = "" THEN j ELSE previous[j]]
  IN
  /\ task.step = "finish" /\ Sets("integrity", w, NoWork)
  /\ \/ jobs[j].state # "running" /\ UNCHANGED <<jobs, results, jobsDisk, jobFaults>>
     \/ jobs[j].state = "running" /\ jobs' = With(j, done) /\ results' = verdict /\ SaveOk("integrity", results')
     \/ /\ jobs[j].state = "running" /\ jobs' = With(j, "failed") /\ results' = [results EXCEPT ![r] = previous[j]]
        /\ SaveFails({Saved("integrity", With(j, done), verdict), Saved("integrity", jobs', results')})
  /\ UNCHANGED <<previous, issued, queue, canceled, artifact, removing, closed, removal, projections, late>>

Outcome(task) == IF task.job \in canceled THEN "canceled" ELSE task.err
FinishExport(w) ==
  LET task == work["export"][w]
      j == task.job
      err == Outcome(task)
      done == CASE err = "" -> "completed" [] err = "canceled" -> "canceled" [] OTHER -> "failed"
      sweeps == [task EXCEPT !.step = "sweep"]
  IN
  /\ task.step = "finish"
  /\ \/ jobs' = With(j, done) /\ SaveOk("export", results) /\ Sets("export", w, IF err = "" THEN NoWork ELSE sweeps)
     \/ /\ jobs' = With(j, "failed") /\ Sets("export", w, sweeps)
        /\ SaveFails({Saved("export", With(j, done), results), Saved("export", jobs', results)})
  /\ UNCHANGED <<results, previous, issued, queue, canceled, artifact, removing, closed, removal, projections, late>>

Sweep(w) ==
  LET task == work["export"][w] IN
  /\ task.step = "sweep" /\ Sets("export", w, NoWork) /\ artifact' = [artifact EXCEPT ![task.job] = "none"]
  /\ UNCHANGED <<jobs, results, previous, jobsDisk, issued, queue, canceled, removing, closed, removal, projections, late, jobFaults>>

-----------------------------------------------------------------------------
(* Close, and the next process. *)

\* The integrity Service cancels its jobs and saves; the export Service tells
\* its running ones to stop.
Close ==
  /\ ~closed /\ closed' = TRUE
  /\ jobs' = [j \in Ids |-> IF j \in ActiveJobs("integrity") THEN [jobs[j] EXCEPT !.state = "canceled"] ELSE jobs[j]]
  /\ results' = Restored(ActiveJobs("integrity"))
  /\ canceled' = canceled \cup {j \in ActiveJobs("export") : jobs[j].state = "running"}
  /\ SaveOk("integrity", results') \/ SaveFails({Saved("integrity", jobs', results')})
  /\ UNCHANGED <<previous, issued, queue, work, artifact, removing, removal, projections, late>>

\* Fault: an export is still completed when its artifact is gone.
RecoveredUnchecked(j) ==
  IF IsActive(jobsDisk.jobs[j].state) THEN [jobsDisk.jobs[j] EXCEPT !.state = "failed"] ELSE jobsDisk.jobs[j]
\* Fault: only what was running is failed.
RecoveredQueued(j) ==
  IF jobsDisk.jobs[j].state = "running" THEN [jobsDisk.jobs[j] EXCEPT !.state = "failed"] ELSE jobsDisk.jobs[j]
\* load and recoverInterrupted: the job j as the next process takes it.
Recovered(j) ==
  LET job == jobsDisk.jobs[j] IN
  IF IsActive(job.state) \/ (job.kind = "export" /\ job.state = "completed" /\ artifact[j] # "output")
  THEN [job EXCEPT !.state = "failed"] ELSE job
RecoveredResult(r) ==
  IF /\ jobsDisk.results[r] = InProgressResult
     /\ \E j \in Ids : jobsDisk.jobs[j].kind = "integrity" /\ jobsDisk.jobs[j].rec = r /\ IsActive(jobsDisk.jobs[j].state)
  THEN Unknown ELSE jobsDisk.results[r]

\* load removes what is not completed, cleanupOrphanDirectories what is not known.
Cleaned(newJobs) == [j \in Ids |-> IF newJobs[j].state = "completed" THEN artifact[j] ELSE "none"]

\* Open of both Services: nothing is queued and nobody works.
OpenServices ==
  /\ jobs' = [j \in Ids |-> Recovered(j)] /\ results' = [r \in Recordings |-> RecoveredResult(r)]
  /\ jobsDisk' = [jobs |-> jobs', results |-> results'] /\ previous' = [j \in Ids |-> NoResult]
  /\ artifact' = Cleaned(jobs')
  /\ queue' = [k \in Kinds |-> <<>>] /\ work' = [k \in Kinds |-> [w \in Workers |-> NoWork]]
  /\ canceled' = {} /\ removing' = {} /\ closed' = FALSE

\* recoverPendingDeletions: what a marker names is removed, then the marker.
RecoverPendingDeletions ==
  /\ tagFiles' = tagFiles \ markers /\ eventFiles' = eventFiles \ markers
  /\ markers' = {} /\ forgetting' = {}

\* loadAll, once the deletions are through.
LoadAll == tags' = tagFiles'

\* A crash or a restart at any time.
Restart ==
  /\ Fault /\ OpenServices /\ RecoverPendingDeletions /\ LoadAll
  /\ late' = {} /\ candidates' = {} /\ held' = [r \in Recordings |-> "free"]
  /\ UNCHANGED <<issued, kept>>

-----------------------------------------------------------------------------
(* Tags, retention and deletion. *)

\* recordingTagsPut, under the read lock.
SetTags(r) ==
  /\ r \in kept /\ held[r] = "free" /\ r \notin forgetting /\ Fault
  /\ \/ tags' = tags \cup {r} /\ tagFiles' = tagFiles \cup {r}
     \/ tags' = tags \ {r} /\ tagFiles' = tagFiles \cup {r}
     \/ tags' = tags /\ tagFiles' = tagFiles \cup {r}
  /\ UNCHANGED <<services, removal, eventFiles, markers, forgetting, late>>

Retainable(r) == r \in kept /\ r \notin tags /\ ~JobInProgress(r)

\* scanRetentionCandidates finds the Recording; its facts may change before the pass comes to it.
ScanRetention(r) ==
  /\ held[r] = "free" /\ r \notin candidates /\ Retainable(r) /\ candidates' = candidates \cup {r}
  /\ UNCHANGED <<services, kept, held, projections, late, jobFaults>>

\* recordingDelete takes the write lock and checks both Services.
DeleteRecording(r) ==
  /\ held[r] = "free" /\ ~JobInProgress(r) /\ held' = [held EXCEPT ![r] = "delete"] /\ Fault
  /\ UNCHANGED <<services, kept, candidates, projections, late>>

\* Fault: the retention trusts its scan.
StillKept(r) == r \in kept
\* deleteRetentionCandidateLocked reads the facts again under the write lock.
StillRetainable(r) == Retainable(r)
RetentionDelete(r) ==
  /\ r \in candidates /\ held[r] = "free" /\ candidates' = candidates \ {r}
  /\ held' = IF StillRetainable(r) THEN [held EXCEPT ![r] = "retire"] ELSE held
  /\ UNCHANGED <<services, kept, projections, late, jobFaults>>

\* manager.Delete; an error releases the lock.  What is gone already is deleted once
\* more by an Engine that recovered the archive; a later generation does not find it.
DeleteData(r) ==
  /\ held[r] \in {"delete", "retire"}
  /\ \/ kept' = kept \ {r} /\ held' = [held EXCEPT ![r] = "forget"] /\ UNCHANGED jobFaults
     \/ (Fault \/ (r \notin kept /\ UNCHANGED jobFaults)) /\ held' = [held EXCEPT ![r] = "free"] /\ UNCHANGED kept
  /\ UNCHANGED <<services, candidates, projections, late>>

\* ForgetRecording: the marker, the fence, the files, then the marker again.
Forget(r) ==
  /\ held[r] = "forget" /\ held' = [held EXCEPT ![r] = "free"]
  /\ \/ /\ tags' = tags \ {r} /\ tagFiles' = tagFiles \ {r} /\ eventFiles' = eventFiles \ {r}
        /\ markers' = markers \ {r} /\ forgetting' = forgetting \ {r} /\ UNCHANGED jobFaults
     \/ Fault /\ markers' \in {markers, markers \cup {r}} /\ UNCHANGED <<tags, tagFiles, eventFiles, forgetting>>
     \/ /\ Fault /\ forgetting' = forgetting \cup {r} /\ UNCHANGED tags
        /\ tagFiles' \in {tagFiles, tagFiles \ {r}} /\ eventFiles' \in {eventFiles, eventFiles \ {r}}
        /\ r \in eventFiles' \/ r \notin tagFiles'
        /\ markers' = markers \cup {r}
     \/ /\ Fault /\ forgetting' = forgetting \cup {r} /\ UNCHANGED tags
        /\ tagFiles' = tagFiles \ {r} /\ eventFiles' = eventFiles \ {r} /\ markers' = markers \ {r}
  /\ UNCHANGED <<services, kept, candidates, late>>

-----------------------------------------------------------------------------

Requests(r) == StartIntegrity(r) \/ StartExport(r) \/ AppendEvent(r)
Controls(j) == CancelIntegrity(j) \/ CancelExport(j) \/ DeleteExport(j) \/ RemoveDirectory(j)
WorkerStep(w) ==
  \/ \E k \in Kinds : DropEntry(k, w) \/ TakeJob(k, w)
  \/ Verify(w) \/ FinishIntegrity(w) \/ Export(w) \/ Publish(w) \/ FinishExport(w) \/ Sweep(w)
Deletes(r) == ScanRetention(r) \/ DeleteRecording(r) \/ RetentionDelete(r) \/ DeleteData(r) \/ Forget(r)

JobsNext ==
  \/ \E r \in Recordings : Requests(r) \/ SetTags(r) \/ Deletes(r)
  \/ \E j \in Ids : Controls(j)
  \/ \E w \in Workers : WorkerStep(w)
  \/ Close \/ Restart

JobsSpec == JobsInit /\ [][JobsNext]_jobsVars

\* Every worker goes on: verification ends, and FFmpeg has a timeout.
FairJobsSpec == JobsSpec /\ \A w \in Workers :
  /\ \A k \in Kinds : WF_jobsVars(DropEntry(k, w)) /\ WF_jobsVars(TakeJob(k, w))
  /\ WF_jobsVars(Verify(w)) /\ WF_jobsVars(FinishIntegrity(w))
  /\ WF_jobsVars(Export(w)) /\ WF_jobsVars(Publish(w)) /\ WF_jobsVars(FinishExport(w)) /\ WF_jobsVars(Sweep(w))
=============================================================================
