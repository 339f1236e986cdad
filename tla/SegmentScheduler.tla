-------------------------- MODULE SegmentScheduler --------------------------
(***************************************************************************)
(* How one Recorder Engine turns a live playlist into the segments and     *)
(* gaps of a Recording.                                                    *)
(*                                                                         *)
(*   - The manifest loop (runWorkerCycle) polls the playlist, publishes    *)
(*     what it observed in the root, expires the tasks that left the live  *)
(*     window, discovers new ones, and drains them when the source ends.   *)
(*   - Workers fetch one task at a time.  A task whose fetch fails is      *)
(*     retried by a timer, waits for a refreshed playlist, or is given up  *)
(*     and reported as a gap.                                              *)
(*   - The storage writer commits what was fetched.                        *)
(*   - A refresh replaces the media source and starts a new generation of  *)
(*     it; what was fetched or seen under an older one may not be used.    *)
(*                                                                         *)
(* loop.at is where the manifest loop stands.  The tasks are kept by key,  *)
(* the pair of a source epoch and a sequence number.                       *)
(*                                                                         *)
(* Abstractions.  The playlist of the source is the one last polled: a     *)
(* poll may find it any number of segments further.  The gap list of the   *)
(* root is the set of keys it covers, a segment the run of the source it   *)
(* came from.  The ready queue is a set, for no property depends on its    *)
(* order, and growing the pool is having MaxWorkers.  Root writes are not  *)
(* counted: writing tells that some are queued.  Initialization segments,  *)
(* ordinals, the preloaded candidate of a handover, a shutdown of the      *)
(* process and the ownership fence (OwnerStore, Handover) are left out.    *)
(***************************************************************************)
EXTENDS Integers, FiniteSets, FiniteSetsExt

CONSTANTS
  MaxSeq,            \* bound of the model: sequence numbers
  MaxRun,            \* bound of the model: restarts of the source's numbering
  MaxGeneration,     \* bound of the model: refreshes of the media source
  MaxWindow,         \* segments a playlist lists at most
  GapTags,           \* sequences the source may mark as a gap
  MaxTasks,          \* maxSegmentTasks
  MaxWorkers,        \* maxSegmentWorkers
  SegmentAttempts,   \* segmentAttempts
  MaxRefreshCycles,  \* maxRefreshCycles
  Faults             \* what may fail besides fetches

ASSUME SchedulerAssumption ==
  /\ {MaxSeq, MaxRun, MaxWindow, MaxTasks, MaxWorkers, SegmentAttempts} \subseteq Nat \ {0}
  /\ {MaxGeneration, MaxRefreshCycles} \subseteq Nat
  /\ GapTags \subseteq 1..MaxSeq
  /\ Faults \subseteq {"poll", "refresh", "storage"}

VARIABLES
  playlist,    \* the playlist last polled
  generation,  \* entry.mediaGeneration
  latest,      \* latestManifestGeneration, Unset before the first manifest
  ending,      \* the generation whose ENDLIST was seen, Unset if none
  root,        \* the Recording in memory
  tasks,       \* segmentScheduler.tasks
  loop,        \* the manifest loop
  writing,     \* pendingSnapshots + pendingMetadata > 0
  stop,        \* the context of the worker is canceled
  closed,      \* segmentScheduler.closed
  fatal,       \* segmentScheduler.fatal
  broken,      \* a write failed for good: IngestService.failedRecordings
  discovered   \* history: the keys that ever had a task, or became pending with one denied

sourceVars == <<playlist, generation>>
endVars == <<latest, ending>>
controlVars == <<stop, closed, fatal, broken>>
vars == <<playlist, generation, latest, ending, root, tasks, loop, writing,
          stop, closed, fatal, broken, discovered>>

Unset == -1
Epochs == 0..(MaxRun - 1)
Seqs == 1..MaxSeq
Keys == Epochs \X Seqs
Generations == 0..MaxGeneration

-----------------------------------------------------------------------------
(* The source. *)

Listed(p) == p.lo..p.hi

\* A playlist lists consecutive sequences; only an ended one may be empty.
Playlists ==
  {p \in [run : 1..MaxRun, lo : 1..(MaxSeq + 1), hi : Seqs, marked : SUBSET GapTags, end : BOOLEAN] :
     /\ p.hi - p.lo < MaxWindow
     /\ p.lo <= p.hi \/ (p.end /\ p.lo = p.hi + 1)}

\* What a later poll may find: the window moved on, or the numbering started
\* again.  After ENDLIST only a new media source goes on.
Follows(p, q, refreshed) ==
  \/ p = q
  \/ /\ ~p.end \/ refreshed
     /\ \/ q.run = p.run /\ q.lo >= p.lo /\ q.hi >= p.hi /\ p.marked \subseteq q.marked
        \/ q.run = p.run + 1

-----------------------------------------------------------------------------
(* The root. *)

Captured(k) == root.segments[k] # 0
CapturedKeys(r) == {k \in Keys : r.segments[k] # 0}

\* Fault: the pending keys of earlier epochs are forgotten.
FinalizedEpoch(r) ==
  [r EXCEPT !.gaps = @ \cup ({k \in r.pending : k[1] = r.epoch} \ CapturedKeys(r)), !.pending = {}]

\* finalizePending: every pending key becomes a gap, unless it was captured.
Finalized(r) == [r EXCEPT !.gaps = @ \cup (r.pending \ CapturedKeys(r)), !.pending = {}]

\* An overlapping segment of another run, or a playlist behind the last one.
SequenceReset(p) ==
  \/ root.last # 0 /\ p.hi < root.last
  \/ \E s \in Listed(p) : root.segments[<<root.epoch, s>>] \notin {0, p.run}

\* What became a segment, or may still become one, is no gap.
Held(epoch, protected) == {k \in CapturedKeys(root) \cup protected : k[1] = epoch}

\* Fault: the end of an epoch makes gaps of what is still being fetched.
DroppedAll(protected) == {k \in root.pending : k[1] = root.epoch}

\* finalizePendingEpochExcept
Dropped(protected) == {k \in root.pending : k[1] = root.epoch /\ k \notin protected}

\* observePlaylist: the pending keys of an epoch that ended become gaps, and
\* so does what the playlist marks, skipped or has no more.
Observe(p, protected) ==
  LET reset == SequenceReset(p)
      epoch == IF reset THEN root.epoch + 1 ELSE root.epoch
      last == IF reset THEN 0 ELSE root.last
      dropped == IF reset THEN Dropped(protected) ELSE {}
      kept == root.pending \ dropped
      held == Held(epoch, protected)
      stale == {k \in kept : k[1] = epoch /\ k \in held /\ k \notin protected}
      left == {k \in kept : k[1] = epoch /\ k \notin held /\ k[2] \notin Listed(p) /\ p.hi > k[2]}
      skipped == IF last = 0 THEN {} ELSE (last + 1)..(p.lo - 1)
      missing == {<<epoch, s>> : s \in skipped \cup (p.marked \cap Listed(p))}
  IN [root EXCEPT !.epoch = epoch,
                  !.last = IF p.hi > last THEN p.hi ELSE last,
                  !.pending = kept \ (stale \cup left),
                  !.gaps = @ \cup (dropped \ CapturedKeys(root)) \cup ((missing \cup left) \ held)]

-----------------------------------------------------------------------------
(* Tasks. *)

NoTask == [phase |-> "none", available |-> FALSE, seen |-> Unset, required |-> 0,
           attempt |-> 0, cycles |-> 0, timer |-> "none", gen |-> 0, run |-> 0]

NewTask == [NoTask EXCEPT !.phase = "queued", !.available = TRUE, !.seen = loop.gen, !.run = playlist.run]

Live == {k \in Keys : tasks[k].phase # "none"}

Working == {"fetching", "refreshing", "refreshed", "returning"}
Busy == {k \in Keys : tasks[k].phase \in Working}

\* close joins the workers, the writer and the timers.
Parked == {"none", "queued", "retryWait", "awaitManifest", "abandoned"}
Quiet == ~writing /\ \A k \in Keys : tasks[k].phase \in Parked

TakeOver(t, g) == IF g > t.required THEN g ELSE t.required

\* Stopping a timer does not keep it from firing: it only becomes stale.
GiveUp(t) == [t EXCEPT !.phase = "gapCommitting", !.available = FALSE,
                       !.timer = IF @ = "none" THEN @ ELSE "stale"]

\* The playlist the task needs was seen already.
Resolved(t) == t.available /\ t.seen # Unset /\ t.seen >= t.required

-----------------------------------------------------------------------------
(* Media generations. *)

Current(g) == generation = g /\ g >= latest

\* The first sign of a newer source reopens a playlist that ended on the old one.
Note(g) ==
  /\ latest' = IF g > latest THEN g ELSE latest
  /\ ending' = IF g > latest /\ ending # Unset /\ g > ending THEN Unset ELSE ending

\* One refresh at a time, until the scheduler was told of it.
GateFree == loop.at # "note" /\ \A k \in Keys : tasks[k].phase # "refreshed"

FailFatal(what) ==
  /\ fatal' = IF fatal = "none" THEN what ELSE fatal
  /\ closed' = TRUE
  /\ stop' = TRUE

-----------------------------------------------------------------------------
(* The manifest loop. *)

At(step) == loop.at = step
Go(step) == loop' = [loop EXCEPT !.at = step]

\* persistGap of what the loop gave up comes before its next step.
GapsWritten == \A k \in loop.expired : tasks[k].phase # "gapCommitting"

\* A body fetched under an older generation is dropped: a poll that did not
\* happen.  The snapshot of the playlist is queued, and the keys of the tasks
\* are taken before the root is locked (protectedByEpoch).
PollManifest ==
  /\ At("poll") /\ ~stop
  /\ \E p \in Playlists :
       /\ Follows(playlist, p, loop.gen # generation)
       /\ playlist' = p
       /\ loop' = [loop EXCEPT !.at = IF Listed(p) = {} THEN "endlist" ELSE "publish",
                               !.gen = generation, !.protected = IF Listed(p) = {} THEN {} ELSE Live]
  /\ Note(generation)
  /\ writing' = TRUE
  /\ UNCHANGED <<generation, root, tasks, controlVars, discovered>>

\* A refresh of the loop's own: the source is due, or refused the manifest.
RefreshByLoop ==
  /\ At("poll") /\ ~stop /\ GateFree /\ generation < MaxGeneration
  /\ generation' = generation + 1
  /\ Go("note")
  /\ UNCHANGED <<playlist, endVars, root, tasks, writing, controlVars, discovered>>

NoteByLoop ==
  /\ At("note")
  /\ Note(generation)
  /\ Go("poll")
  /\ UNCHANGED <<sourceVars, root, tasks, writing, controlVars, discovered>>

\* fail: the manifest, its parsing or a refresh failed for good.
PollFails ==
  /\ "poll" \in Faults
  /\ At("poll") /\ ~stop
  /\ root' = [Finalized(root) EXCEPT !.state = "interrupted"]
  /\ Go("close")
  /\ UNCHANGED <<sourceVars, endVars, tasks, writing, controlVars, discovered>>

\* The source changed: what the loop holds is of no use.
Outdated ==
  /\ loop.at \in {"publish", "expire", "discover", "admit", "endlist", "drain", "complete"}
  /\ GapsWritten
  /\ ~Current(loop.gen) \/ (At("drain") /\ ending # loop.gen)
  /\ loop' = [loop EXCEPT !.at = "poll", !.protected = {}, !.expired = {}, !.todo = {}]
  /\ UNCHANGED <<sourceVars, endVars, root, tasks, writing, controlVars, discovered>>

\* The observation is published in memory first; a closed scheduler then
\* refuses to queue its write.
Publish ==
  /\ At("publish") /\ generation = loop.gen
  /\ root' = Observe(playlist, loop.protected)
  /\ writing' = (writing \/ ~closed)
  /\ loop' = [loop EXCEPT !.at = IF closed THEN "close" ELSE "expire", !.protected = {}]
  /\ UNCHANGED <<sourceVars, endVars, tasks, controlVars, discovered>>

InWindow(k) == k[1] = root.epoch /\ k[2] \in Listed(playlist) \ playlist.marked

LeftWindow(k) ==
  /\ ~InWindow(k)
  /\ \/ k[1] < root.epoch
     \/ playlist.hi > k[2]
     \/ k[1] = root.epoch /\ k[2] \in playlist.marked \cap Listed(playlist)

\* observeAtGeneration: what waits for a retry and left the window is given up.
Expire ==
  LET left == {k \in Live : k[1] <= root.epoch /\ LeftWindow(k)}
      expired == {k \in left : tasks[k].phase \in {"retryWait", "queued", "awaitManifest"}}
  IN /\ At("expire") /\ Current(loop.gen)
     /\ Note(loop.gen)
     /\ tasks' = [k \in Keys |->
          IF k \in expired THEN GiveUp(tasks[k])
          ELSE IF k \in left THEN [tasks[k] EXCEPT !.available = FALSE]
          ELSE IF k \in Live /\ k[1] <= root.epoch /\ InWindow(k) THEN [tasks[k] EXCEPT !.available = TRUE]
          ELSE tasks[k]]
     /\ loop' = [loop EXCEPT !.at = "discover", !.expired = expired, !.todo = Listed(playlist)]
     /\ UNCHANGED <<sourceVars, root, writing, controlVars, discovered>>

Settled(k) == Captured(k) \/ k \in root.gaps

\* discoverAtGeneration, the look at the root before the scheduler is locked.
Discover ==
  /\ At("discover") /\ GapsWritten /\ Current(loop.gen)
  /\ Note(loop.gen)
  /\ IF loop.todo = {}
     THEN loop' = [loop EXCEPT !.at = IF playlist.end THEN "endlist" ELSE "poll", !.expired = {}]
     ELSE LET s == Min(loop.todo)
          IN loop' = IF s \in playlist.marked \/ Settled(<<root.epoch, s>>)
                     THEN [loop EXCEPT !.todo = @ \ {s}, !.expired = {}]
                     ELSE [loop EXCEPT !.at = "admit", !.expired = {}]
  /\ UNCHANGED <<sourceVars, root, tasks, writing, controlVars, discovered>>

\* The playlist shows a task again: its URI is replaced, and a task that
\* waited for this generation is queued.
Reobserved(t) ==
  [t EXCEPT !.available = TRUE, !.seen = loop.gen, !.run = playlist.run,
            !.phase = IF @ = "awaitManifest" /\ loop.gen >= t.required THEN "queued" ELSE @]

Admissible(k) == k \notin Live /\ ~Settled(k) /\ Cardinality(Live) < MaxTasks

\* discoverAtGeneration under the lock: an existing task is kept, what was
\* settled since the first look is skipped, and a full table makes the loop wait.
Admit ==
  LET s == Min(loop.todo)
      k == <<root.epoch, s>>
      next == [loop EXCEPT !.at = "discover", !.todo = @ \ {s}]
  IN /\ At("admit") /\ ~closed /\ Current(loop.gen)
     /\ Note(loop.gen)
     /\ loop' = next
     /\ discovered' = discovered \cup {k}
     /\ \/ /\ k \in Live
           /\ tasks' = IF tasks[k].phase = "gapCommitting" THEN tasks ELSE [tasks EXCEPT ![k] = Reobserved(@)]
        \/ /\ k \notin Live /\ Settled(k)
           /\ UNCHANGED tasks
        \/ /\ Admissible(k)
           /\ tasks' = [tasks EXCEPT ![k] = NewTask]
     /\ UNCHANGED <<sourceVars, root, writing, controlVars>>

\* A stop while the table is full: markRemainingPending keeps the rest.
StopWhileFull ==
  LET k == <<root.epoch, Min(loop.todo)>>
      rest == {<<root.epoch, s>> : s \in loop.todo \ playlist.marked}
  IN /\ At("admit") /\ stop /\ ~closed /\ Current(loop.gen)
     /\ k \notin Live /\ ~Settled(k) /\ Cardinality(Live) >= MaxTasks
     /\ Note(loop.gen)
     /\ root' = [root EXCEPT !.pending = @ \cup (rest \ CapturedKeys(root))]
     /\ discovered' = discovered \cup rest
     /\ Go("close")
     /\ UNCHANGED <<sourceVars, tasks, writing, controlVars>>

\* Fault: the tasks that wait for a playlist go on waiting.
EndListOnly ==
  /\ At("endlist") /\ Current(loop.gen)
  /\ latest' = loop.gen /\ ending' = loop.gen
  /\ Go("drain")
  /\ UNCHANGED <<sourceVars, root, tasks, writing, controlVars, discovered>>

\* endList: no playlist will follow, so a task that waits for one is given up.
EndList ==
  LET waiting == {k \in Keys : tasks[k].phase = "awaitManifest"}
      expired == {k \in waiting : ~Resolved(tasks[k])}
  IN /\ At("endlist") /\ Current(loop.gen)
     /\ latest' = loop.gen
     /\ ending' = loop.gen
     /\ tasks' = [k \in Keys |-> IF k \in expired THEN GiveUp(tasks[k])
                                 ELSE IF k \in waiting THEN [tasks[k] EXCEPT !.phase = "queued"]
                                 ELSE tasks[k]]
     /\ loop' = [loop EXCEPT !.at = "drain", !.expired = expired]
     /\ UNCHANGED <<sourceVars, root, writing, controlVars, discovered>>

\* drainEndList: the ENDLIST is still the current source's and nothing is left.
Drained ==
  /\ At("drain") /\ fatal = "none"
  /\ ending = loop.gen /\ Current(loop.gen)
  /\ Live = {} /\ ~writing
  /\ loop' = [loop EXCEPT !.at = "complete", !.expired = {}]
  /\ UNCHANGED <<sourceVars, endVars, root, tasks, writing, controlVars, discovered>>

Complete ==
  /\ At("complete") /\ generation = loop.gen
  /\ root' = [Finalized(root) EXCEPT !.state = "completed"]
  /\ Go("close")
  /\ UNCHANGED <<sourceVars, endVars, tasks, writing, controlVars, discovered>>

\* Fault: the drain does not look at the context.
LoopStopsAtPoll ==
  /\ \/ stop /\ At("poll")
     \/ closed /\ At("admit")
  /\ loop' = [loop EXCEPT !.at = "close", !.expired = {}, !.todo = {}]
  /\ UNCHANGED <<sourceVars, endVars, root, tasks, writing, controlVars, discovered>>

\* Where the loop looks at its context, or meets a closed scheduler.
LoopStops ==
  /\ \/ stop /\ loop.at \in {"poll", "drain", "handover"}
     \/ closed /\ At("admit")
  /\ GapsWritten
  /\ loop' = [loop EXCEPT !.at = "close", !.expired = {}, !.todo = {}]
  /\ UNCHANGED <<sourceVars, endVars, root, tasks, writing, controlVars, discovered>>

\* close: the scheduler admits nothing more, and its context is canceled.
Close ==
  /\ At("close")
  /\ closed' = TRUE
  /\ Go("join")
  /\ UNCHANGED <<sourceVars, endVars, root, tasks, writing, stop, fatal, broken, discovered>>

LeftOver == {k \in Live : ~Captured(k)}

\* ... and when all have returned, the tasks left become pending.
Join ==
  /\ At("join") /\ Quiet
  /\ root' = [root EXCEPT !.pending = @ \cup LeftOver]
  /\ tasks' = [k \in Keys |-> NoTask]
  /\ Go("finish")
  /\ UNCHANGED <<sourceVars, endVars, writing, controlVars, discovered>>

\* The deferred end of the worker: fail, or the terminal state of a stop.
Finish ==
  /\ At("finish")
  /\ root' = IF fatal = "storage" THEN [root EXCEPT !.pending = {}, !.state = "interrupted"]
             ELSE IF fatal # "none" THEN [Finalized(root) EXCEPT !.state = "interrupted"]
             ELSE IF stop /\ root.state = "recording" THEN [Finalized(root) EXCEPT !.state = "stopped"]
             ELSE root
  /\ Go("done")
  /\ UNCHANGED <<sourceVars, endVars, tasks, writing, controlVars, discovered>>

-----------------------------------------------------------------------------
(* The handover drain, at the boundary of the loop. *)

PauseAtBoundary ==
  /\ At("poll") /\ ~stop
  /\ Go("handover")
  /\ UNCHANGED <<sourceVars, endVars, root, tasks, writing, controlVars, discovered>>

\* The caller gave up; the scheduler stays open.
PauseTimesOut ==
  /\ At("handover") /\ ~stop
  /\ Go("poll")
  /\ UNCHANGED <<sourceVars, endVars, root, tasks, writing, controlVars, discovered>>

DrainForHandover ==
  /\ At("handover") /\ fatal = "none" /\ ~closed
  /\ Live = {} /\ ~writing
  /\ closed' = TRUE
  /\ Go("parked")
  /\ UNCHANGED <<sourceVars, endVars, root, tasks, writing, stop, fatal, broken, discovered>>

\* ResumeHandover, and a stop of the parked worker: a fresh scheduler.
ResumeHandover ==
  /\ At("parked")
  /\ closed' = FALSE
  /\ latest' = Unset /\ ending' = Unset
  /\ Go("poll")
  /\ UNCHANGED <<sourceVars, root, tasks, writing, stop, fatal, broken, discovered>>

CompleteHandover ==
  /\ At("parked") /\ ~stop
  /\ Go("done")
  /\ UNCHANGED <<sourceVars, endVars, root, tasks, writing, controlVars, discovered>>

StopRequest ==
  /\ ~stop /\ ~At("done") /\ root.state = "recording"
  /\ stop' = TRUE
  /\ UNCHANGED <<sourceVars, endVars, root, tasks, loop, writing, closed, fatal, broken, discovered>>

-----------------------------------------------------------------------------
(* Workers and timers. *)

SetTask(k, t) == tasks' = [tasks EXCEPT ![k] = t]
Remove(k) == SetTask(k, NoTask)

\* A worker takes a task.  One that was not seen in a playlist of the current
\* source is not fetched.
Start(k) ==
  LET t == tasks[k]
  IN /\ t.phase = "queued" /\ Cardinality(Busy) < MaxWorkers
     /\ ~closed /\ ~stop
     /\ SetTask(k, IF t.seen # generation \/ t.seen < t.required
                   THEN [t EXCEPT !.phase = "returning", !.required = TakeOver(t, generation),
                                  !.available = FALSE, !.seen = Unset]
                   ELSE [t EXCEPT !.phase = "fetching", !.gen = generation])
     /\ UNCHANGED <<sourceVars, endVars, root, loop, writing, controlVars, discovered>>

\* The body is queued for the storage writer, whatever became of the context.
FetchDone(k) ==
  /\ tasks[k].phase = "fetching"
  /\ SetTask(k, [tasks[k] EXCEPT !.phase = "persisting", !.gen = 0])
  /\ UNCHANGED <<sourceVars, endVars, root, loop, writing, controlVars, discovered>>

\* The round tripper refuses a request whose source was replaced.
FetchStale(k) ==
  LET t == tasks[k]
      lost == ~t.available \/ t.seen < generation
  IN /\ t.phase = "fetching" /\ t.gen # generation
     /\ SetTask(k, [t EXCEPT !.phase = "returning", !.gen = 0, !.required = TakeOver(t, generation),
                             !.available = @ /\ ~lost, !.seen = IF lost THEN Unset ELSE @])
     /\ UNCHANGED <<sourceVars, endVars, root, loop, writing, controlVars, discovered>>

\* A fetch fails: the task is pending until a retry, or given up.
FetchFails(k) ==
  LET t == [tasks[k] EXCEPT !.gen = 0]
      tried == [t EXCEPT !.attempt = Min({@ + 1, SegmentAttempts})]
  IN /\ t.phase = "fetching"
     /\ IF ~t.available
        THEN SetTask(k, GiveUp(t)) /\ UNCHANGED root
        ELSE /\ root' = [root EXCEPT !.pending = @ \cup {k}]
             /\ SetTask(k, IF ending # Unset /\ tried.attempt >= SegmentAttempts
                           THEN [tried EXCEPT !.phase = "gapCommitting"]
                           ELSE [tried EXCEPT !.phase = "retryWait", !.timer = "live"])
     /\ UNCHANGED <<sourceVars, endVars, loop, writing, controlVars, discovered>>

\* A status the source's refresh policy names: a refresh, unless the task had
\* its share, or the scheduler closed.
FetchRefused(k) ==
  LET t == tasks[k]
  IN /\ t.phase = "fetching"
     /\ t.gen # generation \/ generation < MaxGeneration
     /\ IF t.cycles >= MaxRefreshCycles
        THEN SetTask(k, [t EXCEPT !.phase = "abandoned", !.gen = 0]) /\ FailFatal("media") /\ UNCHANGED broken
        ELSE /\ SetTask(k, IF closed THEN [t EXCEPT !.phase = "returning", !.gen = 0]
                           ELSE [t EXCEPT !.phase = "refreshing"])
             /\ UNCHANGED controlVars
     /\ UNCHANGED <<sourceVars, endVars, root, loop, writing, discovered>>

\* refreshMediaAtGeneration: the new source is there before the scheduler is told.
Refresh(k) ==
  LET t == tasks[k]
  IN /\ t.phase = "refreshing" /\ t.gen = generation
     /\ GateFree /\ generation < MaxGeneration
     /\ generation' = generation + 1
     /\ SetTask(k, [t EXCEPT !.phase = "refreshed"])
     /\ UNCHANGED <<playlist, endVars, root, loop, writing, controlVars, discovered>>

Renewed(t) ==
  [t EXCEPT !.phase = "returning", !.gen = 0, !.required = TakeOver(t, generation), !.cycles = @ + 1]

NoteRefresh(k) ==
  /\ tasks[k].phase = "refreshed"
  /\ Note(generation)
  /\ SetTask(k, Renewed(tasks[k]))
  /\ UNCHANGED <<sourceVars, root, loop, writing, controlVars, discovered>>

\* Someone else refreshed first.
RefreshShared(k) ==
  /\ tasks[k].phase = "refreshing" /\ tasks[k].gen # generation /\ GateFree
  /\ SetTask(k, Renewed(tasks[k]))
  /\ UNCHANGED <<sourceVars, endVars, root, loop, writing, controlVars, discovered>>

RefreshFails(k) ==
  /\ "refresh" \in Faults
  /\ tasks[k].phase = "refreshing" /\ ~stop
  /\ SetTask(k, [tasks[k] EXCEPT !.phase = "abandoned", !.gen = 0])
  /\ FailFatal("media")
  /\ UNCHANGED <<sourceVars, endVars, root, loop, writing, broken, discovered>>

\* awaitManifest: the task waits for the playlist of the new source, unless
\* that was seen already, or no playlist will follow.
AwaitManifest(k) ==
  LET t == tasks[k]
  IN /\ t.phase = "returning"
     /\ Note(generation)
     /\ SetTask(k, IF Resolved(t) THEN [t EXCEPT !.phase = "queued"]
                   ELSE IF ending' = Unset THEN [t EXCEPT !.phase = "awaitManifest"]
                   ELSE [t EXCEPT !.phase = "gapCommitting"])
     /\ UNCHANGED <<sourceVars, root, loop, writing, controlVars, discovered>>

\* A worker whose context was canceled leaves its task as it is.
Abandon(k) ==
  /\ stop \/ closed
  /\ tasks[k].phase \in {"fetching", "refreshing", "returning"}
  /\ SetTask(k, [tasks[k] EXCEPT !.phase = "abandoned", !.gen = 0])
  /\ UNCHANGED <<sourceVars, endVars, root, loop, writing, controlVars, discovered>>

\* retryTimer: a timer whose token is no longer the task's has no effect.
TimerFires(k) ==
  LET t == tasks[k]
  IN /\ t.timer # "none"
     /\ SetTask(k, IF t.timer = "live" /\ t.available /\ ~closed /\ ~stop
                   THEN [t EXCEPT !.timer = "none", !.phase = "queued"]
                   ELSE [t EXCEPT !.timer = "none"])
     /\ UNCHANGED <<sourceVars, endVars, root, loop, writing, controlVars, discovered>>

\* persistGap: markGap, then the task is gone.
PersistGap(k) ==
  /\ tasks[k].phase = "gapCommitting"
  /\ root' = [root EXCEPT !.gaps = @ \cup ({k} \ CapturedKeys(root)), !.pending = @ \ {k}]
  /\ Remove(k)
  /\ UNCHANGED <<sourceVars, endVars, loop, writing, controlVars, discovered>>

-----------------------------------------------------------------------------
(* The storage writer. *)

PersistSegment(k) ==
  /\ tasks[k].phase = "persisting" /\ ~broken
  /\ root' = [root EXCEPT !.segments[k] = IF @ = 0 THEN tasks[k].run ELSE @, !.pending = @ \ {k}]
  /\ Remove(k)
  /\ UNCHANGED <<sourceVars, endVars, loop, writing, controlVars, discovered>>

\* failStorage: after a write that failed for good, those that follow fail too.
PersistFails(k) ==
  /\ broken \/ "storage" \in Faults
  /\ tasks[k].phase = "persisting"
  /\ SetTask(k, [tasks[k] EXCEPT !.phase = "abandoned"])
  /\ FailFatal("storage") /\ broken' = TRUE
  /\ UNCHANGED <<sourceVars, endVars, root, loop, writing, discovered>>

WriteRoot ==
  /\ writing /\ ~broken
  /\ writing' = FALSE
  /\ UNCHANGED <<sourceVars, endVars, root, tasks, loop, controlVars, discovered>>

WriteRootFails ==
  /\ writing
  /\ broken \/ "storage" \in Faults
  /\ writing' = FALSE
  /\ FailFatal("storage") /\ broken' = TRUE
  /\ UNCHANGED <<sourceVars, endVars, root, tasks, loop, discovered>>

-----------------------------------------------------------------------------
Init ==
  /\ playlist \in {p \in Playlists : p.run = 1 /\ p.lo = 1 /\ p.hi = 1 /\ ~p.end}
  /\ generation = 0 /\ latest = Unset /\ ending = Unset
  /\ root = [state |-> "recording", epoch |-> 0, last |-> 0, segments |-> [k \in Keys |-> 0],
             gaps |-> {}, pending |-> {}]
  /\ tasks = [k \in Keys |-> NoTask]
  /\ loop = [at |-> "poll", gen |-> 0, protected |-> {}, expired |-> {}, todo |-> {}]
  /\ writing = FALSE
  /\ stop = FALSE /\ closed = FALSE /\ fatal = "none" /\ broken = FALSE
  /\ discovered = {}

LoopStep ==
  \/ PollManifest \/ RefreshByLoop \/ NoteByLoop \/ PollFails \/ Outdated
  \/ Publish \/ Expire \/ Discover \/ Admit \/ StopWhileFull
  \/ EndList \/ Drained \/ Complete
  \/ LoopStops \/ Close \/ Join \/ Finish
  \/ PauseAtBoundary \/ PauseTimesOut \/ DrainForHandover \/ ResumeHandover \/ CompleteHandover

TaskStep(k) ==
  \/ Start(k) \/ FetchDone(k) \/ FetchStale(k) \/ FetchFails(k) \/ FetchRefused(k)
  \/ Refresh(k) \/ NoteRefresh(k) \/ RefreshShared(k) \/ RefreshFails(k)
  \/ AwaitManifest(k) \/ Abandon(k) \/ TimerFires(k) \/ PersistGap(k)
  \/ PersistSegment(k) \/ PersistFails(k)

Next ==
  \/ LoopStep \/ StopRequest \/ WriteRoot \/ WriteRootFails
  \/ \E k \in Keys : TaskStep(k)

Spec == Init /\ [][Next]_vars

\* Every step of a worker, a timer or the writer comes to an end, for requests,
\* refreshes and writes have deadlines; so does every step of the loop but a
\* poll and the wait of a parked worker.
Progress(k) ==
  \/ Start(k) \/ FetchDone(k) \/ FetchFails(k) \/ NoteRefresh(k) \/ RefreshShared(k) \/ Refresh(k)
  \/ AwaitManifest(k) \/ Abandon(k) \/ TimerFires(k) \/ PersistGap(k)
  \/ PersistSegment(k) \/ PersistFails(k)

LoopProgress ==
  \/ NoteByLoop \/ Outdated \/ Publish \/ Expire \/ Discover \/ Admit \/ StopWhileFull
  \/ EndList \/ Drained \/ Complete \/ LoopStops \/ Close \/ Join \/ Finish

FairSpec ==
  /\ Spec
  /\ \A k \in Keys : WF_vars(Progress(k))
  /\ WF_vars(LoopProgress)
  /\ WF_vars(WriteRoot \/ WriteRootFails)
  /\ WF_vars(ResumeHandover)

-----------------------------------------------------------------------------
Phases == Parked \cup Working \cup {"persisting", "gapCommitting"}

LoopSteps == {"poll", "note", "publish", "expire", "discover", "admit", "endlist", "drain",
              "complete", "handover", "parked", "close", "join", "finish", "done"}

\* The types of the variables: playlist, media generations, root, tasks by
\* key, place of the loop and the flags of the scheduler.
TypeOK ==
  /\ playlist \in Playlists
  /\ generation \in Generations
  /\ latest \in Generations \cup {Unset} /\ ending \in Generations \cup {Unset}
  /\ root \in [state : {"recording", "completed", "stopped", "interrupted"}, epoch : Epochs,
               last : 0..MaxSeq, segments : [Keys -> 0..MaxRun], gaps : SUBSET Keys, pending : SUBSET Keys]
  /\ tasks \in [Keys -> [phase : Phases, available : BOOLEAN, seen : Generations \cup {Unset},
                         required : Generations, attempt : 0..SegmentAttempts,
                         cycles : 0..MaxRefreshCycles, timer : {"none", "live", "stale"},
                         gen : Generations, run : 0..MaxRun]]
  /\ loop \in [at : LoopSteps, gen : Generations, protected : SUBSET Keys, expired : SUBSET Keys,
               todo : SUBSET Seqs]
  /\ {writing, stop, closed, broken} \subseteq BOOLEAN
  /\ fatal \in {"none", "media", "storage"}
  /\ discovered \subseteq Keys

\* A captured segment is never also reported as a gap, whatever order a late
\* commit, a retry, an expired window and a terminal update come in.  The
\* exception is an interrupted Recording: a loop that failed made gaps of what
\* was pending (Manager.fail), and a commit that was queued before may follow.
CapturedIsNoGap ==
  root.state # "interrupted" => CapturedKeys(root) \cap root.gaps = {}

\* What is settled is never fetched again: no task exists for a sequence that
\* was captured or reported as a gap, though polls, timers and commits race.
\* The exception is a loop that failed: it interrupts the Recording and makes
\* gaps of what is pending before it joins the workers.
SettledIsNotRetried ==
  root.state # "interrupted" => Live \cap (CapturedKeys(root) \cup root.gaps) = {}

\* A Recording that completed or was stopped accounts for every sequence it
\* discovered, as a segment or as a gap, and leaves nothing pending.
EndAccountsForAll ==
  At("done") /\ root.state \in {"completed", "stopped"} =>
    discovered \subseteq CapturedKeys(root) \cup root.gaps /\ root.pending = {} /\ Live = {}

\* The drain after ENDLIST comes to an end: every task is settled or the
\* source changed, no task waits for a playlist that never comes.
EndListDrains == At("drain") ~> ~At("drain")

\* A stop request ends the worker.
StopEnds == stop ~> At("done")
=============================================================================
