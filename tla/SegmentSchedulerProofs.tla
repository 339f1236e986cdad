----------------------- MODULE SegmentSchedulerProofs -----------------------
(***************************************************************************)
(* Theorems about SegmentScheduler for any number of sequences, restarts   *)
(* of the numbering, refreshes, tasks, workers and attempts.               *)
(***************************************************************************)
EXTENDS SegmentScheduler, WellFoundedInduction, TLAPS

USE SchedulerAssumption

-----------------------------------------------------------------------------
(* The shape of the state: types without the bounds that only TLC needs.   *)

Spots == Int \X Int

TaskRecords ==
  [phase : Phases, available : BOOLEAN, seen : Int, required : Int, attempt : Int,
   cycles : Int, timer : {"none", "live", "stale"}, gen : Int, run : Int]

Roots ==
  [state : {"recording", "completed", "stopped", "interrupted"}, epoch : Int, last : Int,
   segments : [Keys -> Int], gaps : SUBSET Spots, pending : SUBSET Spots]

Loops ==
  [at : LoopSteps, gen : Int, protected : SUBSET Keys, expired : SUBSET Keys, todo : SUBSET Int]

Shape ==
  /\ playlist \in Playlists
  /\ generation \in Int
  /\ root \in Roots
  /\ tasks \in [Keys -> TaskRecords]
  /\ loop \in Loops

\* What makes SettledIsNotRetried inductive: a playlist is published under the
\* protection of every task there is, and nothing is finalized while a task is
\* left, but by a loop that failed.
PublishProtects == At("publish") => Live \subseteq loop.protected

EndsWithoutTasks == loop.at \in {"complete", "parked", "finish", "done"} => Live = {}

\* What was removed is not woken by a timer that was started for it.
RemovedIsNotWoken == \A k \in Keys : tasks[k].phase = "none" => tasks[k].timer = "none"

Safe == PublishProtects /\ EndsWithoutTasks /\ RemovedIsNotWoken /\ SettledIsNotRetried

SchedulerInv == Shape /\ Safe

-----------------------------------------------------------------------------
(* Data. *)

LEMMA KeysAreSpots == Keys \subseteq Spots
BY DEF Keys, Spots, Epochs, Seqs

LEMMA MinOfTwo ==
  ASSUME NEW a \in Int, NEW b \in Int
  PROVE  Min({a, b}) \in Int
<1>1. \E x \in {a, b} : \A y \in {a, b} : x =< y
  OBVIOUS
<1> QED BY <1>1 DEF Min

LEMMA PlaylistFields ==
  ASSUME NEW p \in Playlists
  PROVE  p.run \in Int /\ p.lo \in Int /\ p.hi \in Int /\ Listed(p) \subseteq Int
BY DEF Playlists, Listed, Seqs

LEMMA TaskForms ==
  /\ NoTask \in TaskRecords /\ NoTask.phase = "none"
  /\ Shape => NewTask \in TaskRecords
<1>1. NoTask \in TaskRecords /\ NoTask.phase = "none"
  BY DEF NoTask, TaskRecords, Phases, Parked, Unset
<1>2. ASSUME Shape PROVE NewTask \in TaskRecords
  <2>1. playlist.run \in Int /\ loop.gen \in Int
    BY <1>2, PlaylistFields DEF Shape, Loops
  <2>2. "queued" \in Phases
    BY DEF Phases, Parked
  <2> QED BY <1>1, <2>1, <2>2 DEF NewTask, TaskRecords
<1> QED BY <1>1, <1>2

LEMMA GiveUpForm ==
  ASSUME NEW t \in TaskRecords
  PROVE  GiveUp(t) \in TaskRecords /\ GiveUp(t).phase = "gapCommitting"
BY DEF GiveUp, TaskRecords, Phases

\* A field of a task written with a value of its type.
LEMMA FieldForms ==
  ASSUME NEW t \in TaskRecords
  PROVE  /\ \A p \in Phases : [t EXCEPT !.phase = p] \in TaskRecords
         /\ \A a \in BOOLEAN : [t EXCEPT !.available = a] \in TaskRecords
         /\ \A i \in Int : [t EXCEPT !.seen = i] \in TaskRecords
         /\ \A i \in Int : [t EXCEPT !.required = i] \in TaskRecords
         /\ \A i \in Int : [t EXCEPT !.cycles = i] \in TaskRecords
         /\ \A i \in Int : [t EXCEPT !.gen = i] \in TaskRecords
         /\ \A i \in Int : [t EXCEPT !.run = i] \in TaskRecords
         /\ \A x \in {"none", "live", "stale"} : [t EXCEPT !.timer = x] \in TaskRecords
BY DEF TaskRecords

\* What the steps of a worker make of its task.
Moved(t, p) == [t EXCEPT !.phase = p]
Started(t, g) == [t EXCEPT !.phase = "fetching", !.gen = g]
Released(t, p) == [t EXCEPT !.phase = p, !.gen = 0]
Timed(t, p, x) == [t EXCEPT !.phase = p, !.timer = x]
Lost(t, r) ==
  [t EXCEPT !.phase = "returning", !.required = r, !.available = FALSE, !.seen = Unset]
Dropping(t, r, a, s) ==
  [t EXCEPT !.phase = "returning", !.gen = 0, !.required = r, !.available = a, !.seen = s]

LEMMA MovedForm ==
  ASSUME NEW t \in TaskRecords, NEW p \in Phases
  PROVE  Moved(t, p) \in TaskRecords /\ Moved(t, p).phase = p
BY DEF Moved, TaskRecords

LEMMA StartedForm ==
  ASSUME NEW t \in TaskRecords, NEW g \in Int
  PROVE  Started(t, g) \in TaskRecords /\ Started(t, g).phase = "fetching"
BY DEF Started, TaskRecords, Phases, Working

LEMMA ReleasedForm ==
  ASSUME NEW t \in TaskRecords, NEW p \in Phases
  PROVE  Released(t, p) \in TaskRecords /\ Released(t, p).phase = p
<1> DEFINE g == 0
           n == [t EXCEPT !.phase = p, !.gen = g]
<1>1. g \in Int
  OBVIOUS
<1>2. n \in TaskRecords /\ n.phase = p
  <2> HIDE DEF g
  <2> QED BY <1>1 DEF TaskRecords
<1> QED BY <1>2 DEF Released

LEMMA TimedForm ==
  ASSUME NEW t \in TaskRecords, NEW p \in Phases, NEW x \in {"none", "live", "stale"}
  PROVE  Timed(t, p, x) \in TaskRecords /\ Timed(t, p, x).phase = p
BY DEF Timed, TaskRecords

LEMMA LostForm ==
  ASSUME NEW t \in TaskRecords, NEW r \in Int
  PROVE  Lost(t, r) \in TaskRecords /\ Lost(t, r).phase = "returning"
<1> DEFINE two == [Moved(t, "returning") EXCEPT !.required = r]
           three == [two EXCEPT !.available = FALSE]
           four == [three EXCEPT !.seen = Unset]
<1>0. "returning" \in Phases /\ Unset \in Int
  BY DEF Phases, Working, Unset
<1>1. two \in TaskRecords /\ two.phase = "returning"
  BY <1>0, MovedForm, FieldForms DEF TaskRecords
<1>2. three \in TaskRecords /\ three.phase = "returning"
  <2> HIDE DEF two
  <2>1. three \in TaskRecords
    BY <1>1, FieldForms
  <2>2. three.phase = two.phase
    BY <1>1 DEF TaskRecords
  <2> QED BY <1>1, <2>1, <2>2
<1>3. four \in TaskRecords /\ four.phase = "returning"
  <2> HIDE DEF three
  <2>1. four \in TaskRecords
    BY <1>0, <1>2, FieldForms
  <2>2. four.phase = three.phase
    BY <1>2 DEF TaskRecords
  <2> QED BY <1>2, <2>1, <2>2
<1> QED BY <1>3 DEF Lost, Moved

LEMMA DroppingForm ==
  ASSUME NEW t \in TaskRecords, NEW r \in Int, NEW a \in BOOLEAN, NEW s \in Int
  PROVE  Dropping(t, r, a, s) \in TaskRecords /\ Dropping(t, r, a, s).phase = "returning"
<1> DEFINE two == [Released(t, "returning") EXCEPT !.required = r]
           three == [two EXCEPT !.available = a]
           four == [three EXCEPT !.seen = s]
<1>0. "returning" \in Phases
  BY DEF Phases, Working
<1>1. two \in TaskRecords /\ two.phase = "returning"
  BY <1>0, ReleasedForm, FieldForms DEF TaskRecords
<1>2. three \in TaskRecords /\ three.phase = "returning"
  <2> HIDE DEF two
  <2>1. three \in TaskRecords
    BY <1>1, FieldForms
  <2>2. three.phase = two.phase
    BY <1>1 DEF TaskRecords
  <2> QED BY <1>1, <2>1, <2>2
<1>3. four \in TaskRecords /\ four.phase = "returning"
  <2> HIDE DEF three
  <2> QED BY <1>2, FieldForms DEF TaskRecords
<1> QED BY <1>3 DEF Dropping, Released

LEMMA RenewedForm ==
  ASSUME NEW t \in TaskRecords, generation \in Int
  PROVE  Renewed(t) \in TaskRecords /\ Renewed(t).phase = "returning"
<1> DEFINE r == TakeOver(t, generation)
           c == t.cycles + 1
           two == [Released(t, "returning") EXCEPT !.required = r]
           three == [two EXCEPT !.cycles = c]
<1>1. r \in Int /\ c \in Int /\ "returning" \in Phases
  BY DEF TaskRecords, TakeOver, Phases, Working
<1>2. Renewed(t) = three
  BY DEF Renewed, Released, TaskRecords
<1> HIDE DEF r, c
<1>3. two \in TaskRecords /\ two.phase = "returning"
  BY <1>1, ReleasedForm, FieldForms DEF TaskRecords
<1>4. three \in TaskRecords /\ three.phase = "returning"
  <2> HIDE DEF two
  <2> QED BY <1>1, <1>3, FieldForms DEF TaskRecords
<1> QED BY <1>2, <1>4

LEMMA FinalizedForm ==
  ASSUME NEW r \in Roots
  PROVE  /\ Finalized(r) \in Roots
         /\ Finalized(r).segments = r.segments /\ Finalized(r).state = r.state
         /\ \A s \in {"recording", "completed", "stopped", "interrupted"} :
              [Finalized(r) EXCEPT !.state = s] \in Roots
BY DEF Finalized, Roots

\* What an observation adds to the gaps was neither captured nor protected.
LEMMA ObserveAdds ==
  ASSUME Shape, NEW protected
  PROVE  LET r == Observe(playlist, protected) IN
         /\ r \in Roots
         /\ r.state = root.state /\ r.segments = root.segments
         /\ \A k \in Keys : k \in r.gaps => k \in root.gaps \/ (~Captured(k) /\ k \notin protected)
<1> DEFINE reset == SequenceReset(playlist)
           epoch == IF reset THEN root.epoch + 1 ELSE root.epoch
           last == IF reset THEN 0 ELSE root.last
           dropped == IF reset THEN Dropped(protected) ELSE {}
           kept == root.pending \ dropped
           held == Held(epoch, protected)
           stale == {k \in kept : k[1] = epoch /\ k \in held /\ k \notin protected}
           left == {k \in kept : k[1] = epoch /\ k \notin held /\ k[2] \notin Listed(playlist) /\ playlist.hi > k[2]}
           skipped == IF last = 0 THEN {} ELSE (last + 1)..(playlist.lo - 1)
           missing == {<<epoch, s>> : s \in skipped \cup (playlist.marked \cap Listed(playlist))}
           gaps == root.gaps \cup (dropped \ CapturedKeys(root)) \cup ((missing \cup left) \ held)
           pending == kept \ (stale \cup left)
           high == IF playlist.hi > last THEN playlist.hi ELSE last
<1>0. root \in Roots /\ playlist \in Playlists
  BY DEF Shape
<1>1. Observe(playlist, protected) =
        [root EXCEPT !.epoch = epoch, !.last = high, !.pending = pending, !.gaps = gaps]
  BY DEF Observe
<1>2. epoch \in Int /\ high \in Int /\ last \in Int
  BY <1>0, PlaylistFields DEF Roots
<1>3. missing \subseteq Spots
  <2>1. skipped \cup (playlist.marked \cap Listed(playlist)) \subseteq Int
    BY <1>2, <1>0, PlaylistFields
  <2> QED BY <2>1, <1>2 DEF Spots
<1>4. gaps \subseteq Spots /\ pending \subseteq Spots
  <2>1. root.gaps \subseteq Spots /\ root.pending \subseteq Spots
    BY <1>0 DEF Roots
  <2>2. dropped \subseteq root.pending
    BY DEF Dropped
  <2> QED BY <2>1, <2>2, <1>3
<1>5. Observe(playlist, protected) \in Roots
  <2> HIDE DEF epoch, high, pending, gaps
  <2>1. [root EXCEPT !.epoch = epoch, !.last = high, !.pending = pending, !.gaps = gaps] \in Roots
    BY <1>0, <1>2, <1>4 DEF Roots
  <2> QED BY <1>1, <2>1
<1>6. /\ Observe(playlist, protected).state = root.state
      /\ Observe(playlist, protected).segments = root.segments
      /\ Observe(playlist, protected).gaps = gaps
  <2> HIDE DEF epoch, high, pending, gaps
  <2> QED BY <1>0, <1>1 DEF Roots
<1>7. ASSUME NEW k \in Keys, k \in gaps
      PROVE  k \in root.gaps \/ (~Captured(k) /\ k \notin protected)
  <2>1. CASE k \in root.gaps
    BY <2>1
  <2>2. CASE k \in dropped \ CapturedKeys(root)
    BY <2>2 DEF Dropped, CapturedKeys, Captured
  <2>3. CASE k \in (missing \cup left) \ held
    <3>1. k[1] = epoch
      BY <2>3
    <3>2. k \notin CapturedKeys(root) \cup protected
      <4> HIDE DEF epoch
      <4> QED BY <2>3, <3>1 DEF Held
    <3> QED BY <3>2 DEF CapturedKeys, Captured
  <2> QED BY <1>7, <2>1, <2>2, <2>3
<1> HIDE DEF gaps
<1> QED BY <1>5, <1>6, <1>7

-----------------------------------------------------------------------------
(* Steps.                                                                  *)

\* A step of the loop that adds and removes no task and settles nothing only
\* has to keep what its new place promises.
LEMMA LoopMoves ==
  ASSUME SchedulerInv,
         playlist' \in Playlists, generation' \in Int, loop' \in Loops,
         tasks' \in [Keys -> TaskRecords], RemovedIsNotWoken', Live' = Live,
         root' \in Roots, root'.state = root.state,
         root'.segments = root.segments, root'.gaps = root.gaps,
         loop'.at = "publish" => Live \subseteq loop'.protected,
         loop'.at \in {"complete", "parked", "finish", "done"} => Live = {}
  PROVE  SchedulerInv'
<1>1. CapturedKeys(root)' = CapturedKeys(root)
  BY DEF CapturedKeys
<1> QED
  BY <1>1
  DEF SchedulerInv, Shape, Safe, PublishProtects, EndsWithoutTasks, SettledIsNotRetried, At

LEMMA LoopMovesAlone ==
  ASSUME SchedulerInv, UNCHANGED <<root, tasks>>,
         playlist' \in Playlists, generation' \in Int, loop' \in Loops,
         loop'.at = "publish" => Live \subseteq loop'.protected,
         loop'.at \in {"complete", "parked", "finish", "done"} => Live = {}
  PROVE  SchedulerInv'
<1>1. Live' = Live /\ RemovedIsNotWoken'
  BY DEF SchedulerInv, Safe, Live, RemovedIsNotWoken
<1> QED BY <1>1, LoopMoves DEF SchedulerInv, Shape

\* A step after which no task is left, or the Recording is interrupted.
LEMMA NothingLeft ==
  ASSUME SchedulerInv, UNCHANGED <<playlist, generation>>,
         loop' \in Loops, tasks' \in [Keys -> TaskRecords], root' \in Roots, RemovedIsNotWoken',
         loop'.at \notin {"publish", "complete", "parked"},
         Live' = {} \/ (root'.state = "interrupted" /\ loop'.at \notin {"finish", "done"})
  PROVE  SchedulerInv'
BY DEF SchedulerInv, Shape, Safe, PublishProtects, EndsWithoutTasks, SettledIsNotRetried, At

\* A step that adds no task, and settles no sequence that keeps its task.
LEMMA TasksShrink ==
  ASSUME SchedulerInv, UNCHANGED loop, playlist' \in Playlists, generation' \in Int,
         tasks' \in [Keys -> TaskRecords], RemovedIsNotWoken', Live' \subseteq Live,
         root' \in Roots, root'.state = root.state,
         Live' \cap (CapturedKeys(root') \cup root'.gaps) \subseteq CapturedKeys(root) \cup root.gaps
  PROVE  SchedulerInv'
<1>1. PublishProtects'
  BY DEF SchedulerInv, Safe, PublishProtects, At
<1>2. EndsWithoutTasks'
  BY DEF SchedulerInv, Safe, EndsWithoutTasks
<1>3. SettledIsNotRetried'
  BY DEF SchedulerInv, Safe, SettledIsNotRetried
<1> QED BY <1>1, <1>2, <1>3 DEF SchedulerInv, Shape, Safe

\* A step that writes one task, and makes at most its key pending.
LEMMA OneTaskWritten ==
  ASSUME SchedulerInv, NEW k \in Keys, NEW t \in TaskRecords, SetTask(k, t),
         tasks[k].phase # "none", t.phase # "none",
         UNCHANGED <<playlist, loop>>, generation' \in Int,
         root' = root \/ root' = [root EXCEPT !.pending = @ \cup {k}]
  PROVE  SchedulerInv'
<1>1. tasks' \in [Keys -> TaskRecords] /\ Live' = Live /\ RemovedIsNotWoken'
  BY DEF SchedulerInv, Safe, Shape, SetTask, Live, RemovedIsNotWoken
<1>2. /\ root' \in Roots /\ root'.state = root.state
      /\ root'.segments = root.segments /\ root'.gaps = root.gaps
  BY KeysAreSpots DEF SchedulerInv, Shape, Roots
<1>3. CapturedKeys(root') = CapturedKeys(root)
  BY <1>2 DEF CapturedKeys
<1> QED BY <1>1, <1>2, <1>3, TasksShrink DEF SchedulerInv, Shape

\* A step that settles one task and removes it.
LEMMA OneTaskSettled ==
  ASSUME SchedulerInv, NEW k \in Keys, Remove(k), UNCHANGED <<playlist, generation, loop>>,
         root' \in Roots, root'.state = root.state,
         \A l \in Keys \ {k} : /\ root'.segments[l] = root.segments[l]
                               /\ l \in root'.gaps => l \in root.gaps
  PROVE  SchedulerInv'
<1>1. tasks' \in [Keys -> TaskRecords] /\ Live' = Live \ {k} /\ RemovedIsNotWoken'
  <2>1. NoTask.timer = "none"
    BY DEF NoTask
  <2> QED
    BY <2>1, TaskForms DEF SchedulerInv, Safe, Shape, Remove, SetTask, Live, RemovedIsNotWoken
<1>2. Live' \cap (CapturedKeys(root') \cup root'.gaps) \subseteq CapturedKeys(root) \cup root.gaps
  BY <1>1 DEF Live, CapturedKeys
<1> QED BY <1>1, <1>2, TasksShrink DEF SchedulerInv, Shape

LEMMA TaskStepKeeps ==
  ASSUME SchedulerInv, NEW k \in Keys, TaskStep(k)
  PROVE  SchedulerInv'
<1> DEFINE t == tasks[k]
<1>0. /\ t \in TaskRecords /\ playlist \in Playlists /\ generation \in Int
      /\ root \in Roots /\ loop \in Loops
  BY DEF SchedulerInv, Shape
<1>t. /\ t.phase \in Phases /\ t.required \in Int /\ t.seen \in Int /\ t.attempt \in Int
      /\ t.cycles \in Int /\ t.available \in BOOLEAN /\ TakeOver(t, generation) \in Int
  BY <1>0 DEF TaskRecords, TakeOver
<1>p. /\ "queued" \in Phases /\ "retryWait" \in Phases /\ "awaitManifest" \in Phases
      /\ "abandoned" \in Phases /\ "fetching" \in Phases /\ "refreshing" \in Phases
      /\ "refreshed" \in Phases /\ "returning" \in Phases /\ "persisting" \in Phases
      /\ "gapCommitting" \in Phases
  BY DEF Phases, Parked, Working
<1>u. Unset \in Int
  BY DEF Unset
<1>1. CASE Start(k)
  <2> DEFINE n == IF t.seen # generation \/ t.seen < t.required
                  THEN Lost(t, TakeOver(t, generation))
                  ELSE Started(t, generation)
  <2>1. n \in TaskRecords /\ n.phase # "none"
    <3> HIDE DEF t
    <3> QED BY <1>0, <1>t, <1>p, <1>u, LostForm, StartedForm
  <2>2. SetTask(k, n) /\ t.phase # "none" /\ UNCHANGED <<playlist, generation, root, loop>>
    BY <1>1 DEF Start, sourceVars, Lost, Started
  <2> QED BY <1>0, <2>1, <2>2, OneTaskWritten
<1>2. CASE FetchDone(k)
  <2> DEFINE n == Released(t, "persisting")
  <2>1. n \in TaskRecords /\ n.phase # "none"
    <3> HIDE DEF t
    <3> QED BY <1>0, <1>t, <1>p, ReleasedForm
  <2>2. SetTask(k, n) /\ t.phase # "none" /\ UNCHANGED <<playlist, generation, root, loop>>
    BY <1>2 DEF FetchDone, sourceVars, Released
  <2> QED BY <1>0, <2>1, <2>2, OneTaskWritten
<1>3. CASE FetchStale(k)
  <2> DEFINE lost == ~t.available \/ t.seen < generation
             a == t.available /\ ~lost
             s == IF lost THEN Unset ELSE t.seen
             n == Dropping(t, TakeOver(t, generation), a, s)
  <2>1. n \in TaskRecords /\ n.phase # "none"
    <3>1. a \in BOOLEAN /\ s \in Int
      BY <1>t, <1>u
    <3> HIDE DEF a, s, t
    <3> QED BY <1>0, <1>t, <1>p, <3>1, DroppingForm
  <2>2. SetTask(k, n) /\ t.phase # "none" /\ UNCHANGED <<playlist, generation, root, loop>>
    BY <1>3 DEF FetchStale, sourceVars, Dropping
  <2> QED BY <1>0, <2>1, <2>2, OneTaskWritten
<1>4. CASE FetchFails(k)
  <2> DEFINE u == [t EXCEPT !.gen = 0]
             tried == [u EXCEPT !.attempt = Min({@ + 1, SegmentAttempts})]
             n == IF ~u.available THEN GiveUp(u)
                  ELSE IF ending # Unset /\ tried.attempt >= SegmentAttempts
                       THEN Moved(tried, "gapCommitting")
                       ELSE Timed(tried, "retryWait", "live")
  <2>1. u \in TaskRecords
    BY <1>0 DEF TaskRecords
  <2>2. tried \in TaskRecords
    <3>1. Min({u.attempt + 1, SegmentAttempts}) \in Int
      <4>1. u.attempt + 1 \in Int /\ SegmentAttempts \in Int
        BY <2>1 DEF TaskRecords
      <4> QED BY <4>1, MinOfTwo
    <3> QED BY <2>1, <3>1 DEF TaskRecords
  <2>3. n \in TaskRecords /\ n.phase # "none"
    <3> HIDE DEF u, tried
    <3>1. GiveUp(u) \in TaskRecords /\ GiveUp(u).phase # "none"
      BY <2>1, GiveUpForm
    <3>2. Moved(tried, "gapCommitting") \in TaskRecords /\ Moved(tried, "gapCommitting").phase # "none"
      BY ONLY <2>2, <1>p, MovedForm
    <3>3. Timed(tried, "retryWait", "live") \in TaskRecords /\ Timed(tried, "retryWait", "live").phase # "none"
      BY ONLY <2>2, <1>p, TimedForm
    <3> QED BY <3>1, <3>2, <3>3
  <2>4. /\ SetTask(k, n) /\ t.phase # "none" /\ UNCHANGED <<playlist, generation, loop>>
        /\ root' = root \/ root' = [root EXCEPT !.pending = @ \cup {k}]
    BY <1>4 DEF FetchFails, sourceVars, Moved, Timed
  <2> HIDE DEF n
  <2> QED BY <1>0, <2>3, <2>4, OneTaskWritten
<1>5. CASE FetchRefused(k)
  <2> DEFINE n == IF t.cycles >= MaxRefreshCycles THEN Released(t, "abandoned")
                  ELSE IF closed THEN Released(t, "returning")
                  ELSE Moved(t, "refreshing")
  <2>1. n \in TaskRecords /\ n.phase # "none"
    <3> HIDE DEF t
    <3>1. t \in TaskRecords
      BY <1>0, <1>t
    <3>2. \A p \in {"abandoned", "returning"} : Released(t, p) \in TaskRecords /\ Released(t, p).phase # "none"
      BY <1>p, <3>1, ReleasedForm
    <3>3. Moved(t, "refreshing") \in TaskRecords /\ Moved(t, "refreshing").phase # "none"
      BY <1>p, <3>1, MovedForm
    <3> QED BY <3>2, <3>3
  <2>2. SetTask(k, n) /\ t.phase # "none" /\ UNCHANGED <<playlist, generation, root, loop>>
    BY <1>5 DEF FetchRefused, sourceVars, Released, Moved
  <2> QED BY <1>0, <2>1, <2>2, OneTaskWritten
<1>6. CASE Refresh(k)
  <2> DEFINE n == Moved(t, "refreshed")
  <2>1. n \in TaskRecords /\ n.phase # "none"
    <3> HIDE DEF t
    <3> QED BY <1>0, <1>t, <1>p, MovedForm
  <2>2. /\ SetTask(k, n) /\ t.phase # "none" /\ UNCHANGED <<playlist, root, loop>>
        /\ generation' \in Int
    BY <1>0, <1>6 DEF Refresh, Moved
  <2> QED BY <2>1, <2>2, OneTaskWritten
<1>7. CASE NoteRefresh(k) \/ RefreshShared(k)
  <2>1. Renewed(t) \in TaskRecords /\ Renewed(t).phase # "none"
    <3> HIDE DEF t
    <3> QED BY <1>0, <1>t, <1>p, RenewedForm
  <2>2. SetTask(k, Renewed(t)) /\ t.phase # "none" /\ UNCHANGED <<playlist, generation, root, loop>>
    BY <1>7 DEF NoteRefresh, RefreshShared, sourceVars
  <2> QED BY <1>0, <2>1, <2>2, OneTaskWritten
<1>8. CASE RefreshFails(k) \/ Abandon(k)
  <2> DEFINE n == Released(t, "abandoned")
  <2>1. n \in TaskRecords /\ n.phase # "none"
    <3> HIDE DEF t
    <3> QED BY <1>0, <1>t, <1>p, ReleasedForm
  <2>2. SetTask(k, n) /\ t.phase # "none" /\ UNCHANGED <<playlist, generation, root, loop>>
    BY <1>8 DEF RefreshFails, Abandon, sourceVars, Released
  <2> QED BY <1>0, <2>1, <2>2, OneTaskWritten
<1>9. CASE AwaitManifest(k)
  <2>1. PICK phase \in {"queued", "awaitManifest", "gapCommitting"} :
          SetTask(k, Moved(t, phase))
    BY <1>9 DEF AwaitManifest, Moved
  <2>2. Moved(t, phase) \in TaskRecords /\ Moved(t, phase).phase # "none"
    <3> HIDE DEF t
    <3>1. t \in TaskRecords /\ phase \in Phases /\ phase # "none"
      BY <1>0, <1>t, <1>p
    <3> QED BY <3>1, MovedForm
  <2>3. t.phase # "none" /\ UNCHANGED <<playlist, generation, root, loop>>
    BY <1>9 DEF AwaitManifest, sourceVars
  <2> QED BY <1>0, <2>1, <2>2, <2>3, OneTaskWritten
<1>10. CASE TimerFires(k)
  <2> DEFINE n == IF t.timer = "live" /\ t.available /\ ~closed /\ ~stop
                  THEN Timed(t, "queued", "none")
                  ELSE Timed(t, t.phase, "none")
  <2>1. t.phase # "none"
    BY <1>10 DEF TimerFires, SchedulerInv, Safe, RemovedIsNotWoken
  <2>2. n \in TaskRecords /\ n.phase # "none"
    <3> HIDE DEF t
    <3>1. Timed(t, "queued", "none") \in TaskRecords /\ Timed(t, "queued", "none").phase = "queued"
      BY <1>0, <1>p, TimedForm
    <3>2. Timed(t, t.phase, "none") \in TaskRecords /\ Timed(t, t.phase, "none").phase = t.phase
      BY <1>0, <1>t, TimedForm
    <3> QED BY <2>1, <3>1, <3>2
  <2>3. SetTask(k, n) /\ UNCHANGED <<playlist, generation, root, loop>>
    BY <1>10 DEF TimerFires, sourceVars, Timed
  <2> QED BY <1>0, <2>1, <2>2, <2>3, OneTaskWritten
<1>11. CASE PersistFails(k)
  <2> DEFINE n == Moved(t, "abandoned")
  <2>1. n \in TaskRecords /\ n.phase # "none"
    <3> HIDE DEF t
    <3> QED BY <1>0, <1>t, <1>p, MovedForm
  <2>2. SetTask(k, n) /\ t.phase # "none" /\ UNCHANGED <<playlist, generation, root, loop>>
    BY <1>11 DEF PersistFails, sourceVars, Moved
  <2> QED BY <1>0, <2>1, <2>2, OneTaskWritten
<1>12. CASE PersistGap(k)
  <2>1. Remove(k) /\ UNCHANGED <<playlist, generation, loop>>
    BY <1>12 DEF PersistGap, sourceVars
  <2>2. /\ root' \in Roots /\ root'.state = root.state /\ root'.segments = root.segments
        /\ root'.gaps \subseteq root.gaps \cup {k}
    BY <1>0, <1>12, KeysAreSpots DEF PersistGap, Roots
  <2> QED BY <2>1, <2>2, OneTaskSettled
<1>13. CASE PersistSegment(k)
  <2>1. Remove(k) /\ UNCHANGED <<playlist, generation, loop>>
    BY <1>13 DEF PersistSegment, sourceVars
  <2>2. /\ root' \in Roots /\ root'.state = root.state /\ root'.gaps = root.gaps
        /\ \A l \in Keys \ {k} : root'.segments[l] = root.segments[l]
    <3>1. t.run \in Int
      BY <1>0 DEF TaskRecords
    <3> QED BY <1>0, <1>13, <3>1 DEF PersistSegment, Roots
  <2> QED BY <2>1, <2>2, OneTaskSettled
<1> QED
  BY <1>1, <1>2, <1>3, <1>4, <1>5, <1>6, <1>7, <1>8, <1>9, <1>10, <1>11, <1>12, <1>13 DEF TaskStep

\* The steps of the loop that leave the root and the tasks as they are.
LEMMA BareLoopStepKeeps ==
  ASSUME SchedulerInv,
         \/ PollManifest \/ RefreshByLoop \/ NoteByLoop \/ Outdated \/ Discover
         \/ Drained \/ LoopStops \/ Close \/ PauseAtBoundary \/ PauseTimesOut
         \/ DrainForHandover \/ ResumeHandover \/ CompleteHandover
  PROVE  SchedulerInv'
<1>0. playlist \in Playlists /\ generation \in Int /\ loop \in Loops
  BY DEF SchedulerInv, Shape
<1>1. Live \subseteq Keys
  BY DEF Live
<1>2. CASE PollManifest
  <2>1. PICK p \in Playlists :
          /\ playlist' = p
          /\ loop' = [loop EXCEPT !.at = IF Listed(p) = {} THEN "endlist" ELSE "publish",
                                  !.gen = generation,
                                  !.protected = IF Listed(p) = {} THEN {} ELSE Live]
    BY <1>2 DEF PollManifest
  <2>2. /\ loop' \in Loops /\ loop'.at \in {"endlist", "publish"}
        /\ loop'.at = "publish" => loop'.protected = Live
    BY <1>0, <1>1, <2>1 DEF Loops, LoopSteps
  <2>3. UNCHANGED <<root, tasks, generation>>
    BY <1>2 DEF PollManifest
  <2> QED BY <1>0, <2>1, <2>2, <2>3, LoopMovesAlone
<1>3. CASE RefreshByLoop
  <2>1. loop' \in Loops /\ loop'.at = "note"
    BY <1>0, <1>3 DEF RefreshByLoop, Go, Loops, LoopSteps
  <2>2. UNCHANGED <<root, tasks, playlist>> /\ generation' \in Int
    BY <1>0, <1>3 DEF RefreshByLoop
  <2> QED BY <1>0, <2>1, <2>2, LoopMovesAlone
<1>4. CASE NoteByLoop \/ PauseTimesOut \/ ResumeHandover
  <2>1. loop' \in Loops /\ loop'.at = "poll"
    BY <1>0, <1>4 DEF NoteByLoop, PauseTimesOut, ResumeHandover, Go, Loops, LoopSteps
  <2>2. UNCHANGED <<root, tasks, playlist, generation>>
    BY <1>4 DEF NoteByLoop, PauseTimesOut, ResumeHandover, sourceVars
  <2> QED BY <1>0, <2>1, <2>2, LoopMovesAlone
<1>5. CASE Outdated
  <2>1. loop' \in Loops /\ loop'.at = "poll"
    BY <1>0, <1>5 DEF Outdated, Loops, LoopSteps
  <2>2. UNCHANGED <<root, tasks, playlist, generation>>
    BY <1>5 DEF Outdated, sourceVars
  <2> QED BY <1>0, <2>1, <2>2, LoopMovesAlone
<1>6. CASE Discover
  <2>1. loop' \in Loops /\ loop'.at \in {"endlist", "poll", "discover", "admit"}
    <3>1. PICK at \in {"endlist", "poll", "discover", "admit"} :
            \/ loop' = [loop EXCEPT !.at = at, !.expired = {}]
            \/ /\ At("discover")
               /\ loop' = [loop EXCEPT !.todo = @ \ {Min(loop.todo)}, !.expired = {}]
      BY <1>6 DEF Discover
    <3>2. {"endlist", "poll", "discover", "admit"} \subseteq LoopSteps
      BY DEF LoopSteps
    <3>3. CASE loop' = [loop EXCEPT !.at = at, !.expired = {}]
      BY <1>0, <3>2, <3>3 DEF Loops
    <3>4. CASE At("discover") /\ loop' = [loop EXCEPT !.todo = @ \ {Min(loop.todo)}, !.expired = {}]
      <4>1. PICK m : m = Min(loop.todo)
        OBVIOUS
      <4> QED BY <1>0, <3>4, <4>1 DEF At, Loops
    <3> QED BY <3>1, <3>3, <3>4
  <2>2. UNCHANGED <<root, tasks, playlist, generation>>
    BY <1>6 DEF Discover, sourceVars
  <2> QED BY <1>0, <2>1, <2>2, LoopMovesAlone
<1>7. CASE Drained
  <2>1. loop' \in Loops /\ loop'.at = "complete" /\ Live = {}
    BY <1>0, <1>7 DEF Drained, Loops, LoopSteps
  <2>2. UNCHANGED <<root, tasks, playlist, generation>>
    BY <1>7 DEF Drained, sourceVars
  <2> QED BY <1>0, <2>1, <2>2, LoopMovesAlone
<1>8. CASE LoopStops
  <2>1. loop' \in Loops /\ loop'.at = "close"
    BY <1>0, <1>8 DEF LoopStops, Loops, LoopSteps
  <2>2. UNCHANGED <<root, tasks, playlist, generation>>
    BY <1>8 DEF LoopStops, sourceVars
  <2> QED BY <1>0, <2>1, <2>2, LoopMovesAlone
<1>9. CASE Close \/ PauseAtBoundary
  <2>1. loop' \in Loops /\ loop'.at \in {"join", "handover"}
    BY <1>0, <1>9 DEF Close, PauseAtBoundary, Go, Loops, LoopSteps
  <2>2. UNCHANGED <<root, tasks, playlist, generation>>
    BY <1>9 DEF Close, PauseAtBoundary, sourceVars
  <2> QED BY <1>0, <2>1, <2>2, LoopMovesAlone
<1>10. CASE DrainForHandover \/ CompleteHandover
  <2>1. loop' \in Loops /\ loop'.at \in {"parked", "done"}
    BY <1>0, <1>10 DEF DrainForHandover, CompleteHandover, Go, Loops, LoopSteps
  <2>2. Live = {}
    BY <1>10 DEF DrainForHandover, CompleteHandover, At, SchedulerInv, Safe, EndsWithoutTasks
  <2>3. UNCHANGED <<root, tasks, playlist, generation>>
    BY <1>10 DEF DrainForHandover, CompleteHandover, sourceVars
  <2> QED BY <1>0, <2>1, <2>2, <2>3, LoopMovesAlone
<1> QED BY <1>2, <1>3, <1>4, <1>5, <1>6, <1>7, <1>8, <1>9, <1>10

\* An observation makes a gap of nothing that still has a task.
LEMMA PublishKeeps ==
  ASSUME SchedulerInv, Publish
  PROVE  SchedulerInv'
<1>1. /\ Shape /\ At("publish") /\ Live \subseteq loop.protected
      /\ UNCHANGED <<playlist, generation, tasks>>
  BY DEF SchedulerInv, Safe, PublishProtects, Publish, sourceVars
<1>2. /\ root' \in Roots /\ root'.state = root.state /\ root'.segments = root.segments
      /\ \A k \in Keys : k \in root'.gaps => k \in root.gaps \/ (~Captured(k) /\ k \notin loop.protected)
  BY <1>1, ObserveAdds DEF Publish
<1>3. loop' \in Loops /\ loop'.at \in {"close", "expire"}
  BY <1>1 DEF Publish, Shape, Loops, LoopSteps
<1>4. Live' = Live /\ RemovedIsNotWoken' /\ CapturedKeys(root') = CapturedKeys(root)
  BY <1>1, <1>2 DEF Live, CapturedKeys, SchedulerInv, Safe, RemovedIsNotWoken
<1>5. SettledIsNotRetried'
  BY <1>1, <1>2, <1>4 DEF SchedulerInv, Safe, SettledIsNotRetried, Live
<1> QED
  BY <1>1, <1>2, <1>3, <1>4, <1>5
  DEF SchedulerInv, Shape, Safe, PublishProtects, EndsWithoutTasks, At

\* The loop rewrites tasks, but adds and removes none.
LEMMA ExpireKeeps ==
  ASSUME SchedulerInv, Expire
  PROVE  SchedulerInv'
<1> DEFINE left == {k \in Live : k[1] <= root.epoch /\ LeftWindow(k)}
           expired == {k \in left : tasks[k].phase \in {"retryWait", "queued", "awaitManifest"}}
<1>0. playlist \in Playlists /\ generation \in Int /\ loop \in Loops /\ root \in Roots
  BY DEF SchedulerInv, Shape
<1>1. /\ loop' = [loop EXCEPT !.at = "discover", !.expired = expired, !.todo = Listed(playlist)]
      /\ UNCHANGED <<playlist, generation, root>>
  BY DEF Expire, sourceVars
<1>2. ASSUME NEW k \in Keys
      PROVE  /\ tasks[k] \in TaskRecords
             /\ tasks'[k] \in {tasks[k], GiveUp(tasks[k]), [tasks[k] EXCEPT !.available = FALSE],
                               [tasks[k] EXCEPT !.available = TRUE]}
             /\ k \notin Live => tasks'[k] = tasks[k]
  <2> HIDE DEF left
  <2>1. expired \subseteq left /\ left \subseteq Live
    BY DEF left
  <2> HIDE DEF expired
  <2>2. tasks'[k] = IF k \in expired THEN GiveUp(tasks[k])
                    ELSE IF k \in left THEN [tasks[k] EXCEPT !.available = FALSE]
                    ELSE IF k \in Live /\ k[1] <= root.epoch /\ InWindow(k)
                         THEN [tasks[k] EXCEPT !.available = TRUE]
                    ELSE tasks[k]
    BY DEF Expire, expired, left
  <2>3. tasks[k] \in TaskRecords
    BY DEF SchedulerInv, Shape
  <2> QED BY <2>1, <2>2, <2>3
<1>3. ASSUME NEW k \in Keys
      PROVE  /\ tasks'[k] \in TaskRecords
             /\ tasks'[k].phase = "none" <=> tasks[k].phase = "none"
             /\ tasks[k].phase = "none" => tasks'[k] = tasks[k]
  <2>1. k \in Live <=> tasks[k].phase # "none"
    BY DEF Live
  <2>2. CASE tasks'[k] = tasks[k]
    BY <1>2, <2>2
  <2>3. CASE tasks'[k] = GiveUp(tasks[k])
    BY <1>2, <2>1, <2>3, GiveUpForm
  <2>4. CASE tasks'[k] \in {[tasks[k] EXCEPT !.available = FALSE], [tasks[k] EXCEPT !.available = TRUE]}
    BY <1>2, <2>1, <2>4 DEF TaskRecords
  <2> QED BY <1>2, <2>2, <2>3, <2>4
<1>4. tasks' \in [Keys -> TaskRecords]
  <2>1. \E f : tasks' = [k \in Keys |-> f[k]]
    <3>1. tasks' = [k \in Keys |-> tasks'[k]]
      BY DEF Expire
    <3> QED BY <3>1
  <2> QED BY <1>3, <2>1
<1>5. Live' = Live /\ RemovedIsNotWoken'
  BY <1>3 DEF Live, SchedulerInv, Safe, RemovedIsNotWoken
<1>6. loop' \in Loops /\ loop'.at = "discover"
  <2>1. expired \subseteq Keys
    BY DEF Live
  <2>2. Listed(playlist) \subseteq Int
    BY <1>0, PlaylistFields
  <2> HIDE DEF expired
  <2> QED BY <1>0, <1>1, <2>1, <2>2 DEF Loops, LoopSteps
<1> QED BY <1>0, <1>1, <1>4, <1>5, <1>6, LoopMoves

LEMMA EndListKeeps ==
  ASSUME SchedulerInv, EndList
  PROVE  SchedulerInv'
<1> DEFINE waiting == {k \in Keys : tasks[k].phase = "awaitManifest"}
           expired == {k \in waiting : ~Resolved(tasks[k])}
<1>0. playlist \in Playlists /\ generation \in Int /\ loop \in Loops /\ root \in Roots
  BY DEF SchedulerInv, Shape
<1>1. /\ loop' = [loop EXCEPT !.at = "drain", !.expired = expired]
      /\ tasks' = [k \in Keys |-> IF k \in expired THEN GiveUp(tasks[k])
                                  ELSE IF k \in waiting THEN [tasks[k] EXCEPT !.phase = "queued"]
                                  ELSE tasks[k]]
      /\ UNCHANGED <<playlist, generation, root>>
  BY DEF EndList, sourceVars
<1>2. ASSUME NEW k \in Keys
      PROVE  /\ tasks'[k] \in TaskRecords
             /\ tasks'[k].phase = "none" <=> tasks[k].phase = "none"
             /\ tasks[k].phase = "none" => tasks'[k] = tasks[k]
  <2>1. tasks[k] \in TaskRecords
    BY DEF SchedulerInv, Shape
  <2>2. CASE k \in waiting
    <3>1. tasks'[k] \in {GiveUp(tasks[k]), Moved(tasks[k], "queued")}
      BY <1>1, <2>2 DEF Moved
    <3>2. "queued" \in Phases
      BY DEF Phases, Parked
    <3> QED BY <2>1, <2>2, <3>1, <3>2, GiveUpForm, MovedForm
  <2>3. CASE k \notin waiting
    BY <1>1, <2>1, <2>3
  <2> QED BY <2>2, <2>3
<1>3. tasks' \in [Keys -> TaskRecords] /\ Live' = Live /\ RemovedIsNotWoken'
  BY <1>1, <1>2 DEF Live, SchedulerInv, Safe, RemovedIsNotWoken
<1>4. loop' \in Loops /\ loop'.at = "drain"
  BY <1>0, <1>1 DEF Loops, LoopSteps
<1> QED BY <1>0, <1>1, <1>3, <1>4, LoopMoves

\* A sequence gets a task only when it is not settled: the second look of
\* discoverAtGeneration.
LEMMA AdmitKeeps ==
  ASSUME SchedulerInv, Admit
  PROVE  SchedulerInv'
<1> DEFINE s == Min(loop.todo)
           k == <<root.epoch, s>>
<1>0. /\ playlist \in Playlists /\ generation \in Int /\ loop \in Loops /\ root \in Roots
      /\ tasks \in [Keys -> TaskRecords]
  BY DEF SchedulerInv, Shape
<1>1. /\ loop' \in Loops /\ loop'.at = "discover"
      /\ UNCHANGED <<playlist, generation, root>>
  <2> HIDE DEF s
  <2>1. loop' = [loop EXCEPT !.at = "discover", !.todo = @ \ {s}]
    BY DEF Admit, s
  <2>2. UNCHANGED <<playlist, generation, root>>
    BY DEF Admit, sourceVars
  <2>3. "discover" \in LoopSteps
    BY DEF LoopSteps
  <2>4. loop' \in Loops /\ loop'.at = "discover"
    BY <1>0, <2>1, <2>3 DEF Loops
  <2> QED BY <2>2, <2>4
<1> HIDE DEF k
<1>2. CASE k \in Live /\ tasks' = IF tasks[k].phase = "gapCommitting" THEN tasks
                                  ELSE [tasks EXCEPT ![k] = Reobserved(@)]
  <2>1. k \in Keys /\ tasks[k] \in TaskRecords /\ tasks[k].phase # "none"
    BY <1>0, <1>2 DEF Live
  <2>2. Reobserved(tasks[k]) \in TaskRecords /\ Reobserved(tasks[k]).phase # "none"
    <3> DEFINE t == tasks[k]
               p == IF t.phase = "awaitManifest" /\ loop.gen >= t.required THEN "queued" ELSE t.phase
               gen == loop.gen
               run == playlist.run
               one == [t EXCEPT !.available = TRUE]
               two == [one EXCEPT !.seen = gen]
               three == [two EXCEPT !.run = run]
    <3>1. p \in Phases /\ p # "none" /\ gen \in Int /\ run \in Int /\ t \in TaskRecords
      BY <1>0, <2>1, PlaylistFields DEF TaskRecords, Phases, Parked, Loops
    <3>2. Reobserved(t) = Moved(three, p)
      BY DEF Reobserved, Moved
    <3> HIDE DEF t, p, gen, run
    <3>3. one \in TaskRecords
      BY <3>1, FieldForms
    <3>4. two \in TaskRecords
      <4> HIDE DEF one
      <4> QED BY <3>1, <3>3, FieldForms
    <3>5. three \in TaskRecords
      <4> HIDE DEF two
      <4> QED BY <3>1, <3>4, FieldForms
    <3> HIDE DEF three
    <3>6. Moved(three, p) \in TaskRecords /\ Moved(three, p).phase # "none"
      BY <3>1, <3>5, MovedForm
    <3> QED BY <3>2, <3>6 DEF t
  <2>3. tasks' \in [Keys -> TaskRecords] /\ Live' = Live /\ RemovedIsNotWoken'
    BY <1>0, <1>2, <2>1, <2>2 DEF Live, SchedulerInv, Safe, RemovedIsNotWoken
  <2> QED BY <1>0, <1>1, <2>3, LoopMoves
<1>3. CASE UNCHANGED tasks
  BY <1>0, <1>1, <1>3, LoopMovesAlone
<1>4. CASE Admissible(k) /\ tasks' = [tasks EXCEPT ![k] = NewTask]
  <2>1. NewTask \in TaskRecords /\ NewTask.phase # "none"
    BY <1>0, TaskForms DEF SchedulerInv, NewTask, TaskRecords
  <2>2. /\ tasks' \in [Keys -> TaskRecords] /\ Live' \subseteq Live \cup {k}
        /\ RemovedIsNotWoken'
    BY <1>0, <1>4, <2>1 DEF Live, SchedulerInv, Safe, RemovedIsNotWoken
  <2>3. k \notin CapturedKeys(root) \cup root.gaps
    BY <1>4 DEF Admissible, Settled, Captured, CapturedKeys
  <2>4. SettledIsNotRetried'
    BY <1>1, <2>2, <2>3 DEF SchedulerInv, Safe, SettledIsNotRetried, CapturedKeys
  <2> QED
    BY <1>0, <1>1, <2>2, <2>4
    DEF SchedulerInv, Shape, Safe, PublishProtects, EndsWithoutTasks, At
<1> QED BY <1>2, <1>3, <1>4 DEF Admit, k

LEMMA StopWhileFullKeeps ==
  ASSUME SchedulerInv, StopWhileFull
  PROVE  SchedulerInv'
<1> DEFINE rest == {<<root.epoch, s>> : s \in loop.todo \ playlist.marked}
<1>0. playlist \in Playlists /\ generation \in Int /\ loop \in Loops /\ root \in Roots
  BY DEF SchedulerInv, Shape
<1>1. rest \subseteq Spots
  BY <1>0 DEF Roots, Loops, Spots
<1>2. /\ root' = [root EXCEPT !.pending = @ \cup (rest \ CapturedKeys(root))]
      /\ loop' = [loop EXCEPT !.at = "close"] /\ UNCHANGED <<playlist, generation, tasks>>
  BY DEF StopWhileFull, sourceVars, Go
<1> HIDE DEF rest
<1>3. /\ root' \in Roots /\ root'.state = root.state
      /\ root'.segments = root.segments /\ root'.gaps = root.gaps
  BY <1>0, <1>1, <1>2 DEF Roots
<1>4. loop' \in Loops /\ loop'.at = "close"
  BY <1>0, <1>2 DEF Loops, LoopSteps
<1>5. tasks' \in [Keys -> TaskRecords] /\ Live' = Live /\ RemovedIsNotWoken'
  BY <1>2 DEF SchedulerInv, Shape, Safe, Live, RemovedIsNotWoken
<1> QED BY <1>0, <1>2, <1>3, <1>4, <1>5, LoopMoves

\* The steps that give the Recording its terminal state, and the join before it.
LEMMA EndingStepKeeps ==
  ASSUME SchedulerInv, PollFails \/ Complete \/ Join \/ Finish
  PROVE  SchedulerInv'
<1>0. /\ loop \in Loops /\ root \in Roots /\ tasks \in [Keys -> TaskRecords]
      /\ RemovedIsNotWoken /\ EndsWithoutTasks
  BY DEF SchedulerInv, Shape, Safe
<1>1. CASE PollFails \/ Complete \/ Finish
  <2>1. UNCHANGED <<playlist, generation, tasks>> /\ Live' = Live /\ RemovedIsNotWoken'
    BY <1>0, <1>1 DEF PollFails, Complete, Finish, sourceVars, Live, RemovedIsNotWoken
  <2>2. CASE PollFails
    <3>1. root' \in Roots /\ root'.state = "interrupted"
      <4>1. root' = [Finalized(root) EXCEPT !.state = "interrupted"]
        BY <2>2 DEF PollFails
      <4>2. Finalized(root) \in Roots
        BY <1>0, FinalizedForm
      <4>3. root'.state = "interrupted"
        BY <4>1, <4>2 DEF Roots
      <4> QED BY <1>0, <4>1, <4>3, FinalizedForm
    <3>2. loop' \in Loops /\ loop'.at = "close"
      BY <1>0, <2>2 DEF PollFails, Go, Loops, LoopSteps
    <3> QED BY <1>0, <2>1, <3>1, <3>2, NothingLeft
  <2>3. CASE Complete
    <3>1. root' \in Roots
      BY <1>0, <2>3, FinalizedForm DEF Complete
    <3>2. loop' \in Loops /\ loop'.at = "close" /\ Live = {}
      BY <1>0, <2>3 DEF Complete, Go, At, EndsWithoutTasks, Loops, LoopSteps
    <3> QED BY <1>0, <2>1, <3>1, <3>2, NothingLeft
  <2>4. CASE Finish
    <3>1. root' \in Roots
      <4>1. [root EXCEPT !.pending = {}, !.state = "interrupted"] \in Roots
        BY <1>0 DEF Roots
      <4> QED BY <1>0, <2>4, <4>1, FinalizedForm DEF Finish
    <3>2. loop' \in Loops /\ loop'.at = "done" /\ Live = {}
      BY <1>0, <2>4 DEF Finish, Go, At, EndsWithoutTasks, Loops, LoopSteps
    <3> QED BY <1>0, <2>1, <3>1, <3>2, NothingLeft
  <2> QED BY <1>1, <2>2, <2>3, <2>4
<1>2. CASE Join
  <2>1. root' \in Roots
    <3>1. LeftOver \subseteq Spots
      BY KeysAreSpots DEF LeftOver, Live
    <3> QED BY <1>0, <1>2, <3>1 DEF Join, Roots
  <2>2. loop' \in Loops /\ loop'.at = "finish" /\ UNCHANGED <<playlist, generation>>
    BY <1>0, <1>2 DEF Join, Go, Loops, LoopSteps, sourceVars
  <2>3. tasks' \in [Keys -> TaskRecords] /\ Live' = {} /\ RemovedIsNotWoken'
    <3>1. tasks' = [l \in Keys |-> NoTask] /\ NoTask.timer = "none"
      BY <1>2 DEF Join, NoTask
    <3> QED BY <3>1, TaskForms DEF Live, RemovedIsNotWoken
  <2> QED BY <1>0, <2>1, <2>2, <2>3, NothingLeft
<1> QED BY <1>1, <1>2

LEMMA StepKeeps ==
  ASSUME SchedulerInv, [Next]_vars
  PROVE  SchedulerInv'
<1>1. CASE StopRequest \/ WriteRoot \/ WriteRootFails \/ UNCHANGED vars
  <2>1. UNCHANGED <<playlist, generation, root, tasks, loop>>
    BY <1>1 DEF StopRequest, WriteRoot, WriteRootFails, vars, sourceVars
  <2> QED
    BY <2>1
    DEF SchedulerInv, Shape, Safe, PublishProtects, EndsWithoutTasks, RemovedIsNotWoken,
        SettledIsNotRetried, At, Live, CapturedKeys
<1>2. CASE \E k \in Keys : TaskStep(k)
  BY <1>2, TaskStepKeeps
<1>3. CASE LoopStep
  BY <1>3, BareLoopStepKeeps, PublishKeeps, ExpireKeeps, EndListKeeps, AdmitKeeps,
     StopWhileFullKeeps, EndingStepKeeps
  DEF LoopStep
<1> QED BY <1>1, <1>2, <1>3 DEF Next

LEMMA InitHolds == Init => SchedulerInv
<1> SUFFICES ASSUME Init PROVE SchedulerInv
  OBVIOUS
<1>1. Live = {} /\ RemovedIsNotWoken
  BY DEF Init, Live, RemovedIsNotWoken, NoTask
<1>2. playlist \in Playlists /\ generation \in Int /\ tasks \in [Keys -> TaskRecords]
  BY TaskForms DEF Init
<1>3. root \in Roots /\ loop \in Loops
  BY DEF Init, Roots, Loops, LoopSteps
<1> QED
  BY <1>1, <1>2, <1>3
  DEF Init, SchedulerInv, Shape, Safe, PublishProtects, EndsWithoutTasks, SettledIsNotRetried, At

-----------------------------------------------------------------------------
(* Results.                                                                *)

\* The inductive invariant of the scheduler.
THEOREM SchedulerInvHolds == Spec => []SchedulerInv
<1>1. SchedulerInv /\ [Next]_vars => SchedulerInv'
  BY StepKeeps
<1> QED BY <1>1, InitHolds, PTL DEF Spec

\* No sequence that was captured or reported as a gap has a task, whatever
\* order polls, timers, refreshes and commits come in, unless the loop failed.
THEOREM SettledIsNeverRetried == Spec => []SettledIsNotRetried
<1>1. SchedulerInv => SettledIsNotRetried
  BY DEF SchedulerInv, Safe
<1> QED BY <1>1, SchedulerInvHolds, PTL

-----------------------------------------------------------------------------
(* What was discovered is accounted for.                                   *)

\* The source epoch of a Recording counts the restarts of the numbering it
\* noticed; in the epoch of the playlist's own numbering there is nothing of
\* another, so that the epoch starts once for each restart.
Numbering ==
  /\ root.epoch \in 0..(playlist.run - 1)
  /\ \A k \in Live : tasks[k].run # 0
  /\ \A k \in Keys : k[1] > root.epoch => root.segments[k] = 0 /\ k \notin Live
  /\ root.epoch = playlist.run - 1 =>
       /\ root.last <= playlist.hi
       /\ \A k \in Keys : k[1] = root.epoch =>
            /\ root.segments[k] \in {0, playlist.run}
            /\ k \in Live => tasks[k].run = playlist.run

\* The loop waits for room in the table with a sequence in hand.
TodoLeft == loop.todo \subseteq Seqs /\ (At("admit") => loop.todo # {})

\* A Recording gets its terminal state from a loop that is at its end.
Ending == {"close", "join", "finish", "done"}
EndsStay == root.state # "recording" => loop.at \in Ending

NothingPends == root.state \in {"completed", "stopped"} => Live = {} /\ root.pending = {}

Accounted == CapturedKeys(root) \cup root.gaps \cup root.pending \cup Live
Accounts == root.state # "interrupted" => discovered \subseteq Accounted

AccountInv ==
  /\ SchedulerInv /\ discovered \subseteq Keys
  /\ Numbering /\ TodoLeft /\ EndsStay /\ NothingPends /\ Accounts

LEMMA MinIsIn ==
  ASSUME NEW S \in SUBSET Nat, S # {}
  PROVE  Min(S) \in S
<1> DEFINE R == OpToRel(<, Nat)
<1>1. IsWellFoundedOn(R, Nat)
  BY NatLessThanWellFounded
<1>2. \A x, y \in Nat : x < y => <<x, y>> \in R
  BY DEF OpToRel
<1> HIDE DEF R
<1>3. PICK x \in S : \A y \in S : ~(<<y, x>> \in R)
  BY <1>1, WFMin
<1>4. \A y \in S : ~(y < x)
  BY <1>2, <1>3
<1>5. \A y \in S : x =< y
  BY <1>4
<1> QED BY <1>3, <1>5 DEF Min

\* What a loop that admits a sequence has in hand is a key.
LEMMA NextIsKey ==
  ASSUME SchedulerInv, Numbering, TodoLeft
  PROVE  /\ \A s \in loop.todo : <<root.epoch, s>> \in Keys
         /\ At("admit") => Min(loop.todo) \in loop.todo
<1>1. playlist \in Playlists /\ root \in Roots
  BY DEF SchedulerInv, Shape
<1>2. root.epoch \in Epochs
  BY <1>1 DEF Numbering, Epochs, Playlists
<1>3. loop.todo \subseteq Nat
  BY DEF TodoLeft, Seqs
<1> QED BY <1>2, <1>3, MinIsIn DEF TodoLeft, Keys

\* A worker, a timer or the writer writes one task, and keeps where it was seen,
\* or settles and removes it.
LEMMA TaskStepForm ==
  ASSUME SchedulerInv, NEW k \in Keys, TaskStep(k)
  PROVE  /\ UNCHANGED <<playlist, loop, discovered>> /\ k \in Live
         /\ \A l \in Keys \ {k} : tasks'[l] = tasks[l]
         /\ \/ /\ tasks'[k].phase # "none" /\ tasks'[k].run = tasks[k].run
               /\ root' = root \/ root' = [root EXCEPT !.pending = @ \cup {k}]
            \/ PersistGap(k) \/ PersistSegment(k)
<1>0. tasks \in [Keys -> TaskRecords] /\ tasks[k] \in TaskRecords /\ RemovedIsNotWoken
  BY DEF SchedulerInv, Shape, Safe
<1>1. k \in Live /\ UNCHANGED <<playlist, loop, discovered>>
  <2>1. tasks[k].phase # "none"
    BY <1>0
    DEF TaskStep, Start, FetchDone, FetchStale, FetchFails, FetchRefused, Refresh, NoteRefresh,
        RefreshShared, RefreshFails, AwaitManifest, Abandon, TimerFires, PersistGap,
        PersistSegment, PersistFails, RemovedIsNotWoken
  <2> QED
    BY <2>1
    DEF TaskStep, Start, FetchDone, FetchStale, FetchFails, FetchRefused, Refresh, NoteRefresh,
        RefreshShared, RefreshFails, AwaitManifest, Abandon, TimerFires, PersistGap,
        PersistSegment, PersistFails, Live, sourceVars
<1>2. \A l \in Keys \ {k} : tasks'[l] = tasks[l]
  BY <1>0
  DEF TaskStep, Start, FetchDone, FetchStale, FetchFails, FetchRefused, Refresh, NoteRefresh,
      RefreshShared, RefreshFails, AwaitManifest, Abandon, TimerFires, PersistGap,
      PersistSegment, PersistFails, SetTask, Remove
<1>3. CASE FetchFails(k)
  <2> DEFINE t == tasks[k]
             u == [t EXCEPT !.gen = 0]
             tried == [u EXCEPT !.attempt = Min({@ + 1, SegmentAttempts})]
  <2>1. u \in TaskRecords /\ u.run = t.run
    BY <1>0 DEF TaskRecords
  <2>2. tried.run = u.run /\ [tried EXCEPT !.phase = "gapCommitting"].run = u.run
        /\ [tried EXCEPT !.phase = "gapCommitting"].phase = "gapCommitting"
        /\ [tried EXCEPT !.phase = "retryWait", !.timer = "live"].run = u.run
        /\ [tried EXCEPT !.phase = "retryWait", !.timer = "live"].phase = "retryWait"
        /\ GiveUp(u).run = u.run /\ GiveUp(u).phase = "gapCommitting"
    BY <2>1 DEF TaskRecords, GiveUp
  <2>3. /\ tasks'[k] \in {GiveUp(u), [tried EXCEPT !.phase = "gapCommitting"],
                          [tried EXCEPT !.phase = "retryWait", !.timer = "live"]}
        /\ root' = root \/ root' = [root EXCEPT !.pending = @ \cup {k}]
    BY <1>0, <1>3 DEF FetchFails, SetTask
  <2> HIDE DEF tried
  <2> QED BY <1>1, <1>2, <2>1, <2>2, <2>3
<1>4. CASE \/ Start(k) \/ FetchDone(k) \/ FetchStale(k) \/ FetchRefused(k)
           \/ Refresh(k) \/ NoteRefresh(k) \/ RefreshShared(k) \/ RefreshFails(k)
           \/ AwaitManifest(k) \/ Abandon(k) \/ TimerFires(k) \/ PersistFails(k)
  <2>1. root' = root
    BY <1>4
    DEF Start, FetchDone, FetchStale, FetchRefused, Refresh, NoteRefresh, RefreshShared,
        RefreshFails, AwaitManifest, Abandon, TimerFires, PersistFails
  <2>2. tasks[k].phase # "none"
    BY <1>1 DEF Live
  <2>3. \A p \in {"abandoned", "returning", "refreshing"} :
          /\ Released(tasks[k], p).run = tasks[k].run /\ Released(tasks[k], p).phase = p
          /\ Moved(tasks[k], p).run = tasks[k].run /\ Moved(tasks[k], p).phase = p
    BY <1>0 DEF Released, Moved, TaskRecords
  <2>4. tasks'[k].run = tasks[k].run /\ tasks'[k].phase # "none"
    <3>1. CASE Start(k)
      BY <1>0, <2>2, <3>1 DEF Start, SetTask, TaskRecords
    <3>2. CASE FetchDone(k)
      BY <1>0, <2>2, <3>2 DEF FetchDone, SetTask, TaskRecords
    <3>3. CASE FetchStale(k)
      BY <1>0, <2>2, <3>3 DEF FetchStale, SetTask, TaskRecords
    <3>4. CASE FetchRefused(k)
      <4>1. tasks'[k] \in {Released(tasks[k], "abandoned"), Released(tasks[k], "returning"),
                           Moved(tasks[k], "refreshing")}
        BY <1>0, <3>4 DEF FetchRefused, SetTask, Released, Moved
      <4> QED BY <4>1, <2>3
    <3>5. CASE Refresh(k)
      BY <1>0, <2>2, <3>5 DEF Refresh, SetTask, TaskRecords
    <3>6. CASE NoteRefresh(k) \/ RefreshShared(k)
      <4>1. tasks'[k] = Renewed(tasks[k])
        BY <1>0, <3>6 DEF NoteRefresh, RefreshShared, SetTask
      <4> QED BY <4>1, <1>0 DEF Renewed, TaskRecords
    <3>7. CASE RefreshFails(k) \/ Abandon(k)
      <4>1. tasks'[k] = Released(tasks[k], "abandoned")
        BY <1>0, <3>7 DEF RefreshFails, Abandon, SetTask, Released
      <4> QED BY <4>1, <2>3
    <3>8. CASE AwaitManifest(k)
      BY <1>0, <2>2, <3>8 DEF AwaitManifest, SetTask, TaskRecords
    <3>9. CASE TimerFires(k)
      BY <1>0, <2>2, <3>9 DEF TimerFires, SetTask, TaskRecords
    <3>10. CASE PersistFails(k)
      BY <1>0, <2>2, <3>10 DEF PersistFails, SetTask, TaskRecords
    <3> QED BY <1>4, <3>1, <3>2, <3>3, <3>4, <3>5, <3>6, <3>7, <3>8, <3>9, <3>10
  <2> QED BY <1>1, <1>2, <2>1, <2>4
<1> QED BY <1>1, <1>2, <1>3, <1>4 DEF TaskStep

\* The loop rewrites tasks, and keeps where they were seen.
LEMMA RewritesKeep ==
  ASSUME SchedulerInv, Expire \/ EndList
  PROVE  /\ UNCHANGED <<playlist, root, discovered>> /\ Live' = Live
         /\ \A k \in Keys : tasks'[k].run = tasks[k].run
<1>1. ASSUME NEW k \in Keys
      PROVE  /\ tasks'[k].run = tasks[k].run
             /\ tasks'[k].phase = "none" <=> tasks[k].phase = "none"
  <2>1. tasks[k] \in TaskRecords
    BY DEF SchedulerInv, Shape
  <2>2. /\ GiveUp(tasks[k]).run = tasks[k].run /\ GiveUp(tasks[k]).phase = "gapCommitting"
        /\ [tasks[k] EXCEPT !.phase = "queued"].run = tasks[k].run
        /\ [tasks[k] EXCEPT !.phase = "queued"].phase = "queued"
        /\ [tasks[k] EXCEPT !.available = FALSE].run = tasks[k].run
        /\ [tasks[k] EXCEPT !.available = FALSE].phase = tasks[k].phase
        /\ [tasks[k] EXCEPT !.available = TRUE].run = tasks[k].run
        /\ [tasks[k] EXCEPT !.available = TRUE].phase = tasks[k].phase
    BY <2>1 DEF TaskRecords, GiveUp
  <2>3. CASE Expire
    <3>1. /\ tasks'[k] \in {tasks[k], GiveUp(tasks[k]), [tasks[k] EXCEPT !.available = FALSE],
                            [tasks[k] EXCEPT !.available = TRUE]}
          /\ tasks[k].phase = "none" => tasks'[k] = tasks[k]
      BY <2>3 DEF Expire, Live
    <3> QED BY <2>2, <3>1
  <2>4. CASE EndList
    <3>1. \/ tasks'[k] = tasks[k]
          \/ /\ tasks[k].phase = "awaitManifest"
             /\ tasks'[k] \in {GiveUp(tasks[k]), [tasks[k] EXCEPT !.phase = "queued"]}
      BY <2>4 DEF EndList
    <3> QED BY <2>2, <3>1
  <2> QED BY <2>3, <2>4
<1>2. UNCHANGED <<playlist, root, discovered>>
  BY DEF Expire, EndList, sourceVars
<1> QED BY <1>1, <1>2 DEF Live

\* A step that keeps the playlist and the epoch: what it captures is a task's,
\* and the tasks it adds are of the playlist.
LEMMA NumberingKept ==
  ASSUME SchedulerInv, Numbering, playlist' = playlist,
         root'.epoch = root.epoch, root'.last = root.last,
         \A k \in Keys : \/ root'.segments[k] = root.segments[k]
                         \/ k \in Live /\ root'.segments[k] = tasks[k].run,
         \A k \in Live' : \/ k \in Live /\ tasks'[k].run = tasks[k].run
                          \/ k \in Keys /\ k[1] = root.epoch /\ tasks'[k].run = playlist.run
  PROVE  Numbering'
<1>0. playlist \in Playlists /\ root \in Roots /\ playlist.run \in Int /\ playlist.run # 0
  BY DEF SchedulerInv, Shape, Playlists
<1>1. Live \subseteq Keys /\ Live' \subseteq Keys
  BY DEF Live
<1>2. \A k \in Live' : tasks'[k].run # 0
  BY <1>0 DEF Numbering
<1>3. ASSUME NEW k \in Keys, k[1] > root.epoch
      PROVE  root'.segments[k] = 0 /\ k \notin Live'
  <2>1. k[1] # root.epoch
    BY <1>0, <1>3 DEF Keys, Epochs, Roots
  <2> QED BY <1>3, <2>1 DEF Numbering
<1>4. ASSUME root.epoch = playlist.run - 1, NEW k \in Keys, k[1] = root.epoch
      PROVE  /\ root'.segments[k] \in {0, playlist.run}
             /\ k \in Live' => tasks'[k].run = playlist.run
  BY <1>4 DEF Numbering
<1> QED BY <1>2, <1>3, <1>4 DEF Numbering

\* The source went on, or its numbering started again.
LEMMA PollKeepsNumbering ==
  ASSUME SchedulerInv, Numbering, PollManifest
  PROVE  Numbering'
<1>1. PICK p \in Playlists : Follows(playlist, p, loop.gen # generation) /\ playlist' = p
  BY DEF PollManifest
<1>2. UNCHANGED <<root, tasks>> /\ Live' = Live
  BY DEF PollManifest, Live
<1>3. /\ playlist.run \in Int /\ playlist.hi \in Int /\ p.run \in Int /\ p.hi \in Int
      /\ root.epoch \in Int /\ root.last \in Int
  BY PlaylistFields DEF SchedulerInv, Shape, Roots
<1>4. \/ p.run = playlist.run /\ p.hi >= playlist.hi
      \/ p.run = playlist.run + 1
  BY <1>1, <1>3 DEF Follows
<1>5. CASE p.run = playlist.run /\ p.hi >= playlist.hi
  BY <1>1, <1>2, <1>3, <1>5 DEF Numbering
<1>6. CASE p.run = playlist.run + 1
  <2>1. root'.epoch \in 0..(playlist'.run - 1) /\ root'.epoch # playlist'.run - 1
    BY <1>1, <1>2, <1>3, <1>6 DEF Numbering
  <2> QED BY <1>2, <2>1 DEF Numbering
<1> QED BY <1>4, <1>5, <1>6

\* An epoch starts when the playlist's numbering is not the epoch's, and the
\* new one is empty.
LEMMA PublishKeepsNumbering ==
  ASSUME SchedulerInv, Numbering, Publish
  PROVE  Numbering'
<1> DEFINE reset == SequenceReset(playlist)
           epoch == IF reset THEN root.epoch + 1 ELSE root.epoch
           last == IF reset THEN 0 ELSE root.last
           high == IF playlist.hi > last THEN playlist.hi ELSE last
<1>0. /\ root \in Roots /\ playlist \in Playlists /\ playlist.run \in Int /\ playlist.hi \in Int
      /\ root.epoch \in Int /\ root.last \in Int /\ playlist.hi > 0
  BY PlaylistFields DEF SchedulerInv, Shape, Roots, Playlists, Seqs
<1>1. UNCHANGED <<playlist, tasks>> /\ Live' = Live
  BY DEF Publish, sourceVars, Live
<1>2. root'.epoch = epoch /\ root'.last = high /\ root'.segments = root.segments
  <2>1. \E ps, gs : Observe(playlist, loop.protected) =
                      [root EXCEPT !.epoch = epoch, !.last = high, !.pending = ps, !.gaps = gs]
    BY DEF Observe
  <2> HIDE DEF epoch, high
  <2> QED BY <1>0, <2>1 DEF Publish, Roots
<1>3. reset => root.epoch # playlist.run - 1
  <2> SUFFICES ASSUME reset, root.epoch = playlist.run - 1
               PROVE  FALSE
    OBVIOUS
  <2>1. root.last <= playlist.hi
    BY DEF Numbering
  <2>2. PICK s \in Listed(playlist) : root.segments[<<root.epoch, s>>] \notin {0, playlist.run}
    BY <1>0, <2>1 DEF SequenceReset
  <2>3. <<root.epoch, s>> \in Keys
    <3>1. s \in Seqs
      BY <1>0 DEF Listed, Playlists, Seqs
    <3>2. root.epoch \in Epochs
      BY <1>0 DEF Numbering, Epochs, Playlists
    <3> QED BY <3>1, <3>2 DEF Keys
  <2> QED BY <2>2, <2>3 DEF Numbering
<1>4. CASE reset
  <2>1. epoch = root.epoch + 1 /\ high = playlist.hi
    BY <1>0, <1>4
  <2>2. epoch \in 0..(playlist.run - 1)
    BY <1>0, <1>3, <1>4, <2>1 DEF Numbering
  <2>3. ASSUME NEW k \in Keys, k[1] >= epoch PROVE root.segments[k] = 0 /\ k \notin Live
    <3>1. k[1] > root.epoch
      BY <1>0, <2>1, <2>3 DEF Keys, Epochs
    <3> QED BY <3>1 DEF Numbering
  <2>4. \A k \in Keys : k[1] > epoch \/ k[1] = epoch => k[1] >= epoch
    BY <1>0, <2>1 DEF Keys, Epochs
  <2> HIDE DEF epoch, high
  <2> QED BY <1>0, <1>1, <1>2, <2>1, <2>2, <2>3, <2>4 DEF Numbering
<1>5. CASE ~reset
  <2>1. epoch = root.epoch /\ (root.last <= playlist.hi => high = playlist.hi)
    BY <1>0, <1>5
  <2>2. root.epoch = playlist.run - 1 => high <= playlist.hi
    BY <1>0, <2>1 DEF Numbering
  <2> HIDE DEF epoch, high
  <2> QED BY <1>0, <1>1, <1>2, <2>1, <2>2 DEF Numbering
<1> QED BY <1>4, <1>5

LEMMA AdmitForm ==
  ASSUME SchedulerInv, Numbering, TodoLeft, Admit
  PROVE  \E s \in loop.todo :
           LET k == <<root.epoch, s>> IN
           /\ k \in Keys /\ UNCHANGED <<playlist, root>> /\ discovered' = discovered \cup {k}
           /\ Live \subseteq Live' /\ (k \in Live' \/ Settled(k))
           /\ \A l \in Live' : \/ l \in Live /\ tasks'[l].run = tasks[l].run
                               \/ l = k /\ tasks'[l].run = playlist.run
<1>1. PICK s : s = Min(loop.todo)
  OBVIOUS
<1>2. PICK k : k = <<root.epoch, s>>
  OBVIOUS
<1>3. s \in loop.todo /\ k \in Keys
  BY <1>1, <1>2, NextIsKey DEF Admit
<1>4. UNCHANGED <<playlist, root>> /\ discovered' = discovered \cup {k}
  BY <1>1, <1>2 DEF Admit, sourceVars
<1>5. tasks \in [Keys -> TaskRecords] /\ NewTask \in TaskRecords
  BY TaskForms DEF SchedulerInv, Shape
<1>6. NewTask.phase # "none" /\ NewTask.run = playlist.run
  BY <1>5, TaskForms DEF NewTask, TaskRecords
<1>7. \/ k \in Live /\ tasks' = IF tasks[k].phase = "gapCommitting" THEN tasks
                                ELSE [tasks EXCEPT ![k] = Reobserved(@)]
      \/ k \notin Live /\ Settled(k) /\ UNCHANGED tasks
      \/ Admissible(k) /\ tasks' = [tasks EXCEPT ![k] = NewTask]
  BY <1>1, <1>2 DEF Admit
<1>8. k \in Live => Reobserved(tasks[k]).phase # "none" /\ Reobserved(tasks[k]).run = playlist.run
  <2>1. tasks[k] \in TaskRecords
    BY <1>3, <1>5
  <2> QED BY <2>1 DEF Reobserved, Live, TaskRecords
<1>9. /\ Live \subseteq Live' /\ (k \in Live' \/ Settled(k))
      /\ \A l \in Live' : \/ l \in Live /\ tasks'[l].run = tasks[l].run
                          \/ l = k /\ tasks'[l].run = playlist.run
  <2>1. CASE k \in Live /\ tasks' = IF tasks[k].phase = "gapCommitting" THEN tasks
                                    ELSE [tasks EXCEPT ![k] = Reobserved(@)]
    BY <1>3, <1>5, <1>8, <2>1 DEF Live
  <2>2. CASE k \notin Live /\ Settled(k) /\ UNCHANGED tasks
    BY <2>2 DEF Live
  <2>3. CASE Admissible(k) /\ tasks' = [tasks EXCEPT ![k] = NewTask]
    BY <1>3, <1>5, <1>6, <2>3 DEF Live
  <2> QED BY <1>7, <2>1, <2>2, <2>3
<1> QED BY <1>2, <1>3, <1>4, <1>9

LEMMA NumberingKeeps ==
  ASSUME SchedulerInv, Numbering, TodoLeft, [Next]_vars
  PROVE  Numbering'
<1>0. root \in Roots /\ tasks \in [Keys -> TaskRecords] /\ NoTask.phase = "none"
  BY TaskForms DEF SchedulerInv, Shape
<1>1. CASE UNCHANGED <<playlist, root, tasks>>
  <2>1. Live' = Live
    BY <1>1 DEF Live
  <2> QED BY <1>1, <2>1, NumberingKept
<1>2. CASE PollManifest \/ Publish
  BY <1>2, PollKeepsNumbering, PublishKeepsNumbering
<1>3. CASE Expire \/ EndList
  <2>1. Live' \subseteq Keys
    BY DEF Live
  <2> QED BY <1>3, <2>1, RewritesKeep, NumberingKept
<1>4. CASE Admit
  <2>1. PICK s \in loop.todo :
           /\ <<root.epoch, s>> \in Keys /\ UNCHANGED <<playlist, root>>
           /\ \A l \in Live' : \/ l \in Live /\ tasks'[l].run = tasks[l].run
                               \/ l = <<root.epoch, s>> /\ tasks'[l].run = playlist.run
    BY <1>4, AdmitForm
  <2> QED BY <2>1, NumberingKept
<1>5. CASE StopWhileFull \/ PollFails \/ Complete \/ Finish
  <2>1. UNCHANGED <<playlist, tasks>> /\ Live' = Live
    BY <1>5 DEF StopWhileFull, PollFails, Complete, Finish, sourceVars, Live
  <2>2. root'.epoch = root.epoch /\ root'.last = root.last /\ root'.segments = root.segments
    BY <1>0, <1>5 DEF StopWhileFull, PollFails, Complete, Finish, Finalized, Roots
  <2> QED BY <2>1, <2>2, NumberingKept
<1>6. CASE Join
  <2>1. playlist' = playlist /\ Live' = {}
    BY <1>0, <1>6 DEF Join, sourceVars, Live
  <2>2. root'.epoch = root.epoch /\ root'.last = root.last /\ root'.segments = root.segments
    BY <1>0, <1>6 DEF Join, Roots
  <2> QED BY <2>1, <2>2, NumberingKept
<1>7. CASE \E k \in Keys : TaskStep(k)
  <2>1. PICK k \in Keys : TaskStep(k)
    BY <1>7
  <2>2. /\ playlist' = playlist /\ k \in Live
        /\ \A l \in Keys \ {k} : tasks'[l] = tasks[l]
        /\ \/ /\ tasks'[k].run = tasks[k].run
              /\ root' = root \/ root' = [root EXCEPT !.pending = @ \cup {k}]
           \/ PersistGap(k) \/ PersistSegment(k)
    BY <2>1, TaskStepForm
  <2>3. /\ root'.epoch = root.epoch /\ root'.last = root.last
        /\ \A l \in Keys : root'.segments[l] = root.segments[l] \/ (l = k /\ root'.segments[l] = tasks[l].run)
    <3>1. k \in Keys /\ tasks[k].run \in Int /\ root.segments \in [Keys -> Int]
      BY <1>0, <2>1 DEF TaskRecords, Roots
    <3>2. CASE PersistSegment(k)
      <4>1. PICK n \in Int : n = IF root.segments[k] = 0 THEN tasks[k].run ELSE root.segments[k]
        BY <3>1
      <4>2. root' = [root EXCEPT !.segments = [root.segments EXCEPT ![k] = n], !.pending = @ \ {k}]
        BY <3>2, <4>1 DEF PersistSegment
      <4>3. /\ root'.segments = [root.segments EXCEPT ![k] = n]
            /\ root'.epoch = root.epoch /\ root'.last = root.last
        BY <1>0, <4>2 DEF Roots
      <4> QED BY <3>1, <4>1, <4>3
    <3>3. CASE PersistGap(k)
      BY <1>0, <3>3 DEF PersistGap, Roots
    <3>4. CASE root' = root \/ root' = [root EXCEPT !.pending = @ \cup {k}]
      BY <1>0, <3>4 DEF Roots
    <3> QED BY <2>2, <3>2, <3>3, <3>4
  <2>4. PersistGap(k) \/ PersistSegment(k) => k \notin Live'
    BY <1>0 DEF PersistGap, PersistSegment, Remove, SetTask, Live
  <2>5. \A l \in Live' : l \in Live /\ tasks'[l].run = tasks[l].run
    BY <2>2, <2>4 DEF Live
  <2> QED BY <2>2, <2>3, <2>5, NumberingKept
<1>8. CASE LoopStep
  <2>1. \/ UNCHANGED <<playlist, root, tasks>> \/ PollManifest \/ Publish \/ Expire \/ EndList
        \/ Admit \/ StopWhileFull \/ PollFails \/ Complete \/ Finish \/ Join
    BY <1>8
    DEF LoopStep, RefreshByLoop, NoteByLoop, Outdated, Discover, Drained, LoopStops, Close,
        PauseAtBoundary, PauseTimesOut, DrainForHandover, ResumeHandover, CompleteHandover,
        sourceVars
  <2> QED BY <2>1, <1>1, <1>2, <1>3, <1>4, <1>5, <1>6
<1>9. CASE StopRequest \/ WriteRoot \/ WriteRootFails \/ UNCHANGED vars
  <2>1. UNCHANGED <<playlist, root, tasks>>
    BY <1>9 DEF StopRequest, WriteRoot, WriteRootFails, vars, sourceVars
  <2> QED BY <2>1, <1>1
<1> QED BY <1>7, <1>8, <1>9 DEF Next

LEMMA TodoKeeps ==
  ASSUME SchedulerInv, TodoLeft, [Next]_vars
  PROVE  TodoLeft'
<1>0. loop \in Loops /\ playlist \in Playlists
  BY DEF SchedulerInv, Shape
<1>1. Listed(playlist) \subseteq Seqs
  BY <1>0 DEF Playlists, Listed, Seqs
<1>2. CASE LoopStep
  <2>1. CASE Discover
    <3>1. At("discover")
      BY <2>1 DEF Discover
    <3>2. \/ \E at \in {"endlist", "poll"} : loop' = [loop EXCEPT !.at = at, !.expired = {}]
          \/ \E s : loop' = [loop EXCEPT !.todo = @ \ {s}, !.expired = {}]
          \/ loop.todo # {} /\ loop' = [loop EXCEPT !.at = "admit", !.expired = {}]
      BY <2>1 DEF Discover
    <3>3. CASE \E at \in {"endlist", "poll"} : loop' = [loop EXCEPT !.at = at, !.expired = {}]
      BY <1>0, <3>3 DEF TodoLeft, At, Loops
    <3>4. CASE \E s : loop' = [loop EXCEPT !.todo = @ \ {s}, !.expired = {}]
      BY <1>0, <3>1, <3>4 DEF TodoLeft, At, Loops
    <3>5. CASE loop.todo # {} /\ loop' = [loop EXCEPT !.at = "admit", !.expired = {}]
      BY <1>0, <3>5 DEF TodoLeft, At, Loops
    <3> QED BY <3>2, <3>3, <3>4, <3>5
  <2>2. CASE Expire
    <3>1. \E expired : loop' = [loop EXCEPT !.at = "discover", !.expired = expired, !.todo = Listed(playlist)]
      BY <2>2 DEF Expire
    <3> QED BY <1>0, <1>1, <3>1 DEF TodoLeft, At, Loops
  <2>3. CASE Admit
    <3>1. \E rest \in SUBSET loop.todo : loop' = [loop EXCEPT !.at = "discover", !.todo = rest]
      BY <2>3 DEF Admit
    <3> QED BY <1>0, <3>1 DEF TodoLeft, At, Loops
  <2>4. CASE PollManifest
    <3>1. \E at \in {"endlist", "publish"} : \E gen, protected :
            loop' = [loop EXCEPT !.at = at, !.gen = gen, !.protected = protected]
      BY <2>4 DEF PollManifest
    <3> QED BY <1>0, <3>1 DEF TodoLeft, At, Loops
  <2>5. CASE Outdated \/ LoopStops
    BY <1>0, <2>5 DEF Outdated, LoopStops, TodoLeft, At, Loops
  <2>6. CASE Publish \/ EndList \/ Drained
    <3>1. \E at \in {"close", "expire", "drain", "complete"} :
            \/ \E protected : loop' = [loop EXCEPT !.at = at, !.protected = protected]
            \/ \E expired : loop' = [loop EXCEPT !.at = at, !.expired = expired]
      BY <2>6 DEF Publish, EndList, Drained
    <3> QED BY <1>0, <3>1 DEF TodoLeft, At, Loops
  <2>7. CASE \/ RefreshByLoop \/ NoteByLoop \/ PollFails \/ StopWhileFull \/ Complete \/ Close
             \/ Join \/ Finish \/ PauseAtBoundary \/ PauseTimesOut \/ DrainForHandover
             \/ ResumeHandover \/ CompleteHandover
    <3>1. PICK at \in {"note", "poll", "close", "join", "finish", "done", "handover", "parked"} :
            loop' = [loop EXCEPT !.at = at]
      BY <2>7
      DEF RefreshByLoop, NoteByLoop, PollFails, StopWhileFull, Complete, Close, Join, Finish,
          PauseAtBoundary, PauseTimesOut, DrainForHandover, ResumeHandover, CompleteHandover, Go
    <3> QED BY <1>0, <3>1 DEF TodoLeft, At, Loops
  <2> QED BY <1>2, <2>1, <2>2, <2>3, <2>4, <2>5, <2>6, <2>7 DEF LoopStep
<1>3. CASE \E k \in Keys : TaskStep(k)
  <2>1. loop' = loop
    BY <1>3, TaskStepForm
  <2> QED BY <2>1 DEF TodoLeft, At
<1>4. CASE StopRequest \/ WriteRoot \/ WriteRootFails \/ UNCHANGED vars
  <2>1. loop' = loop
    BY <1>4 DEF StopRequest, WriteRoot, WriteRootFails, vars
  <2> QED BY <2>1 DEF TodoLeft, At
<1> QED BY <1>2, <1>3, <1>4 DEF Next

\* A task's step leaves the state of the Recording as it is.
LEMMA TaskKeepsState ==
  ASSUME SchedulerInv, NEW k \in Keys, TaskStep(k)
  PROVE  root'.state = root.state
<1>0. root \in Roots
  BY DEF SchedulerInv, Shape
<1> QED BY <1>0, TaskStepForm DEF PersistGap, PersistSegment, Roots

LEMMA EndsKeep ==
  ASSUME SchedulerInv, EndsStay, [Next]_vars
  PROVE  EndsStay'
<1>0. loop \in Loops /\ root \in Roots
  BY DEF SchedulerInv, Shape
<1>1. CASE LoopStep
  <2>1. CASE \/ PollManifest \/ RefreshByLoop \/ NoteByLoop \/ Outdated \/ Expire \/ Discover
             \/ Admit \/ EndList \/ Drained \/ LoopStops \/ PauseAtBoundary \/ PauseTimesOut
             \/ DrainForHandover \/ ResumeHandover \/ CompleteHandover
    <3>1. root' = root /\ loop.at \notin Ending
      BY <2>1
      DEF PollManifest, RefreshByLoop, NoteByLoop, Outdated, Expire, Discover, Admit, EndList,
          Drained, LoopStops, PauseAtBoundary, PauseTimesOut, DrainForHandover, ResumeHandover,
          CompleteHandover, At, Ending
    <3> QED BY <3>1 DEF EndsStay
  <2>2. CASE Publish
    <3>1. root'.state = root.state /\ loop.at \notin Ending
      BY <2>2, ObserveAdds DEF Publish, SchedulerInv, At, Ending
    <3> QED BY <3>1 DEF EndsStay
  <2>3. CASE PollFails \/ StopWhileFull \/ Complete \/ Close \/ Join \/ Finish
    <3>1. loop'.at \in Ending
      BY <1>0, <2>3 DEF PollFails, StopWhileFull, Complete, Close, Join, Finish, Go, Ending, Loops
    <3> QED BY <3>1 DEF EndsStay
  <2> QED BY <1>1, <2>1, <2>2, <2>3 DEF LoopStep
<1>2. CASE \E k \in Keys : TaskStep(k)
  <2>1. root'.state = root.state /\ loop' = loop
    BY <1>2, TaskStepForm, TaskKeepsState
  <2> QED BY <2>1 DEF EndsStay
<1>3. CASE StopRequest \/ WriteRoot \/ WriteRootFails \/ UNCHANGED vars
  BY <1>3 DEF StopRequest, WriteRoot, WriteRootFails, vars, EndsStay
<1> QED BY <1>1, <1>2, <1>3 DEF Next

\* No task is left when a Recording completes or is stopped, and what was
\* pending became gaps.
LEMMA NothingPendsKept ==
  ASSUME SchedulerInv, EndsStay, NothingPends, [Next]_vars
  PROVE  NothingPends'
<1>0. /\ loop \in Loops /\ root \in Roots /\ EndsWithoutTasks
      /\ tasks \in [Keys -> TaskRecords] /\ NoTask.phase = "none"
  BY TaskForms DEF SchedulerInv, Shape, Safe
<1>1. CASE UNCHANGED <<root, tasks>>
  BY <1>1 DEF NothingPends, Live
<1>2. CASE LoopStep
  <2>1. CASE \/ PollManifest \/ RefreshByLoop \/ NoteByLoop \/ Outdated \/ Discover \/ Drained
             \/ LoopStops \/ Close \/ PauseAtBoundary \/ PauseTimesOut \/ DrainForHandover
             \/ ResumeHandover \/ CompleteHandover
    <3>1. UNCHANGED <<root, tasks>>
      BY <2>1
      DEF PollManifest, RefreshByLoop, NoteByLoop, Outdated, Discover, Drained, LoopStops, Close,
          PauseAtBoundary, PauseTimesOut, DrainForHandover, ResumeHandover, CompleteHandover
    <3> QED BY <1>1, <3>1
  <2>2. CASE Publish \/ Expire \/ EndList \/ Admit \/ StopWhileFull
    <3>1. root.state = "recording"
      BY <2>2 DEF Publish, Expire, EndList, Admit, StopWhileFull, At, EndsStay, Ending
    <3>2. root'.state = root.state
      BY <1>0, <2>2, ObserveAdds
      DEF Publish, Expire, EndList, Admit, StopWhileFull, Roots, SchedulerInv
    <3> QED BY <3>1, <3>2 DEF NothingPends
  <2>3. CASE PollFails
    <3>1. Finalized(root) \in Roots
      BY <1>0, FinalizedForm
    <3>2. root'.state = "interrupted"
      BY <2>3, <3>1 DEF PollFails, Roots
    <3> QED BY <3>2 DEF NothingPends
  <2>4. CASE Complete \/ Finish
    <3>1. Live = {} /\ Live' = Live
      BY <1>0, <2>4 DEF Complete, Finish, At, EndsWithoutTasks, Live
    <3>2. Finalized(root).pending = {}
      BY <1>0 DEF Finalized, Roots
    <3>3. \A s : [Finalized(root) EXCEPT !.state = s].pending = {}
      BY <1>0, <3>2 DEF Finalized, Roots
    <3>4. root'.pending = {} \/ root' = root
      BY <1>0, <2>4, <3>3 DEF Complete, Finish, Roots
    <3> QED BY <3>1, <3>4 DEF NothingPends
  <2>5. CASE Join
    <3>1. Live' = {}
      BY <1>0, <2>5 DEF Join, Live
    <3>2. root'.state = root.state /\ root'.pending = root.pending \cup LeftOver
      BY <1>0, <2>5 DEF Join, Roots
    <3> QED BY <3>1, <3>2 DEF NothingPends, LeftOver
  <2> QED BY <1>2, <2>1, <2>2, <2>3, <2>4, <2>5 DEF LoopStep
<1>3. CASE \E k \in Keys : TaskStep(k)
  <2>1. PICK k \in Keys : TaskStep(k)
    BY <1>3
  <2>2. k \in Live /\ root'.state = root.state
    BY <2>1, TaskStepForm, TaskKeepsState
  <2> QED BY <2>2 DEF NothingPends
<1>4. CASE StopRequest \/ WriteRoot \/ WriteRootFails \/ UNCHANGED vars
  BY <1>1, <1>4 DEF StopRequest, WriteRoot, WriteRootFails, vars
<1> QED BY <1>2, <1>3, <1>4 DEF Next

\* A pending key is dropped by an observation only when it was captured, or
\* becomes a gap.
LEMMA ObserveKeeps ==
  ASSUME SchedulerInv, NEW protected, NEW k \in Keys,
         k \in CapturedKeys(root) \cup root.gaps \cup root.pending
  PROVE  LET r == Observe(playlist, protected) IN
         k \in CapturedKeys(r) \cup r.gaps \cup r.pending
<1> DEFINE reset == SequenceReset(playlist)
           epoch == IF reset THEN root.epoch + 1 ELSE root.epoch
           last == IF reset THEN 0 ELSE root.last
           dropped == IF reset THEN Dropped(protected) ELSE {}
           kept == root.pending \ dropped
           held == Held(epoch, protected)
           stale == {l \in kept : l[1] = epoch /\ l \in held /\ l \notin protected}
           left == {l \in kept : l[1] = epoch /\ l \notin held /\ l[2] \notin Listed(playlist) /\ playlist.hi > l[2]}
           skipped == IF last = 0 THEN {} ELSE (last + 1)..(playlist.lo - 1)
           missing == {<<epoch, s>> : s \in skipped \cup (playlist.marked \cap Listed(playlist))}
           gaps == root.gaps \cup (dropped \ CapturedKeys(root)) \cup ((missing \cup left) \ held)
           pending == kept \ (stale \cup left)
           high == IF playlist.hi > last THEN playlist.hi ELSE last
           r == Observe(playlist, protected)
<1>0. root \in Roots
  BY DEF SchedulerInv, Shape
<1>1. r = [root EXCEPT !.epoch = epoch, !.last = high, !.pending = pending, !.gaps = gaps]
  BY DEF Observe
<1>2. r.pending = pending /\ r.gaps = gaps /\ r.segments = root.segments
  <2> HIDE DEF r, epoch, high, pending, gaps
  <2> QED BY <1>0, <1>1 DEF Roots
<1>3. CapturedKeys(r) = CapturedKeys(root)
  BY <1>2 DEF CapturedKeys
<1>4. k \in CapturedKeys(root) \cup gaps \cup pending
  <2>1. CASE k \in dropped \/ k \in root.gaps \/ k \in CapturedKeys(root)
    <3> HIDE DEF dropped, missing, left, held, epoch
    <3> QED BY <2>1
  <2>2. CASE k \in stale
    <3>1. k \in held /\ k \notin protected
      BY <2>2
    <3> QED BY <3>1 DEF Held
  <2>3. CASE k \in left
    <3>1. k \notin held
      BY <2>3
    <3> HIDE DEF dropped, missing, left, held, epoch
    <3> QED BY <2>3, <3>1
  <2>4. CASE k \in root.pending /\ k \notin dropped \cup stale \cup left
    <3> HIDE DEF dropped, stale, left
    <3> QED BY <2>4
  <2> HIDE DEF dropped, stale, left, gaps, pending
  <2> QED BY <2>1, <2>2, <2>3, <2>4
<1> HIDE DEF r, gaps, pending
<1> QED BY <1>2, <1>3, <1>4 DEF r

LEMMA FinalizedKeeps ==
  ASSUME SchedulerInv, NEW s,
         NEW k \in CapturedKeys(root) \cup root.gaps \cup root.pending
  PROVE  LET r == [Finalized(root) EXCEPT !.state = s] IN
         r.state = s /\ k \in CapturedKeys(r) \cup r.gaps
<1> DEFINE r == [Finalized(root) EXCEPT !.state = s]
<1>0. root \in Roots
  BY DEF SchedulerInv, Shape
<1>1. /\ r.segments = root.segments /\ r.state = s
      /\ r.gaps = root.gaps \cup (root.pending \ CapturedKeys(root))
  BY <1>0 DEF Finalized, Roots
<1>2. CapturedKeys(r) = CapturedKeys(root)
  BY <1>1 DEF CapturedKeys
<1> HIDE DEF r
<1> QED BY <1>1, <1>2 DEF r

\* A key that was discovered does not get lost: a task that ends leaves a
\* segment, a gap or something pending.
LEMMA AccountedStays ==
  ASSUME AccountInv, [Next]_vars, NEW k \in Keys, k \in Accounted, root'.state # "interrupted"
  PROVE  k \in Accounted'
<1>0. /\ SchedulerInv /\ Numbering /\ TodoLeft
      /\ loop \in Loops /\ root \in Roots /\ EndsWithoutTasks
      /\ tasks \in [Keys -> TaskRecords] /\ NoTask.phase = "none"
  BY TaskForms DEF AccountInv, SchedulerInv, Shape, Safe
<1>1. CASE UNCHANGED <<root, tasks>>
  BY <1>1 DEF Accounted, Live, CapturedKeys
<1>2. CASE LoopStep
  <2>1. CASE \/ PollManifest \/ RefreshByLoop \/ NoteByLoop \/ Outdated \/ Discover \/ Drained
             \/ LoopStops \/ Close \/ PauseAtBoundary \/ PauseTimesOut \/ DrainForHandover
             \/ ResumeHandover \/ CompleteHandover
    <3>1. UNCHANGED <<root, tasks>>
      BY <2>1
      DEF PollManifest, RefreshByLoop, NoteByLoop, Outdated, Discover, Drained, LoopStops, Close,
          PauseAtBoundary, PauseTimesOut, DrainForHandover, ResumeHandover, CompleteHandover
    <3> QED BY <1>1, <3>1
  <2>2. CASE Publish
    <3>1. root' = Observe(playlist, loop.protected) /\ Live' = Live
      BY <2>2 DEF Publish, Live
    <3>2. k \in Live \/ k \in CapturedKeys(root) \cup root.gaps \cup root.pending
      BY DEF Accounted
    <3> QED BY <1>0, <3>1, <3>2, ObserveKeeps DEF Accounted
  <2>3. CASE Expire \/ EndList
    <3>1. root' = root /\ Live' = Live
      BY <1>0, <2>3, RewritesKeep
    <3> QED BY <3>1 DEF Accounted
  <2>4. CASE Admit
    <3>1. root' = root /\ Live \subseteq Live'
      BY <1>0, <2>4, AdmitForm
    <3> QED BY <3>1 DEF Accounted
  <2>5. CASE StopWhileFull
    <3>1. /\ Live' = Live /\ root'.segments = root.segments /\ root'.gaps = root.gaps
          /\ root.pending \subseteq root'.pending
      BY <1>0, <2>5 DEF StopWhileFull, Roots, Live
    <3> QED BY <3>1 DEF Accounted, CapturedKeys
  <2>6. CASE PollFails
    <3>1. Finalized(root) \in Roots
      BY <1>0, FinalizedForm
    <3> QED BY <2>6, <3>1 DEF PollFails, Roots
  <2>7. CASE Complete \/ Finish
    <3>1. Live = {}
      BY <1>0, <2>7 DEF Complete, Finish, At, EndsWithoutTasks
    <3>2. k \in CapturedKeys(root) \cup root.gaps \cup root.pending
      BY <3>1 DEF Accounted
    <3>3. /\ [root EXCEPT !.pending = {}, !.state = "interrupted"].state = "interrupted"
          /\ [Finalized(root) EXCEPT !.state = "interrupted"].state = "interrupted"
      BY <1>0, FinalizedForm DEF Roots
    <3>4. \/ UNCHANGED <<root, tasks>>
          \/ \E s : root' = [Finalized(root) EXCEPT !.state = s]
      BY <2>7, <3>3 DEF Complete, Finish
    <3>5. CASE \E s : root' = [Finalized(root) EXCEPT !.state = s]
      <4>1. PICK s : root' = [Finalized(root) EXCEPT !.state = s]
        BY <3>5
      <4>2. k \in CapturedKeys(root') \cup root'.gaps
        BY <1>0, <3>2, <4>1, FinalizedKeeps
      <4> QED BY <4>2 DEF Accounted
    <3> QED BY <1>1, <3>4, <3>5
  <2>8. CASE Join
    <3>1. /\ root'.segments = root.segments /\ root'.gaps = root.gaps
          /\ root'.pending = root.pending \cup LeftOver
      BY <1>0, <2>8 DEF Join, Roots
    <3>2. CapturedKeys(root') = CapturedKeys(root)
      BY <3>1 DEF CapturedKeys
    <3>3. k \in Live => k \in CapturedKeys(root) \cup LeftOver
      BY DEF LeftOver, Captured, CapturedKeys
    <3> QED BY <3>1, <3>2, <3>3 DEF Accounted
  <2> QED BY <1>2, <2>1, <2>2, <2>3, <2>4, <2>5, <2>6, <2>7, <2>8 DEF LoopStep
<1>3. CASE \E l \in Keys : TaskStep(l)
  <2>1. PICK l \in Keys : TaskStep(l)
    BY <1>3
  <2>2. /\ l \in Live
        /\ \A m \in Keys \ {l} : tasks'[m] = tasks[m]
        /\ \/ /\ tasks'[l].phase # "none"
              /\ root' = root \/ root' = [root EXCEPT !.pending = @ \cup {l}]
           \/ PersistGap(l) \/ PersistSegment(l)
    BY <1>0, <2>1, TaskStepForm
  <2>3. CASE tasks'[l].phase # "none" /\ (root' = root \/ root' = [root EXCEPT !.pending = @ \cup {l}])
    <3>1. Live \subseteq Live'
      BY <2>2, <2>3 DEF Live
    <3>2. /\ root'.segments = root.segments /\ root'.gaps = root.gaps
          /\ root.pending \subseteq root'.pending
      BY <1>0, <2>3 DEF Roots
    <3> QED BY <3>1, <3>2 DEF Accounted, CapturedKeys
  <2>4. Live \ {l} \subseteq Live'
    BY <2>2 DEF Live
  <2>5. CASE PersistGap(l)
    <3>1. /\ root'.segments = root.segments /\ root'.pending = root.pending \ {l}
          /\ root'.gaps = root.gaps \cup ({l} \ CapturedKeys(root))
      BY <1>0, <2>5 DEF PersistGap, Roots
    <3>2. CapturedKeys(root') = CapturedKeys(root)
      BY <3>1 DEF CapturedKeys
    <3> QED BY <2>4, <3>1, <3>2 DEF Accounted
  <2>6. CASE PersistSegment(l)
    <3>1. tasks[l].run \in Int /\ root.segments \in [Keys -> Int] /\ tasks[l].run # 0
      BY <1>0, <2>2 DEF TaskRecords, Roots, Numbering
    <3>2. PICK n \in Int : n = IF root.segments[l] = 0 THEN tasks[l].run ELSE root.segments[l]
      BY <3>1
    <3>3. root' = [root EXCEPT !.segments = [root.segments EXCEPT ![l] = n], !.pending = @ \ {l}]
      BY <2>6, <3>2 DEF PersistSegment
    <3>4. /\ root'.segments = [root.segments EXCEPT ![l] = n]
          /\ root'.gaps = root.gaps /\ root'.pending = root.pending \ {l}
      BY <1>0, <3>3 DEF Roots
    <3>5. CapturedKeys(root) \cup {l} \subseteq CapturedKeys(root')
      BY <3>1, <3>2, <3>4 DEF CapturedKeys
    <3> QED BY <2>4, <3>4, <3>5 DEF Accounted
  <2> QED BY <2>2, <2>3, <2>5, <2>6
<1>4. CASE StopRequest \/ WriteRoot \/ WriteRootFails \/ UNCHANGED vars
  BY <1>1, <1>4 DEF StopRequest, WriteRoot, WriteRootFails, vars
<1> QED BY <1>2, <1>3, <1>4 DEF Next

\* What is discovered has a task, was settled before, or becomes pending.
LEMMA DiscoveredIsAccounted ==
  ASSUME AccountInv, [Next]_vars, NEW k \in discovered', k \notin discovered
  PROVE  k \in Keys /\ k \in Accounted'
<1>0. /\ SchedulerInv /\ Numbering /\ TodoLeft /\ root \in Roots
  BY DEF AccountInv, SchedulerInv, Shape
<1>1. Admit \/ StopWhileFull
  <2>1. CASE LoopStep
    BY <2>1
    DEF LoopStep, PollManifest, RefreshByLoop, NoteByLoop, PollFails, Outdated, Publish, Expire,
        Discover, EndList, Drained, Complete, LoopStops, Close, Join, Finish, PauseAtBoundary,
        PauseTimesOut, DrainForHandover, ResumeHandover, CompleteHandover
  <2>2. CASE \E l \in Keys : TaskStep(l)
    BY <1>0, <2>2, TaskStepForm
  <2>3. CASE StopRequest \/ WriteRoot \/ WriteRootFails \/ UNCHANGED vars
    BY <2>3 DEF StopRequest, WriteRoot, WriteRootFails, vars
  <2> QED BY <2>1, <2>2, <2>3 DEF Next
<1>2. CASE Admit
  <2>1. PICK s \in loop.todo :
          /\ <<root.epoch, s>> \in Keys /\ root' = root
          /\ discovered' = discovered \cup {<<root.epoch, s>>}
          /\ <<root.epoch, s>> \in Live' \/ Settled(<<root.epoch, s>>)
    BY <1>0, <1>2, AdmitForm
  <2>2. k = <<root.epoch, s>>
    BY <2>1
  <2>3. k \in Keys /\ root' = root /\ (k \in Live' \/ Settled(k))
    BY <2>1, <2>2
  <2> QED BY <2>3 DEF Accounted, Settled, Captured, CapturedKeys
<1>3. CASE StopWhileFull
  <2> DEFINE rest == {<<root.epoch, s>> : s \in loop.todo \ playlist.marked}
  <2>1. k \in rest /\ rest \subseteq Keys
    BY <1>0, <1>3, NextIsKey DEF StopWhileFull
  <2>2. /\ root'.segments = root.segments
        /\ root'.pending = root.pending \cup (rest \ CapturedKeys(root))
    <3> HIDE DEF rest
    <3>1. root' = [root EXCEPT !.pending = @ \cup (rest \ CapturedKeys(root))]
      BY <1>3 DEF StopWhileFull, rest
    <3> QED BY <1>0, <3>1 DEF Roots
  <2>3. CapturedKeys(root') = CapturedKeys(root)
    BY <2>2 DEF CapturedKeys
  <2> HIDE DEF rest
  <2> QED BY <2>1, <2>2, <2>3 DEF Accounted
<1> QED BY <1>1, <1>2, <1>3

\* An interrupted Recording stays interrupted.
LEMMA InterruptedStays ==
  ASSUME SchedulerInv, EndsStay, root.state = "interrupted", [Next]_vars
  PROVE  root'.state = "interrupted"
<1>0. loop \in Loops /\ root \in Roots
  BY DEF SchedulerInv, Shape
<1>1. loop.at \in Ending
  BY <1>0 DEF EndsStay
<1>2. CASE LoopStep
  <2>1. Close \/ Join \/ Finish
    BY <1>1, <1>2
    DEF LoopStep, PollManifest, RefreshByLoop, NoteByLoop, PollFails, Outdated, Publish, Expire,
        Discover, Admit, StopWhileFull, EndList, Drained, Complete, LoopStops, PauseAtBoundary,
        PauseTimesOut, DrainForHandover, ResumeHandover, CompleteHandover, At, Ending
  <2>2. Finalized(root) \in Roots
    BY <1>0, FinalizedForm
  <2>3. CASE Finish
    BY <1>0, <2>2, <2>3 DEF Finish, Roots
  <2>4. CASE Close \/ Join
    BY <1>0, <2>4 DEF Close, Join, Roots
  <2> QED BY <2>1, <2>3, <2>4
<1>3. CASE \E l \in Keys : TaskStep(l)
  BY <1>0, <1>3, TaskKeepsState
<1>4. CASE StopRequest \/ WriteRoot \/ WriteRootFails \/ UNCHANGED vars
  BY <1>4 DEF StopRequest, WriteRoot, WriteRootFails, vars
<1> QED BY <1>2, <1>3, <1>4 DEF Next

LEMMA AccountStep ==
  ASSUME AccountInv, [Next]_vars
  PROVE  AccountInv'
<1>0. /\ SchedulerInv /\ discovered \subseteq Keys /\ Numbering /\ TodoLeft
      /\ EndsStay /\ NothingPends /\ Accounts
      /\ loop \in Loops /\ root \in Roots
  BY DEF AccountInv, SchedulerInv, Shape
<1>1. SchedulerInv' /\ Numbering' /\ TodoLeft' /\ EndsStay' /\ NothingPends'
  BY <1>0, StepKeeps, NumberingKeeps, TodoKeeps, EndsKeep, NothingPendsKept
<1>2. discovered' \subseteq Keys
  BY <1>0, DiscoveredIsAccounted
<1>3. root'.state # "interrupted" => root.state # "interrupted"
  BY <1>0, InterruptedStays
<1>4. Accounts'
  <2>1. ASSUME root'.state # "interrupted", NEW k \in discovered' PROVE k \in Accounted'
    <3>1. CASE k \in discovered
      <4>1. k \in Keys /\ k \in Accounted
        BY <1>0, <1>3, <2>1, <3>1 DEF Accounts
      <4> QED BY <2>1, <4>1, AccountedStays
    <3> QED BY <3>1, DiscoveredIsAccounted
  <2> QED BY <2>1 DEF Accounts
<1> QED BY <1>1, <1>2, <1>4 DEF AccountInv

LEMMA AccountInit == Init => AccountInv
<1> SUFFICES ASSUME Init PROVE AccountInv
  OBVIOUS
<1>1. /\ Live = {} /\ discovered = {} /\ loop.todo = {} /\ loop.at = "poll"
      /\ root.state = "recording" /\ root.epoch = 0 /\ root.last = 0
      /\ \A k \in Keys : root.segments[k] = 0
  BY DEF Init, Live, NoTask
<1>2. playlist.run = 1 /\ playlist.hi = 1
  BY DEF Init
<1>3. Numbering
  BY <1>1, <1>2 DEF Numbering
<1> QED
  BY <1>1, <1>3, InitHolds
  DEF AccountInv, TodoLeft, EndsStay, NothingPends, Accounts, At

\* What a Recording accounts for, with the epochs that its accounts rest on.
THEOREM AccountInvHolds == Spec => []AccountInv
<1>1. AccountInv /\ [Next]_vars => AccountInv'
  BY AccountStep
<1> QED BY <1>1, AccountInit, PTL DEF Spec

\* The source epoch advances only with the source: there are never more epochs
\* than times the numbering started again, however polls are lost to a refresh,
\* and in the epoch of the numbering the playlist has, nothing is of another.
THEOREM EpochsAreRestarts == Spec => []Numbering
<1>1. AccountInv => Numbering
  BY DEF AccountInv
<1> QED BY <1>1, AccountInvHolds, PTL

\* A Recording that completed or was stopped accounts for every sequence it
\* discovered, as a segment or as a gap, whatever was in flight, failed, waited
\* for a playlist or found the table full when the loop ended.
THEOREM EndsAccountForAll == Spec => []EndAccountsForAll
<1>1. AccountInv => EndAccountsForAll
  <2> SUFFICES ASSUME AccountInv, root.state \in {"completed", "stopped"}
               PROVE  discovered \subseteq CapturedKeys(root) \cup root.gaps /\ root.pending = {} /\ Live = {}
    BY DEF EndAccountsForAll
  <2>1. root.pending = {} /\ Live = {}
    BY DEF AccountInv, NothingPends
  <2>2. discovered \subseteq Accounted
    BY DEF AccountInv, Accounts
  <2> QED BY <2>1, <2>2 DEF Accounted
<1> QED BY <1>1, AccountInvHolds, PTL

-----------------------------------------------------------------------------
(* What is captured is not also a gap.                                     *)

LEMMA NoGapKeeps ==
  ASSUME AccountInv, CapturedIsNoGap, [Next]_vars
  PROVE  CapturedIsNoGap'
<1>0. /\ root \in Roots /\ loop \in Loops /\ playlist \in Playlists
      /\ SchedulerInv /\ EndsStay
  BY DEF AccountInv, SchedulerInv, Shape
<1>1. SUFFICES ASSUME root'.state # "interrupted"
               PROVE  \A k \in Keys : ~(root'.segments[k] # 0 /\ k \in root'.gaps)
  BY DEF CapturedIsNoGap, CapturedKeys
<1>2. /\ root.state # "interrupted"
      /\ \A k \in Keys : ~(root.segments[k] # 0 /\ k \in root.gaps)
  BY <1>0, <1>1, InterruptedStays DEF CapturedIsNoGap, CapturedKeys
<1>3. /\ Finalized(root) \in Roots /\ Finalized(root).segments = root.segments
      /\ \A k \in Keys : k \in Finalized(root).gaps => k \in root.gaps \/ root.segments[k] = 0
  BY <1>0, FinalizedForm DEF Finalized, CapturedKeys, Roots
<1>4. SUFFICES ASSUME NEW k \in Keys, root'.segments[k] # 0, k \in root'.gaps
               PROVE  root.segments[k] # 0 /\ k \in root.gaps
  BY <1>2
<1>5. CASE UNCHANGED <<root>> \/ \E p : root' = [root EXCEPT !.pending = p]
  BY <1>0, <1>4, <1>5 DEF Roots
<1>6. CASE Publish
  BY <1>0, <1>4, <1>6, ObserveAdds DEF Publish, SchedulerInv, Captured
<1>7. CASE Complete \/ Finish \/ PollFails
  BY <1>0, <1>3, <1>4, <1>7 DEF Complete, Finish, PollFails, Roots
<1>8. CASE \E l \in Keys : PersistGap(l)
  BY <1>0, <1>4, <1>8 DEF PersistGap, CapturedKeys, Roots
<1>9. CASE \E l \in Keys : PersistSegment(l)
  <2>1. PICK l \in Keys : PersistSegment(l)
    BY <1>9
  <2>2. l \in Live
    BY <2>1 DEF PersistSegment, Live
  <2>3. l \notin root.gaps
    BY <1>0, <1>2, <2>2 DEF SchedulerInv, Safe, SettledIsNotRetried
  <2>4. root'.gaps = root.gaps /\ \A m \in Keys \ {l} : root'.segments[m] = root.segments[m]
    BY <1>0, <2>1 DEF PersistSegment, Roots
  <2> QED BY <1>4, <2>3, <2>4
<1>10. CASE \E l \in Keys : TaskStep(l)
  <2>1. PICK l \in Keys : TaskStep(l)
    BY <1>10
  <2>2. \/ UNCHANGED <<root>> \/ (\E p : root' = [root EXCEPT !.pending = p])
        \/ PersistGap(l) \/ PersistSegment(l)
    BY <2>1
    DEF TaskStep, Start, FetchDone, FetchStale, FetchFails, FetchRefused, Refresh, NoteRefresh,
        RefreshShared, RefreshFails, AwaitManifest, Abandon, TimerFires, PersistFails
  <2> QED BY <2>2, <1>5, <1>8, <1>9
<1>11. CASE LoopStep
  <2>1. \/ UNCHANGED <<root>> \/ (\E p : root' = [root EXCEPT !.pending = p])
        \/ Publish \/ Complete \/ Finish \/ PollFails
    BY <1>0, <1>11
    DEF LoopStep, PollManifest, RefreshByLoop, NoteByLoop, Outdated, Expire, Discover,
        Admit, StopWhileFull, EndList, Drained, LoopStops, Close, Join, PauseAtBoundary,
        PauseTimesOut, DrainForHandover, ResumeHandover, CompleteHandover
  <2> QED BY <2>1, <1>5, <1>6, <1>7
<1>12. CASE StopRequest \/ WriteRoot \/ WriteRootFails \/ UNCHANGED vars
  <2>1. UNCHANGED <<root>>
    BY <1>12 DEF StopRequest, WriteRoot, WriteRootFails, vars
  <2> QED BY <2>1, <1>5
<1> QED BY <1>10, <1>11, <1>12 DEF Next

\* A captured segment is never also reported as a gap, whatever the order of
\* commits, retries, expiries, failures of polls and of fetches, and the terminal
\* update, unless the Recording was interrupted.
THEOREM CapturedIsNeverGap == Spec => []CapturedIsNoGap
<1>1. Init => AccountInv /\ CapturedIsNoGap
  BY AccountInit DEF Init, CapturedIsNoGap
<1>2. AccountInv /\ CapturedIsNoGap /\ [Next]_vars => AccountInv' /\ CapturedIsNoGap'
  BY AccountStep, NoGapKeeps
<1> QED BY <1>1, <1>2, PTL DEF Spec
=============================================================================
