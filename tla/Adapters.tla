------------------------------ MODULE Adapters ------------------------------
(* One adapter of a Control: its supervised process, the interactive resolution
   workflows it answers (adapterhost), the configuration and state documents
   they write (pluginconfig), and the terminal events that reach the workflow
   history of the management store.

   Everything that talks to the adapter holds the entry's operation lock (opMu),
   one call at a time. What a call has brought back is used after that lock is
   gone: meanwhile the adapter may be restarted, disabled or closed, the
   workflow canceled or expired. A workflow belongs to the process generation
   that began it.

   The protocol's payloads are abstracted to the five kinds of answer the Host
   tells apart, the terminal event of a workflow to its place in the queue. *)
EXTENDS Integers, FiniteSets, Sequences

CONSTANTS
  Workflows,       \* the resolutions that are asked for
  Earlier,         \* one that ended before and is not in the history yet
  NoOne,
  MaxProcesses,    \* generations of the adapter process
  MaxActive,       \* maxActiveWorkflows
  MaxPending,      \* maxPendingWorkflowLifecycleEvents
  MaxTransitions,  \* maxWorkflowTransitions
  MaxControls, MaxContinues, MaxVisits, MaxFaults  \* bounds

ASSUME AdaptersAssumption ==
  /\ {"control", "visit", NoOne, Earlier} \cap Workflows = {}
  /\ NoOne \notin {"control", "visit"}
  /\ {MaxProcesses, MaxPending} \subseteq Nat \ {0}
  /\ {MaxActive, MaxTransitions, MaxControls, MaxContinues, MaxVisits, MaxFaults} \subseteq Nat

VARIABLES
  closed,    \* Host.closed, and whether Close has stopped the process
  entry,     \* the adapter: gates, process, generation, back-off
  lock,      \* the holder of entry.opMu
  sessions,  \* Host.workflows
  starts,    \* the begun resolutions that hold a reservation
  call,      \* the request in flight of each workflow
  prompts,   \* interactions.states: the workflows whose prompt is shown
  queue,     \* lifecycleQueue
  issued,    \* the events queued so far for each workflow
  history,   \* the persisted workflow history, terminal events only
  control,   \* the management operation that holds the adapter
  visit,     \* a call of the adapter that belongs to no workflow
  docs,      \* of configuration and adapter state, the slots a failed batch left written
  used       \* the bounded steps already taken

sessionVars == <<sessions, prompts, queue, issued>>
vars == <<closed, entry, lock, sessionVars, starts, call, history, control, visit, docs, used>>

\* The adapter's entry: its gates, the back-off with whether a restart was tried,
\* and the process with its generation.
Entries ==
  [disabled: BOOLEAN, restarting: BOOLEAN, rejected: BOOLEAN, backoff: BOOLEAN,
   tried: BOOLEAN, gen: 1 .. MaxProcesses, proc: {"none", "up", "dead"}]

Slots == 1 .. 4  \* values and secrets of the plugin scope, then of the resource scope
Answers == {"discovered", "challenge", "resolved", "error", "failed"}

Init ==
  /\ closed = "open"
  /\ entry \in [disabled: BOOLEAN, restarting: {FALSE}, rejected: {FALSE}, backoff: {FALSE},
                tried: {FALSE}, gen: {1}, proc: {"none", "up"}]
  /\ entry.disabled <=> entry.proc = "none"
  /\ lock = NoOne
  /\ sessions = << >> /\ starts = {} /\ prompts = {}
  /\ call = [w \in Workflows |-> [pc |-> "new", continues |-> FALSE, gen |-> 0, steps |-> 0,
                                  canceled |-> FALSE, answer |-> "failed"]]
  /\ queue = << [w |-> Earlier, n |-> 1] >>
  /\ issued = [w \in Workflows \cup {Earlier} |-> IF w = Earlier THEN 1 ELSE 0] /\ history = {}
  /\ control = "idle" /\ visit = "none"
  /\ docs = [store \in {"config", "state"} |-> {}]
  /\ used = [visits |-> 0, controls |-> 0, continues |-> 0, faults |-> 0]

Live == DOMAIN sessions
Spend(n) == used.faults + n <= MaxFaults /\ used' = [used EXCEPT !.faults = @ + n]

(* ---- the process of the adapter ---- *)

(* Fault: a call that passed entryFor is not checked again under the lock. *)
EnsuredUnchecked ==
  IF closed = "open" /\ ~entry.rejected /\ entry.proc = "none" /\ ~entry.backoff
  THEN {[ok |-> TRUE, entry |-> [entry EXCEPT !.proc = "up", !.gen = g], faults |-> 0] :
          g \in {entry.gen + 1} \cap 1 .. MaxProcesses}
  ELSE {[ok |-> entry.proc = "up", entry |-> entry, faults |-> 0]}

(* What ensureProcess may come to, called with the lock. A first death is
   replaced at once, a later one after the back-off; a replacement that
   describes itself differently is rejected for good. *)
Ensured ==
  LET found == [entry EXCEPT !.proc = "none", !.backoff = @ \/ (entry.proc = "dead" /\ entry.tried)]
      next == [found EXCEPT !.tried = TRUE]
  IN IF closed # "open" \/ entry.disabled \/ entry.restarting \/ entry.rejected
     THEN {[ok |-> FALSE, entry |-> entry, faults |-> 0]}
     ELSE IF entry.proc = "up"
     THEN {[ok |-> TRUE, entry |-> [entry EXCEPT !.tried = t], faults |-> 0] : t \in {entry.tried, FALSE}}
     ELSE IF found.backoff THEN {[ok |-> FALSE, entry |-> found, faults |-> 0]}
     ELSE {[ok |-> TRUE, entry |-> [next EXCEPT !.proc = "up", !.gen = g], faults |-> 0] :
              g \in {entry.gen + 1} \cap 1 .. MaxProcesses}
          \cup {[ok |-> FALSE, entry |-> e, faults |-> IF entry.gen < MaxProcesses THEN 1 ELSE 0] :
                  e \in {[next EXCEPT !.rejected = TRUE], [next EXCEPT !.backoff = TRUE]}}

(* entryFor: whether a new operation may use the adapter. *)
Usable == closed = "open" /\ ~entry.disabled /\ ~entry.restarting

(* The process is gone when the call is over: the next one waits. *)
Lost == [entry EXCEPT !.proc = "none", !.backoff = TRUE]

ProcessDies ==
  /\ entry.proc = "up"
  /\ Spend(1)
  /\ entry' = [entry EXCEPT !.proc = "dead"]
  /\ UNCHANGED <<closed, lock, sessionVars, starts, call, history, control, visit, docs>>

BackoffEnds ==
  /\ entry.backoff
  /\ entry' = [entry EXCEPT !.backoff = FALSE]
  /\ UNCHANGED <<closed, lock, sessionVars, starts, call, history, control, visit, docs, used>>

(* ---- sessions and their terminal events ---- *)

Event(w) == [w |-> w, n |-> issued[w] + 1]

(* A full queue drops its oldest events. *)
Newest(q) == SubSeq(q, 1 + (IF Len(q) > MaxPending THEN Len(q) - MaxPending ELSE 0), Len(q))

Record(w) ==
  /\ queue' = Newest(Append(queue, Event(w)))
  /\ issued' = [issued EXCEPT ![w] = @ + 1]

(* removeWorkflowLocked: the session and its prompt end together, and the event
   that tells how (canceled, expired, resolved or failed) is queued. *)
Remove(w) ==
  /\ sessions' = [x \in Live \ {w} |-> sessions[x]]
  /\ prompts' = prompts \ {w}
  /\ Record(w)

RemoveIfLive(w) == IF w \in Live THEN Remove(w) ELSE UNCHANGED sessionVars

(* cancelAdapterWorkflows and Close, in the order of a map. *)
RemoveAll ==
  \E order \in {p \in [1 .. Cardinality(Live) -> Live] : {p[i] : i \in DOMAIN p} = Live} :
    /\ queue' = Newest(queue \o [i \in DOMAIN order |-> Event(order[i])])
    /\ issued' = [w \in DOMAIN issued |-> issued[w] + (IF w \in Live THEN 1 ELSE 0)]
    /\ sessions' = << >>
    /\ prompts' = prompts \ Live

(* A request that continues such a workflow has its context canceled. *)
Canceled(ws) == [w \in Workflows |-> IF w \in ws /\ call[w].continues THEN [call[w] EXCEPT !.canceled = TRUE] ELSE call[w]]

(* ---- the end of a request ---- *)

(* The deferred release and unlockWorkflowContinue: the request is over and its
   session, when it still exists, may be continued again. *)
Over(w, s) == [call EXCEPT ![w] = [@ EXCEPT !.pc = IF w \in s THEN "idle" ELSE "over",
                                             !.continues = FALSE, !.canceled = FALSE, !.answer = "failed"]]
Return(w) ==
  /\ call' = Over(w, DOMAIN sessions')
  /\ starts' = starts \ {w}

Goto(w, pc) == call' = [call EXCEPT ![w].pc = pc] /\ UNCHANGED starts

(* ---- requests: BeginResolution, ContinueResolutionFields ---- *)

(* reserveWorkflow: every active or begun workflow keeps one place in the event
   queue. *)
Full ==
  \/ Len(queue) + Cardinality(Live) + Cardinality(starts) >= MaxPending
  \/ Cardinality(Live) + Cardinality(starts) >= MaxActive

Begin(w) ==
  /\ call[w].pc = "new"
  /\ IF closed # "open" \/ Full
     THEN call' = [call EXCEPT ![w].pc = "over"] /\ UNCHANGED starts
     ELSE call' = [call EXCEPT ![w].pc = "asking"] /\ starts' = starts \cup {w}
  /\ UNCHANGED <<closed, entry, lock, sessionVars, history, control, visit, docs, used>>

(* lockWorkflowForContinue, setWorkflowCancel: one continuation at a time. *)
Continue(w) ==
  /\ call[w].pc = "idle" /\ w \in Live
  /\ used.continues < MaxContinues
  /\ used' = [used EXCEPT !.continues = @ + 1]
  /\ call' = [call EXCEPT ![w] = [@ EXCEPT !.pc = "checking", !.continues = TRUE,
                                           !.gen = sessions[w].gen, !.steps = sessions[w].steps]]
  /\ UNCHANGED <<closed, entry, lock, sessionVars, starts, history, control, visit, docs>>

(* ensureWorkflowGeneration: it may itself start the process that ends the
   workflow. *)
Check(w) ==
  /\ call[w].pc = "checking"
  /\ \/ /\ ~Usable
        /\ UNCHANGED <<entry, sessionVars, used>>
        /\ Return(w)
     \/ /\ Usable /\ lock = NoOne
        /\ \E r \in Ensured :
             /\ entry' = r.entry /\ Spend(r.faults)
             /\ IF r.ok /\ r.entry.gen = call[w].gen
                THEN UNCHANGED sessionVars /\ Goto(w, "persisting")
                ELSE /\ IF r.ok THEN RemoveIfLive(w) ELSE UNCHANGED sessionVars
                     /\ Return(w)
  /\ UNCHANGED <<closed, lock, history, control, visit, docs>>

(* PutBatch and StateService.Apply: the slots are written one after the other;
   when write k fails, perhaps after it reached the disk, its own scope and the
   ones before it are restored from the snapshot. *)
ScopeOf(s) == (s + 1) \div 2
Written(k, reached) == {s \in Slots : s < k \/ (s = k /\ reached)}

(* fileStore.save of slot k fails before the rename, or after it. *)
SaveFails(k) == {Written(k, FALSE), Written(k, TRUE)}

Restored(dirty, k) == {s \in dirty : ScopeOf(s) > ScopeOf(k)}

Apply(store) == docs' = [docs EXCEPT ![store] = {}]
ApplyFails(store) ==
  /\ Spend(1)
  /\ \E k \in Slots : \E dirty \in SaveFails(k) :
       docs' = [docs EXCEPT ![store] = @ \cup Restored(dirty, k)]

(* The answers are validated, and the fields that ask for it persisted
   (persistChallengeAnswers); refused answers leave the challenge open. *)
Persist(w) ==
  /\ call[w].pc = "persisting"
  /\ UNCHANGED sessionVars
  /\ \/ Apply("config") /\ Goto(w, "asking") /\ UNCHANGED used
     \/ ApplyFails("config") /\ Return(w)
     \/ UNCHANGED <<docs, used>> /\ Return(w)
  /\ UNCHANGED <<closed, entry, lock, history, control, visit>>

(* The documents of the scopes are read, which may be refused or incomplete, and
   the entry is found usable, before the lock is asked for. *)
Ask(w) ==
  /\ call[w].pc = "asking"
  /\ UNCHANGED sessionVars
  /\ (Usable /\ Goto(w, "waiting")) \/ Return(w)
  /\ UNCHANGED <<closed, entry, lock, history, control, visit, docs, used>>

(* Fault: the generation was checked when the request began, and is not again. *)
ExpectedBefore(w, gen) == gen > 0

(* callGeneration: a continuation, and the continuation of a discovery, expect
   the generation that began the workflow. *)
Expected(w, gen) == call[w].gen \in {0, gen}

Take(w) ==
  /\ call[w].pc = "waiting" /\ lock = NoOne
  /\ \E r \in Ensured :
       /\ entry' = r.entry /\ Spend(r.faults)
       /\ IF r.ok /\ Expected(w, r.entry.gen)
          THEN /\ lock' = w
               /\ call' = [call EXCEPT ![w].pc = "inside", ![w].answer = "failed"]
               /\ UNCHANGED <<sessionVars, starts>>
          ELSE /\ UNCHANGED lock
               /\ IF r.ok THEN RemoveIfLive(w) ELSE UNCHANGED sessionVars
               /\ Return(w)
  /\ UNCHANGED <<closed, history, control, visit, docs>>

(* process.call: an answer, a protocol error, a timeout or a cancellation. The
   last two kill the process, and an answer may be its last. *)
Answer(w) ==
  /\ call[w].pc = "inside"
  /\ lock' = NoOne
  /\ \E answer \in Answers, lost \in BOOLEAN :
       /\ entry.proc = "up" \/ lost
       /\ IF lost /\ entry.proc = "up" /\ ~call[w].canceled THEN Spend(1) ELSE UNCHANGED used
       /\ entry' = IF lost THEN Lost ELSE entry
       /\ UNCHANGED sessionVars
       /\ IF answer = "failed" THEN Return(w)
          ELSE /\ call' = [call EXCEPT ![w] = [@ EXCEPT !.pc = "answered", !.answer = answer, !.gen = entry.gen]]
               /\ UNCHANGED starts
  /\ UNCHANGED <<closed, history, control, visit, docs>>

(* continuationActive *)
StillActive(w) == call[w].continues => w \in Live

(* Tracker.Apply of a challenge: its prompt is shown, or replaces the last one. *)
Prompted(w) == prompts \cup {w}

(* advanceWorkflow, up to what the answer leads to. *)
Advance(w) ==
  /\ call[w].pc = "answered"
  /\ LET c == call[w] IN
     \/ /\ c.answer = "error"  \* finishWorkflowLifecycle
        /\ IF w \in Live THEN Remove(w)
           ELSE IF c.continues THEN UNCHANGED sessionVars
           ELSE Record(w) /\ UNCHANGED <<sessions, prompts>>
        /\ Return(w)
        /\ UNCHANGED <<docs, used>>
     \/ /\ c.answer # "error"
        /\ ~StillActive(w) \/ c.steps = MaxTransitions
        /\ UNCHANGED <<sessionVars, docs, used>>
        /\ Return(w)
     \/ /\ c.answer # "error" /\ StillActive(w) /\ c.steps < MaxTransitions
        /\ ApplyFails("state") /\ UNCHANGED sessionVars /\ Return(w)
     \/ /\ c.answer = "challenge" /\ StillActive(w) /\ c.steps < MaxTransitions  \* the Tracker refuses the prompt
        /\ Apply("state") /\ UNCHANGED <<sessionVars, used>> /\ Return(w)
     \/ /\ c.answer # "error" /\ StillActive(w) /\ c.steps < MaxTransitions
        /\ Apply("state")
        /\ call' = [call EXCEPT ![w] = [@ EXCEPT !.steps = c.steps + 1,
             !.pc = CASE c.answer = "discovered" -> "asking"
                      [] c.answer = "challenge" -> "prompted"
                      [] OTHER -> "resolving"]]
        /\ prompts' = IF c.answer = "challenge" THEN Prompted(w) ELSE prompts
        /\ UNCHANGED <<sessions, queue, issued, starts, used>>
  /\ UNCHANGED <<closed, entry, lock, history, control, visit>>

(* The resolved workflow leaves the map, if it is still there; its media is
   handed to the recorder either way (workflowContinue). *)
Resolve(w) ==
  /\ call[w].pc = "resolving"
  /\ RemoveIfLive(w)
  /\ Return(w)
  /\ UNCHANGED <<closed, entry, lock, history, control, visit, docs, used>>

(* workflowGenerationCurrentLocked *)
GenerationCurrent(w) == ~entry.disabled /\ ~entry.restarting /\ entry.gen = call[w].gen

(* Fault: a continuation republishes a workflow that was canceled meanwhile. *)
PublishAgain(w) ==
  /\ call[w].pc = "prompted"
  /\ IF ~GenerationCurrent(w) THEN RemoveIfLive(w)
     ELSE /\ sessions' = [x \in Live \cup {w} |-> IF x = w THEN [gen |-> call[w].gen, steps |-> call[w].steps]
                                                  ELSE sessions[x]]
          /\ UNCHANGED <<prompts, queue, issued>>
  /\ Return(w)
  /\ UNCHANGED <<closed, entry, lock, history, control, visit, docs, used>>

(* The challenge is published under the map's lock: what happened to the adapter
   or to the workflow meanwhile ends it instead. *)
Publish(w) ==
  /\ call[w].pc = "prompted"
  /\ IF ~GenerationCurrent(w)
     THEN IF w \in Live THEN Remove(w)
          ELSE prompts' = prompts \ {w} /\ UNCHANGED <<sessions, queue, issued>>
     ELSE IF call[w].continues /\ w \notin Live
     THEN prompts' = prompts \ {w} /\ UNCHANGED <<sessions, queue, issued>>
     ELSE IF w \notin Live /\ Cardinality(Live) >= MaxActive
     THEN UNCHANGED sessionVars
     ELSE /\ sessions' = [x \in Live \cup {w} |-> IF x = w THEN [gen |-> call[w].gen, steps |-> call[w].steps]
                                                  ELSE sessions[x]]
          /\ UNCHANGED <<prompts, queue, issued>>
  /\ Return(w)
  /\ UNCHANGED <<closed, entry, lock, history, control, visit, docs, used>>

(* A session that somebody else ends, whatever its request is doing. *)
EndSession(w) ==
  /\ w \in Live
  /\ Remove(w)
  /\ call' = Canceled({w})
  /\ UNCHANGED <<closed, entry, lock, starts, history, control, visit, docs, used>>

(* CancelWorkflow; cleanupWorkflowsLocked, at any request after the idle limit. *)
CancelWorkflow(w) == EndSession(w)
Expire(w) == EndSession(w)

(* ---- calls outside a workflow ---- *)

(* One call, of whatever generation runs. *)
Visit(kind) ==
  /\ visit = "none" /\ used.visits < MaxVisits
  /\ Usable /\ lock = NoOne
  /\ \E r \in Ensured :
       /\ entry' = r.entry
       /\ used.faults + r.faults <= MaxFaults
       /\ used' = [used EXCEPT !.visits = @ + 1, !.faults = @ + r.faults]
       /\ IF r.ok THEN lock' = "visit" /\ visit' = kind ELSE UNCHANGED <<lock, visit>>
  /\ UNCHANGED <<closed, sessionVars, starts, call, history, control, docs>>

BrowseResources == Visit("browsing")
WatchCheck == Visit("checking")      \* and a resolution without a workflow
Prepare == Visit("preparing")        \* a refresh or a metadata observation

(* A valid answer to a check has its state applied at once, that of a
   preparation is left to the caller. *)
VisitAnswered ==
  /\ lock = "visit"
  /\ lock' = NoOne
  /\ \E good, lost \in BOOLEAN :
       /\ entry.proc = "up" \/ lost
       /\ IF lost /\ entry.proc = "up" THEN Spend(1) ELSE UNCHANGED used
       /\ entry' = IF lost THEN Lost ELSE entry
       /\ visit' = CASE good /\ visit = "checking" -> "checked"
                     [] good /\ visit = "preparing" -> "prepared"
                     [] OTHER -> "none"
  /\ UNCHANGED <<closed, sessionVars, starts, call, history, control, docs>>

(* The commit of a preparation comes after the caller's own checks and writes,
   or never. *)
VisitApplies ==
  /\ visit \in {"checked", "prepared"}
  /\ visit' = "none"
  /\ \/ Apply("state") /\ UNCHANGED used
     \/ ApplyFails("state")
     \/ visit = "prepared" /\ UNCHANGED <<docs, used>>
  /\ UNCHANGED <<closed, entry, lock, sessionVars, starts, call, history, control>>

(* ---- management: SetEnabled, Restart ---- *)

(* TryLock: a busy adapter refuses. An accepted operation closes the gate and
   takes the process before the workflows are canceled. *)
Manage(op) ==
  /\ lock = NoOne /\ closed = "open"
  /\ used.controls < MaxControls
  /\ CASE op = "disable" -> ~entry.disabled
       [] op = "enable" -> entry.disabled /\ ~entry.rejected
       [] op = "restart" -> ~entry.disabled /\ ~entry.rejected
  /\ lock' = "control" /\ control' = op
  /\ entry' = [entry EXCEPT !.restarting = TRUE, !.proc = "none", !.disabled = @ \/ op = "disable"]
  /\ used' = [used EXCEPT !.controls = @ + 1]
  /\ UNCHANGED <<closed, sessionVars, starts, call, history, visit, docs>>

(* Its workflows are canceled, its process has shut down, the gate reopens: the
   generation is still the old one. *)
CancelAll ==
  /\ control \in {"disable", "enable", "restart"}
  /\ entry.restarting
  /\ RemoveAll
  /\ call' = Canceled(Live)
  /\ IF control = "disable"
     THEN /\ entry' = [entry EXCEPT !.restarting = FALSE]
          /\ lock' = NoOne /\ control' = "idle"
     ELSE /\ entry' = [entry EXCEPT !.restarting = FALSE, !.disabled = FALSE, !.backoff = FALSE]
          /\ UNCHANGED <<lock, control>>
  /\ UNCHANGED <<closed, starts, history, visit, docs, used>>

(* The replacement. An adapter that cannot be enabled is disabled again, one
   that cannot be restarted is left to the back-off. *)
StartAgain ==
  /\ control \in {"enable", "restart"} /\ ~entry.restarting
  /\ \E r \in Ensured :
       /\ Spend(r.faults)
       /\ entry' = IF ~r.ok /\ control = "enable" THEN [r.entry EXCEPT !.proc = "none", !.disabled = TRUE]
                   ELSE r.entry
  /\ lock' = NoOne /\ control' = "idle"
  /\ UNCHANGED <<closed, sessionVars, starts, call, history, visit, docs>>

Close ==
  /\ closed = "open"
  /\ closed' = "closing"
  /\ RemoveAll
  /\ call' = Canceled(Live)
  /\ UNCHANGED <<entry, lock, starts, history, control, visit, docs, used>>

(* The closer of the entry gets its lock, or its time runs out and the process
   is killed under the call. *)
ClosePatience ==
  /\ closed = "closing" /\ lock # NoOne /\ entry.proc = "up"
  /\ entry' = [entry EXCEPT !.proc = "dead"]
  /\ UNCHANGED <<closed, lock, sessionVars, starts, call, history, control, visit, docs, used>>

CloseEntry ==
  /\ closed = "closing" /\ lock = NoOne
  /\ entry' = [entry EXCEPT !.proc = "none"]
  /\ closed' = "closed"
  /\ UNCHANGED <<lock, sessionVars, starts, call, history, control, visit, docs, used>>

(* ---- flushWorkflowLifecycleEvents, at a later request ---- *)

(* An event is persisted and then acknowledged; one that cannot be persisted
   keeps its place and those behind it. A request that finds it persisted by
   another only acknowledges it. history is all that was ever persisted; the
   store keeps the newest maxWorkflowHistory of it. *)
Flush ==
  /\ queue # << >>
  /\ history' = history \cup {Head(queue)}
  /\ queue' = Tail(queue)
  /\ UNCHANGED <<closed, entry, lock, sessions, prompts, issued, starts, call, control, visit, docs, used>>

(* Nothing is in flight: the system may stay as it is. Nowhere else does it
   stop. *)
Rest ==
  /\ \A w \in Workflows : call[w].pc \in {"new", "idle", "over"}
  /\ lock = NoOne /\ control = "idle" /\ visit = "none" /\ closed # "closing"
  /\ UNCHANGED vars

Step(w) == Check(w) \/ Persist(w) \/ Ask(w) \/ Take(w) \/ Answer(w) \/ Advance(w) \/ Resolve(w) \/ Publish(w)

Next ==
  \/ \E w \in Workflows : Begin(w) \/ Continue(w) \/ Step(w) \/ CancelWorkflow(w) \/ Expire(w)
  \/ ProcessDies \/ BackoffEnds
  \/ \E op \in {"disable", "enable", "restart"} : Manage(op)
  \/ CancelAll \/ StartAgain
  \/ Close \/ ClosePatience \/ CloseEntry
  \/ BrowseResources \/ WatchCheck \/ Prepare \/ VisitAnswered \/ VisitApplies
  \/ Flush
  \/ Rest

Spec == Init /\ [][Next]_vars

(* ---- properties ---- *)

TypeOK ==
  /\ closed \in {"open", "closing", "closed"}
  /\ entry \in Entries
  /\ lock \in Workflows \cup {NoOne, "control", "visit"}
  /\ Live \subseteq Workflows /\ starts \subseteq Workflows /\ prompts \subseteq Workflows
  /\ control \in {"idle", "disable", "enable", "restart"}
  /\ Len(queue) <= MaxPending

(* The adapter process that is asked to continue a workflow is the process that
   began it, whatever restarted it since the request was admitted. *)
ContinuationsKeepTheirProcess ==
  \A w \in Live : lock = w => call[w].continues /\ entry.gen = sessions[w].gen

(* A workflow that was shown a challenge ends with exactly one terminal event,
   in the queue or in the history, however its cancellation, expiry, resolution
   and the restarts of the adapter meet; a live workflow has none. *)
Reported == {queue[i] : i \in DOMAIN queue} \cup history
EndingsAreReportedOnce ==
  \A w \in DOMAIN issued :
    /\ issued[w] <= (IF w \in Live THEN 0 ELSE 1)
    /\ issued[w] = 1 => [w |-> w, n |-> 1] \in Reported

(* A disabled adapter and a closed Host run no adapter process once the
   operation that says so is over. *)
NothingRunsUnwanted ==
  (closed = "closed" \/ (entry.disabled /\ control = "idle")) => entry.proc = "none" /\ lock = NoOne

=============================================================================
