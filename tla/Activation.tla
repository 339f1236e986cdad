----------------------------- MODULE Activation -----------------------------
(***************************************************************************)
(* The activation transaction of the Runtime Host: how a staged release,   *)
(* a rollback target or the generation found at startup becomes the one    *)
(* whose Control serves the public route.                                  *)
(*                                                                         *)
(* Three actors take part.                                                 *)
(*   - The Host runs one operation at a time (bootstrap.Run and            *)
(*     updateController), and in it Supervisor.ActivateControlWith; op is  *)
(*     where it stands.                                                    *)
(*   - Each Control process handles one lifecycle command at a time        *)
(*     (controlplane.Lifecycle.opMu).  A command goes on after the Host    *)
(*     has stopped waiting for its answer.                                 *)
(*   - Requests and background work of a Control mutate durable state      *)
(*     while its MutationGate admits them.                                 *)
(* The durable side is the GenerationRegistry, instantiated as R.          *)
(*                                                                         *)
(* Timeouts, failed hooks, failed writes, process exits and Host crashes   *)
(* are faults; MaxFaults bounds their number in a behaviour.               *)
(*                                                                         *)
(* Abstractions: an Engine may fail to start and does not fail later; a    *)
(* Host that stops takes its children along, as the comment in             *)
(* bootstrap.Run states; release verification is left out.                 *)
(***************************************************************************)
EXTENDS Integers, FiniteSets

CONSTANTS
  Generations, Recordings, Workers, None,
  MaxGenerations, MaxLeases,
  MaxUnsynced,   \* bound of the model: snapshots the file may have held
  MaxFaults,     \* bound of the model: faults in a behaviour
  MaxRequests    \* bound of the model: mutations in flight at one Control

ASSUME ActivationAssumption ==
  MaxFaults \in Nat /\ MaxRequests \in Nat /\ None \notin Generations

VARIABLES
  mem, file, maybe,   \* the GenerationRegistry
  route,              \* Supervisor.activeControl
  control,            \* the Control process of each generation
  gate,               \* MutationGate.active of each Control
  requests,           \* MutationGate.inFlight of each Control
  handling,           \* the lifecycle command each Control is executing
  op,                 \* the Host operation in progress
  faults

registryVars == <<mem, file, maybe>>
controlVars == <<control, gate, requests, handling>>
vars == <<mem, file, maybe, route, control, gate, requests, handling, op, faults>>

R == INSTANCE GenerationRegistry

-----------------------------------------------------------------------------
(* Control processes.  "prepared" is a passive Control whose services are  *)
(* open; "exited" is an exit the supervisor has not observed, "dead" one   *)
(* it has.                                                                 *)

Living == {"passive", "prepared", "active", "fenced", "draining", "deactivated", "failed"}
ControlStates == Living \cup {"absent", "exited", "dead"}
Alive(g) == control[g] \in Living

\* The process state is ProcessReady: no exit has been observed.
LooksReady(g) == Alive(g) \/ control[g] = "exited"
ConfirmedDead(g) == control[g] = "dead"

Handlings == {"none", "prepare", "activate", "fence", "resume",
              "pause", "reopened", "close"}

\* The process of g is gone; next is what the supervisor keeps of it.
Gone(g, next) ==
  /\ control' = [control EXCEPT ![g] = next]
  /\ gate' = [gate EXCEPT ![g] = FALSE]
  /\ requests' = [requests EXCEPT ![g] = 0]
  /\ handling' = [handling EXCEPT ![g] = "none"]

Faults(n) == faults + n <= MaxFaults /\ faults' = faults + n
Fault == Faults(1)
NoFault == Faults(0)

-----------------------------------------------------------------------------
(* The Host operation.                                                     *)

Idle == [kind |-> "none", at |-> "idle", new |-> None, old |-> None,
         was |-> None, sent |-> FALSE, committed |-> FALSE]
Boot == [Idle EXCEPT !.kind = "startup", !.at = "boot"]

\* was is the default at the beginning.
Begin(kind, at, g) ==
  op' = [Idle EXCEPT !.kind = kind, !.at = at, !.new = g, !.was = mem.active]
Goto(at) == op' = [op EXCEPT !.at = at]
End == op' = Idle

At(kinds, at) == op.kind \in kinds /\ op.at = at

\* A registry change A that fails, before or after the rename of the file.
PersistFails(A) == Fault /\ (UNCHANGED registryVars \/ (A /\ mem' = mem))

Persist(A, success, failure) ==
  \/ A /\ mem' # mem /\ NoFault /\ Goto(success)
  \/ PersistFails(A) /\ Goto(failure)

\* The Host process ends, whatever it was doing, and is started again.
Restart ==
  /\ R!Reopen
  /\ route' = None
  /\ control' = [g \in Generations |-> "absent"]
  /\ gate' = [g \in Generations |-> FALSE]
  /\ requests' = [g \in Generations |-> 0]
  /\ handling' = [g \in Generations |-> "none"]
  /\ op' = Boot

HostCrash == Restart /\ Fault

\* bootstrap.Run returned an error.
Exit == At({"startup"}, "exit") /\ Restart /\ NoFault

-----------------------------------------------------------------------------
(* Lifecycle commands, sent by the Host to op.old or op.new.               *)

CommandOf == [fence |-> "fence", prepare |-> "prepare", activate |-> "activate",
              undo_new |-> "deactivate", undo_old |-> "resume"]
Calling == op.at \in DOMAIN CommandOf
Callee == IF op.at \in {"fence", "undo_old"} THEN op.old ELSE op.new

AfterUndo == IF op.kind = "startup" THEN "exit"
             ELSE IF op.committed THEN "abort" ELSE "stop"

OnSuccess ==
  [fence |-> "quiesce", prepare |-> "commit", activate |-> "settle",
   undo_new |-> IF op.old = None THEN AfterUndo ELSE "undo_old",
   undo_old |-> AfterUndo][op.at]
\* Fault: an old Control that could not prepare is taken for fenced.
OnErrorUnfenced == IF op.at = "fence" THEN "quiesce"
                   ELSE IF op.at \in {"undo_new", "undo_old"} THEN OnSuccess ELSE "undo_new"

\* Fault: a failed step is not undone.
OnErrorNotUndone == IF op.at \in {"undo_new", "undo_old"} THEN OnSuccess ELSE AfterUndo

OnError == IF op.at \in {"undo_new", "undo_old"} THEN OnSuccess ELSE "undo_new"

\* Deactivate and Resume share one deadline.
OnTimeout == IF op.at = "undo_new" THEN AfterUndo ELSE OnError

\* The Host goes on; a failed activation takes the route back first.
Proceed(at, ok) ==
  /\ op' = [op EXCEPT !.at = at, !.sent = FALSE]
  /\ route' = IF op.at = "activate" /\ ~ok THEN op.old ELSE route
Reply(ok) == Proceed(IF ok THEN OnSuccess ELSE OnError, ok)

\* The Host waits for the answer to the command in progress at g.
Awaited(g) == op.sent /\ Callee = g

Answer(g, ok) == IF Awaited(g) THEN Reply(ok) ELSE UNCHANGED <<op, route>>

Accepts(g, command) ==
  CASE command = "prepare"    -> control[g] = "passive"
    [] command = "activate"   -> control[g] = "prepared"
    [] command = "fence"      -> control[g] = "active"
    [] command = "resume"     -> control[g] = "fenced"
    [] command = "deactivate" -> control[g] # "deactivated"

Send ==
  LET g == Callee  command == CommandOf[op.at] IN
  /\ Calling /\ ~op.sent
  /\ Alive(g) /\ handling[g] = "none"
  /\ Accepts(g, command)
  /\ op' = [op EXCEPT !.sent = TRUE]
  /\ IF command = "deactivate"
     THEN /\ handling' = [handling EXCEPT ![g] =
                            IF control[g] = "active" THEN "pause" ELSE "close"]
          /\ control' = [control EXCEPT ![g] = "draining"]
     ELSE /\ handling' = [handling EXCEPT ![g] = command]
          /\ UNCHANGED control
  /\ gate' = IF command \in {"fence", "deactivate"}
             THEN [gate EXCEPT ![g] = FALSE] ELSE gate
  /\ NoFault /\ UNCHANGED <<registryVars, route, requests>>

\* The Control answers at once: the command is refused, or has been done.
Refuse ==
  LET g == Callee  command == CommandOf[op.at] IN
  /\ Calling /\ ~op.sent
  /\ Alive(g) /\ handling[g] = "none"
  /\ ~Accepts(g, command)
  /\ Reply(\/ command = "prepare" /\ control[g] = "prepared"
           \/ command = "deactivate")
  /\ NoFault /\ UNCHANGED <<registryVars, controlVars>>

Unreachable ==
  /\ Calling /\ ~Alive(Callee)
  /\ Reply(FALSE)
  /\ NoFault /\ UNCHANGED <<registryVars, controlVars>>

TimeOut ==
  /\ Calling /\ Alive(Callee)
  /\ Proceed(OnTimeout, FALSE)
  /\ Fault /\ UNCHANGED <<registryVars, controlVars>>

\* A command ends with the given answer, after n faults.
Finish(g, command, ok, n, next, open) ==
  /\ handling[g] = command
  /\ handling' = [handling EXCEPT ![g] = "none"]
  /\ control' = [control EXCEPT ![g] = next]
  /\ gate' = [gate EXCEPT ![g] = open]
  /\ Answer(g, ok)
  /\ Faults(n)
  /\ UNCHANGED <<registryVars, requests>>

FinishPrepare(g) ==
  \/ Finish(g, "prepare", TRUE, 0, "prepared", FALSE)
  \/ Finish(g, "prepare", FALSE, 1, "failed", FALSE)

FinishActivate(g) ==
  \/ Finish(g, "activate", TRUE, 0, "active", TRUE)
  \/ Finish(g, "activate", FALSE, 1, "failed", FALSE)

\* Fault: the old Control hands over with mutations in flight.
FinishFenceEarly(g) ==
  \/ Finish(g, "fence", TRUE, 0, "fenced", FALSE)
  \/ ~Awaited(g) /\ Finish(g, "fence", FALSE, 0, "active", TRUE)

\* pauseForHandoff waits for the mutations in flight, until the deadline it
\* has from the Host.  If it fails the services are resumed, and if that fails
\* too the gate stays closed.
FinishFence(g) ==
  \/ requests[g] = 0 /\ Finish(g, "fence", TRUE, 0, "fenced", FALSE)
  \/ ~Awaited(g) /\ Finish(g, "fence", FALSE, 0, "active", TRUE)
  \/ ~Awaited(g) /\ Finish(g, "fence", FALSE, 1, "active", FALSE)

FinishResume(g) ==
  \/ Finish(g, "resume", TRUE, 0, "active", TRUE)
  \/ Finish(g, "resume", FALSE, 1, "fenced", FALSE)

\* Deactivating an active Control first pauses it; a pause that reaches the
\* deadline reopens the gate until the drain closes it again.
Pause(g) ==
  /\ handling[g] = "pause"
  /\ \/ /\ requests[g] = 0
        /\ handling' = [handling EXCEPT ![g] = "close"]
        /\ UNCHANGED gate
     \/ /\ ~Awaited(g)
        /\ handling' = [handling EXCEPT ![g] = "reopened"]
        /\ gate' = [gate EXCEPT ![g] = TRUE]
  /\ NoFault /\ UNCHANGED <<registryVars, route, control, requests, op>>

CloseGate(g) ==
  /\ handling[g] = "reopened"
  /\ handling' = [handling EXCEPT ![g] = "close"]
  /\ gate' = [gate EXCEPT ![g] = FALSE]
  /\ NoFault /\ UNCHANGED <<registryVars, route, control, requests, op>>

FinishClose(g) ==
  \/ Finish(g, "close", TRUE, 0, "deactivated", FALSE)
  \/ Finish(g, "close", FALSE, 1, "draining", FALSE)

Handle(g) ==
  \/ FinishPrepare(g) \/ FinishActivate(g) \/ FinishFence(g) \/ FinishResume(g)
  \/ Pause(g) \/ CloseGate(g) \/ FinishClose(g)

-----------------------------------------------------------------------------
(* The environment of a Control.                                           *)

Admit(g) ==
  /\ gate[g] /\ requests[g] < MaxRequests
  /\ requests' = [requests EXCEPT ![g] = @ + 1]
  /\ NoFault /\ UNCHANGED <<registryVars, route, control, gate, handling, op>>

Release(g) ==
  /\ requests[g] > 0
  /\ requests' = [requests EXCEPT ![g] = @ - 1]
  /\ NoFault /\ UNCHANGED <<registryVars, route, control, gate, handling, op>>

\* An admitted mutation starts a Recording on the Engine of g.
StartRecording(g, r, w) ==
  /\ requests[g] > 0
  /\ R!PinRecording(r, [gen |-> g, worker |-> w]) /\ mem' # mem
  /\ NoFault /\ UNCHANGED <<route, controlVars, op>>

Die(g) ==
  /\ Alive(g) /\ Gone(g, "exited")
  /\ Fault /\ UNCHANGED <<registryVars, route, op>>

ObserveExit(g) ==
  /\ control[g] = "exited"
  /\ control' = [control EXCEPT ![g] = "dead"]
  /\ NoFault /\ UNCHANGED <<registryVars, route, gate, requests, handling, op>>

-----------------------------------------------------------------------------
(* Beginnings: startup, Stage, Activate, Rollback.                         *)

Host == UNCHANGED <<route, controlVars>>

FailStagedAtBoot ==
  /\ At({"startup"}, "boot") /\ mem.staged # None
  /\ Persist(R!Fail(mem.staged), "boot", "exit")
  /\ Host

\* A changed adapter set is picked up at startup by a new generation, unless
\* an activation has to be recovered first.
ChooseGeneration ==
  /\ At({"startup"}, "boot") /\ mem.staged = None
  /\ \/ mem.active # None /\ Begin("startup", "engine", mem.active)
     \/ /\ mem.active = None \/ mem.pending = None
        /\ \E g \in Generations : R!CanStage(mem, g) /\ Begin("startup", "stage", g)
  /\ NoFault /\ UNCHANGED registryVars /\ Host

BeginStage(g) ==
  /\ op = Idle /\ mem.active # None /\ R!CanStage(mem, g)
  /\ Begin("stage", "stage", g)
  /\ NoFault /\ UNCHANGED registryVars /\ Host

BeginActivate ==
  /\ op = Idle /\ mem.staged # None /\ mem.state[mem.staged] = "verified"
  /\ Begin("update", "engine", mem.staged)
  /\ NoFault /\ UNCHANGED registryVars /\ Host

BeginRollback ==
  /\ op = Idle /\ mem.previous # None /\ mem.state[mem.previous] = "draining"
  /\ Begin("rollback", "engine", mem.previous)
  /\ NoFault /\ UNCHANGED registryVars /\ Host

StageStep ==
  /\ At({"startup", "stage"}, "stage")
  /\ Persist(R!Stage(op.new), "verify", IF op.kind = "stage" THEN "end" ELSE "exit")
  /\ Host

VerifyStep ==
  /\ At({"startup", "stage"}, "verify")
  /\ Persist(R!MarkVerified(op.new), IF op.kind = "stage" THEN "end" ELSE "engine", "fail")
  /\ Host

-----------------------------------------------------------------------------
(* Launching the candidate.                                                *)

\* startEngine, of a rollback only when the Engine does not run any more.  What
\* becomes of the Engine is not followed here.
LaunchEngine ==
  /\ op.at = "engine"
  /\ \/ NoFault /\ Goto("launch")
     \/ Fault /\ Goto([startup |-> "fail", update |-> "stop", rollback |-> "end"][op.kind])
  /\ UNCHANGED registryVars /\ Host

Started(g) == control[g] = "absent" /\ control' = [control EXCEPT ![g] = "passive"]

\* A Control that does not answer in time, or as the one that was launched, is
\* stopped.
NotReady(g) == control[g] = "absent" /\ Fault

\* The supervisor refuses a second Control of g while it keeps one.
Launch ==
  /\ op.at = "launch"
  /\ \/ /\ Started(op.new) /\ NoFault
        /\ Goto(CASE op.kind = "rollback" -> "enter"
                  [] op.kind = "startup" /\ mem.active = op.new -> "cold"
                  [] OTHER -> "mark")
     \/ /\ NotReady(op.new) \/ (control[op.new] # "absent" /\ NoFault)
        /\ Goto(IF op.kind = "startup" THEN "fail" ELSE "stop")
        /\ UNCHANGED control
  /\ UNCHANGED <<registryVars, route, gate, requests, handling>>

MarkReadyStep ==
  /\ op.at = "mark"
  /\ IF op.kind = "startup"
     THEN Persist(R!MarkReady(op.new), "promote", "fail")
     ELSE Persist(R!MarkReady(op.new), "enter", "stop")
  /\ Host

\* At startup the registry is activated before any Control is.
Promote ==
  /\ op.at = "promote"
  /\ Persist(R!Activate(op.new), "cold", "fail")
  /\ Host

ColdStart ==
  /\ op.at = "cold"
  /\ \/ /\ R!ReconcileColdStart(op.new)
        /\ mem' = R!ColdStartIn(mem, op.new)
        /\ NoFault /\ Goto("enter")
     \/ PersistFails(R!ReconcileColdStart(op.new)) /\ Goto("exit")
  /\ Host

-----------------------------------------------------------------------------
(* ActivateControlWith.  Its calls are above; these are the steps between. *)

Enter ==
  /\ op.at = "enter"
  /\ IF ~LooksReady(op.new) THEN Goto(IF op.kind = "startup" THEN "exit" ELSE "stop")
     ELSE IF route = op.new THEN Goto("finish")
     ELSE op' = [op EXCEPT
            !.old = route,
            !.at = IF route = None THEN "prepare"
                   ELSE IF ConfirmedDead(route) THEN "quiesce" ELSE "fence"]
  /\ NoFault /\ UNCHANGED registryVars /\ Host

\* waitControlIdle also waits for reads, which the gate does not count.
Quiesce ==
  /\ op.at = "quiesce"
  /\ \/ NoFault /\ Goto("prepare")
     \/ Fault /\ Goto("undo_new")
  /\ UNCHANGED registryVars /\ Host

Committed(A, allowed) ==
  \/ /\ A /\ mem' # mem /\ NoFault
     /\ op' = [op EXCEPT !.at = "route", !.committed = TRUE]
  \/ PersistFails(A) /\ Goto("undo_new")
  \/ ~allowed /\ NoFault /\ Goto("undo_new") /\ UNCHANGED registryVars

\* beforeRoute.
Commit ==
  /\ op.at = "commit"
  /\ CASE op.kind = "update"   -> Committed(R!Activate(op.new), R!CanActivate(mem, op.new))
       [] op.kind = "rollback" -> Committed(R!Rollback, R!CanRollback(mem))
       [] OTHER                -> Goto("route") /\ NoFault /\ UNCHANGED registryVars
  /\ Host

SwitchRoute ==
  /\ op.at = "route"
  /\ IF LooksReady(op.new)
     THEN route' = op.new /\ Goto("activate")
     ELSE route' = route /\ Goto("undo_new")
  /\ NoFault /\ UNCHANGED <<registryVars, controlVars>>

\* afterAbort; its error is ignored.
Abort ==
  /\ op.at = "abort"
  /\ IF op.kind = "update"
     THEN \/ Persist(R!AbortActivation(op.new, op.was), "stop", "stop")
          \/ /\ ~R!CanAbort(mem, op.new, op.was)
             /\ NoFault /\ Goto("stop") /\ UNCHANGED registryVars
     ELSE Persist(R!Rollback, "stop", "stop")
  /\ Host

\* drainControlLocked stops the old Control, unless its requests outlast the
\* drain; a child that does not stop in time is killed.
Settle ==
  /\ op.at = "settle" /\ Goto("finish")
  /\ \/ op.old = None /\ NoFault /\ UNCHANGED controlVars
     \/ op.old # None /\ NoFault /\ Gone(op.old, "absent")
     \/ op.old # None /\ Alive(op.old) /\ Fault /\ Gone(op.old, "exited")
     \/ op.old # None /\ Fault /\ UNCHANGED controlVars
  /\ UNCHANGED <<registryVars, route>>

-----------------------------------------------------------------------------
(* Endings.                                                                *)

\* Fault: a recovered activation is left unfinished.
FinishWithoutJournal ==
  /\ op.at = "finish"
  /\ IF mem.active # op.new \/ route # op.new THEN Goto("stop")
     ELSE IF op.kind \in {"rollback", "startup"} THEN End ELSE Goto("finalize")
  /\ NoFault /\ UNCHANGED registryVars /\ Host

FinishOperation ==
  /\ op.at = "finish"
  /\ IF mem.active # op.new \/ route # op.new THEN Goto("stop")
     ELSE IF op.kind = "rollback" \/ (op.kind = "startup" /\ mem.pending = None)
     THEN End
     ELSE Goto("finalize")
  /\ NoFault /\ UNCHANGED registryVars /\ Host

\* updateController.Activate tolerates the error, bootstrap.Run does not.
Finalize ==
  /\ op.at = "finalize"
  /\ \/ /\ R!FinalizeActivation(op.new) /\ mem' = R!FinalizeIn(mem)
        /\ NoFault /\ End
     \/ /\ PersistFails(R!FinalizeActivation(op.new))
        /\ IF op.kind = "startup" THEN Goto("exit") ELSE End
  /\ Host

\* failCandidate, and the StopControl of a failed rollback.  A generation
\* that is the default or owns the route is left alone.
Kept == route = op.new \/ (op.kind = "update" /\ mem.active = op.new)

StopCandidate ==
  /\ op.at = "stop"
  /\ \/ /\ Kept /\ End
        /\ NoFault /\ UNCHANGED controlVars
     \/ /\ ~Kept /\ Gone(op.new, "absent")
        /\ NoFault /\ Goto(IF op.kind = "update" THEN "fail" ELSE "end")
     \/ /\ ~Kept /\ Fault /\ UNCHANGED controlVars
        /\ Goto(IF op.kind = "update" THEN "fail" ELSE "end")
  /\ UNCHANGED <<registryVars, route>>

FailCandidate ==
  /\ op.at = "fail"
  /\ LET next == IF op.kind = "startup" THEN "exit" ELSE "end" IN
       \/ Persist(R!Fail(op.new), next, next)
       \/ /\ ~R!CanFail(mem, op.new)
          /\ NoFault /\ Goto(next) /\ UNCHANGED registryVars
  /\ Host

EndOperation ==
  /\ op.at = "end" /\ End
  /\ NoFault /\ UNCHANGED registryVars /\ Host

-----------------------------------------------------------------------------
Init ==
  /\ R!RegistryInit
  /\ route = None
  /\ control = [g \in Generations |-> "absent"]
  /\ gate = [g \in Generations |-> FALSE]
  /\ requests = [g \in Generations |-> 0]
  /\ handling = [g \in Generations |-> "none"]
  /\ op = Boot
  /\ faults = 0

HostNext ==
  \/ FailStagedAtBoot \/ ChooseGeneration
  \/ BeginActivate \/ BeginRollback \/ \E g \in Generations : BeginStage(g)
  \/ StageStep \/ VerifyStep \/ LaunchEngine \/ Launch \/ MarkReadyStep \/ Promote \/ ColdStart
  \/ Send \/ Refuse \/ Unreachable \/ TimeOut
  \/ Enter \/ Quiesce \/ Commit \/ SwitchRoute \/ Abort \/ Settle
  \/ FinishOperation \/ Finalize \/ StopCandidate \/ FailCandidate \/ EndOperation
  \/ HostCrash \/ Exit

ControlNext ==
  \E g \in Generations :
    \/ Handle(g) \/ Admit(g) \/ Release(g) \/ Die(g) \/ ObserveExit(g)
    \/ \E r \in Recordings, w \in Workers : StartRecording(g, r, w)

Next == HostNext \/ ControlNext

Spec == Init /\ [][Next]_vars

-----------------------------------------------------------------------------
(* Properties.                                                             *)

OperationSteps ==
  {"idle", "boot", "stage", "verify", "engine", "launch", "mark", "promote", "cold", "enter",
   "fence", "quiesce", "prepare", "commit", "route", "activate", "settle",
   "undo_new", "undo_old", "abort", "finish", "finalize", "stop", "fail", "end", "exit"}

Operation ==
  [kind : {"none", "startup", "stage", "update", "rollback"}, at : OperationSteps,
   new : Generations \cup {None}, old : Generations \cup {None},
   was : Generations \cup {None},
   sent : BOOLEAN, committed : BOOLEAN]

TypeOK ==
  /\ R!TypeOK
  /\ route \in Generations \cup {None}
  /\ control \in [Generations -> ControlStates]
  /\ gate \in [Generations -> BOOLEAN]
  /\ requests \in [Generations -> 0..MaxRequests]
  /\ handling \in [Generations -> Handlings]
  /\ op \in Operation
  /\ faults \in 0..MaxFaults

\* "only one generation can run Watch/retention/background admission at a
\* time" (Supervisor.ActivateControlWith), whatever one fault does; the code
\* does not withstand a second command that times out and is carried out.
OneControlServes ==
  faults <= 1 => \A g, h \in Generations : gate[g] /\ gate[h] => g = h

\* A mutation admitted by one Control never runs while another admits: it
\* cannot commit after ownership has moved (ActivateControlWith).
MutationsStayInTheirEpoch ==
  faults <= 1 => \A g, h \in Generations : gate[g] /\ requests[h] > 0 => g = h

\* One fault, wherever it falls, never leaves a living default Control on the
\* route refusing mutations once the operation is over: a failed activation
\* gives the service back (Rollback of controlLifecycle).
OneFaultKeepsService ==
  op = Idle /\ faults <= 1 =>
    \A g \in Generations : g = route /\ Alive(g) => gate[g]

\* A startup that completes leaves the route and the registry in agreement
\* and the journal closed, whatever state the crash before it left.
StartupSettles ==
  [][op.kind = "startup" /\ op'.kind = "none" =>
       route' = mem'.active /\ mem'.pending = None]_vars
=============================================================================
