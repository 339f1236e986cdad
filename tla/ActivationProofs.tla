-------------------------- MODULE ActivationProofs --------------------------
(***************************************************************************)
(* Theorems about Activation for any number of generations, requests,      *)
(* operations and faults; what the properties say of one fault holds       *)
(* wherever that fault falls.                                              *)
(***************************************************************************)
EXTENDS Activation, TLAPS

USE ActivationAssumption

-----------------------------------------------------------------------------
(* The inductive invariant.                                                *)

Types ==
  /\ mem \in R!Snapshot /\ file \in R!Snapshot
  /\ route \in Generations \cup {None}
  /\ control \in [Generations -> ControlStates]
  /\ gate \in [Generations -> BOOLEAN]
  /\ requests \in [Generations -> Nat]
  /\ handling \in [Generations -> Handlings]
  /\ op \in Operation
  /\ faults \in Nat

\* Where an operation stands, and which Control the route names there.
Undoing == {"undo_new", "undo_old"}
Passing == {"quiesce", "prepare", "commit", "route"}
Routed == {"activate", "settle", "finish", "finalize"}

Placed ==
  /\ op.at \notin {"idle", "boot", "exit"} => op.new \in Generations
  /\ op.sent => Calling
  /\ op.at \in {"engine", "launch"} => op.kind \in {"startup", "update", "rollback"}
  /\ op.at = "mark" => op.kind \in {"startup", "update"}
  /\ op.at \in {"promote", "cold"} => op.kind = "startup"
  /\ op.at \in {"fence", "settle"} \cup Passing \cup Undoing \cup {"activate"} => op.old # op.new
  /\ op.at \in {"fence"} \cup Passing \cup Undoing => route = op.old
  /\ op.at \in {"fence", "undo_old"} => op.old # None
  /\ op.at \in Routed => route = op.new
  /\ route # None => control[route] # "absent"
  /\ op.at = "activate" /\ op.old # None => control[op.old] # "absent"
  /\ op.at \in {"fence", "quiesce", "undo_old", "stop", "end", "abort", "idle"} => op.kind # "startup"
  /\ op.kind = "startup" =>
       /\ op.at \notin Routed \cup {"exit"} => route = None
       /\ op.at \in {"cold", "enter", "undo_new"} \cup Passing \cup Routed => mem.active = op.new
       /\ op.at = "settle" => op.old = None
       /\ op.at = "activate" => op.old = None

\* The steps at which the route is being taken from one Control to another.
Hot == {"fence", "activate"} \cup Passing \cup Undoing

\* A process that is gone does nothing.
Gones == \A g \in Generations :
  ~Alive(g) => ~gate[g] /\ requests[g] = 0 /\ handling[g] = "none"

\* What each command finds, and what may still be served while it is executed.
Handlers == \A g \in Generations :
  /\ gate[g] => control[g] = "active" /\ handling[g] = "none"
  /\ requests[g] > 0 => control[g] = "active" \/ handling[g] = "pause"
  /\ handling[g] = "prepare" => control[g] = "passive"
  /\ handling[g] = "activate" => control[g] = "prepared"
  /\ handling[g] = "fence" => control[g] = "active"
  /\ handling[g] = "resume" => control[g] = "fenced"
  /\ handling[g] \in {"pause", "close"} => control[g] = "draining"
  /\ handling[g] # "reopened"
  /\ handling[g] = "pause" => op.at = "undo_new" /\ op.sent /\ g = op.new /\ faults = 1

\* The command that the Host waits for is the one that is being executed.
Executed == op.sent /\ Alive(Callee) =>
  handling[Callee] \in [fence |-> {"fence"}, prepare |-> {"prepare"}, activate |-> {"activate"},
                        undo_new |-> {"pause", "close"}, undo_old |-> {"resume"}][op.at]

\* A Control that admits mutations, or may be about to.
Busy(g) == control[g] = "active" \/ handling[g] \in {"activate", "resume", "pause"}
OnlyBusy(h) == \A g \in Generations : Busy(g) => g = h

Exclusive ==
  /\ op.at # "undo_new" => OnlyBusy(route)
  /\ op.at \in Passing \/ (op.at = "activate" /\ ~op.sent) => \A g \in Generations : ~Busy(g)
  /\ op.at = "undo_new" => OnlyBusy(route) \/ (faults = 1 /\ OnlyBusy(op.new))

\* The Control of the route, or the one that must get the route back.
Served(g) == g # None => ~Alive(g) \/ gate[g]
Fenced(g) == g # None => ~Alive(g) \/ (control[g] = "fenced" /\ handling[g] = "none")
Recoverable(g) ==
  g # None => \/ ~Alive(g) \/ gate[g] \/ handling[g] = "fence"
              \/ control[g] = "fenced" /\ handling[g] \in {"none", "resume"}

Serving ==
  /\ op.at \notin Hot => Served(route)
  /\ op.at = "fence" /\ ~op.sent => Served(op.old)
  /\ op.at \in Passing \cup {"activate"} => Fenced(op.old)
  /\ op.at \in Undoing => faults = 1 /\ Recoverable(op.old)

\* Until something fails.
Is(g, state) == control[g] = state /\ handling[g] = "none"
Faultless ==
  /\ op.at # "abort" /\ \A g \in Generations : control[g] \notin {"exited", "dead"}
  /\ op.at \in {"mark", "promote", "cold", "enter", "fence", "quiesce"} => Is(op.new, "passive")
  /\ op.at = "prepare" => control[op.new] = "passive" /\ (op.sent \/ handling[op.new] = "none")
  /\ op.at \in {"commit", "route"} => Is(op.new, "prepared")
  /\ op.at = "activate" => control[op.new] = "prepared" /\ (op.sent \/ handling[op.new] = "none")
  /\ op.kind # "startup" => mem.active # None
  /\ op.kind # "startup" /\ ~op.committed => mem.pending = None
  /\ op.committed => /\ op.at \in {"route"} \cup Routed /\ op.kind \in {"update", "rollback"}
                     /\ mem.active = op.new /\ (op.kind = "rollback" => mem.pending = None)
  /\ op.kind = "rollback" /\ op.at \in {"engine", "launch", "enter", "fence", "quiesce", "prepare", "commit"} =>
       R!CanRollback(mem) /\ mem.previous = op.new

Prepared ==
  op.kind = "update" /\ op.at \in {"enter", "fence", "quiesce", "prepare", "commit"} =>
    R!CanActivate(mem, op.new)

Calm == Handlers /\ Executed /\ Exclusive /\ Serving

IInv ==
  /\ Types /\ Placed /\ Gones /\ Prepared
  /\ faults <= 1 => Calm
  /\ faults = 0 => Faultless

-----------------------------------------------------------------------------
(* Forms of the operation in progress.                                     *)

LEMMA IdleFields ==
  /\ Idle \in Operation /\ Idle.at = "idle" /\ Idle.kind = "none" /\ ~Idle.sent /\ ~Idle.committed
  /\ Idle.new = None /\ Idle.old = None
BY DEF Idle, Operation, OperationSteps

LEMMA BootFields ==
  /\ Boot \in Operation /\ Boot.at = "boot" /\ Boot.kind = "startup" /\ ~Boot.sent /\ ~Boot.committed
  /\ Boot.new = None /\ Boot.old = None
BY DEF Boot, Idle, Operation, OperationSteps

LEMMA Goes ==
  ASSUME op \in Operation, NEW at \in OperationSteps, Goto(at)
  PROVE  /\ op' \in Operation /\ op'.at = at /\ op'.kind = op.kind /\ op'.new = op.new /\ op'.old = op.old
         /\ op'.was = op.was /\ op'.sent = op.sent /\ op'.committed = op.committed
BY DEF Goto, Operation

LEMMA Begins ==
  ASSUME Types, NEW kind \in {"startup", "stage", "update", "rollback"}, NEW at \in OperationSteps,
         NEW g \in Generations, Begin(kind, at, g)
  PROVE  /\ op' \in Operation /\ op'.at = at /\ op'.kind = kind /\ op'.new = g /\ op'.old = None
         /\ ~op'.sent /\ ~op'.committed
<1>1. mem.active \in Generations \cup {None}
  BY DEF Types, R!Snapshot
<1> QED BY <1>1 DEF Begin, Idle, Operation

LEMMA Calls == Calling <=> op.at \in {"fence", "prepare", "activate", "undo_new", "undo_old"}
BY DEF Calling, CommandOf

LEMMA Callees ==
  /\ op.at \in {"fence", "undo_old"} => Callee = op.old
  /\ op.at \in {"prepare", "activate", "undo_new"} => Callee = op.new
BY DEF Callee

LEMMA CommandsAre ==
  /\ op.at = "fence" => CommandOf[op.at] = "fence"
  /\ op.at = "prepare" => CommandOf[op.at] = "prepare"
  /\ op.at = "activate" => CommandOf[op.at] = "activate"
  /\ op.at = "undo_new" => CommandOf[op.at] = "deactivate"
  /\ op.at = "undo_old" => CommandOf[op.at] = "resume"
BY DEF CommandOf

LEMMA ExecutedIs ==
  ASSUME Calling
  PROVE  Executed <=>
           (op.sent /\ Alive(Callee) =>
              /\ op.at = "fence" => handling[Callee] = "fence"
              /\ op.at = "prepare" => handling[Callee] = "prepare"
              /\ op.at = "activate" => handling[Callee] = "activate"
              /\ op.at = "undo_new" => handling[Callee] \in {"pause", "close"}
              /\ op.at = "undo_old" => handling[Callee] = "resume")
BY Calls DEF Executed

\* Where an answer, or the wait for one, takes the operation.
LEMMA SuccessIs ==
  /\ op.at = "fence" => OnSuccess = "quiesce"
  /\ op.at = "prepare" => OnSuccess = "commit"
  /\ op.at = "activate" => OnSuccess = "settle"
  /\ op.at = "undo_new" => OnSuccess = IF op.old = None THEN AfterUndo ELSE "undo_old"
  /\ op.at = "undo_old" => OnSuccess = AfterUndo
BY DEF OnSuccess

LEMMA UndoneIs ==
  /\ op.kind = "startup" => AfterUndo = "exit"
  /\ op.kind # "startup" => AfterUndo \in {"abort", "stop"}
BY DEF AfterUndo

LEMMA Proceeds ==
  ASSUME op \in Operation, NEW at \in OperationSteps, NEW ok \in BOOLEAN, Proceed(at, ok)
  PROVE  /\ op' \in Operation /\ op'.at = at /\ ~op'.sent /\ op'.kind = op.kind /\ op'.new = op.new
         /\ op'.old = op.old /\ op'.was = op.was /\ op'.committed = op.committed
         /\ route' = IF op.at = "activate" /\ ~ok THEN op.old ELSE route
BY DEF Proceed, Operation

\* The ways on from a call.
Ends == {"exit", "abort", "stop"}
LEMMA Replies ==
  ASSUME op \in Operation, Calling, NEW ok \in BOOLEAN, Reply(ok)
  PROVE  /\ op' \in Operation /\ ~op'.sent /\ op'.kind = op.kind /\ op'.new = op.new /\ op'.old = op.old
         /\ op'.was = op.was /\ op'.committed = op.committed
         /\ route' = IF op.at = "activate" /\ ~ok THEN op.old ELSE route
         /\ op.at = "fence" => op'.at = IF ok THEN "quiesce" ELSE "undo_new"
         /\ op.at = "prepare" => op'.at = IF ok THEN "commit" ELSE "undo_new"
         /\ op.at = "activate" => op'.at = IF ok THEN "settle" ELSE "undo_new"
         /\ op.at = "undo_new" /\ op.old # None => op'.at = "undo_old"
         /\ (op.at = "undo_new" /\ op.old = None) \/ op.at = "undo_old" =>
              op'.at \in Ends /\ (op'.at = "exit" <=> op.kind = "startup")
<1>1. PICK at \in OperationSteps : at = IF ok THEN OnSuccess ELSE OnError
  BY Calls, SuccessIs, UndoneIs DEF OnError, OperationSteps
<1>2. Proceed(at, ok)
  BY <1>1 DEF Reply
<1>3. /\ op' \in Operation /\ op'.at = at /\ ~op'.sent /\ op'.kind = op.kind /\ op'.new = op.new
      /\ op'.old = op.old /\ op'.was = op.was /\ op'.committed = op.committed
      /\ route' = IF op.at = "activate" /\ ~ok THEN op.old ELSE route
  BY <1>2, Proceeds
<1>4. /\ op.at = "fence" => at = IF ok THEN "quiesce" ELSE "undo_new"
      /\ op.at = "prepare" => at = IF ok THEN "commit" ELSE "undo_new"
      /\ op.at = "activate" => at = IF ok THEN "settle" ELSE "undo_new"
      /\ op.at = "undo_new" /\ op.old # None => at = "undo_old"
      /\ (op.at = "undo_new" /\ op.old = None) \/ op.at = "undo_old" =>
           at \in Ends /\ (at = "exit" <=> op.kind = "startup")
  BY <1>1, SuccessIs, UndoneIs DEF OnError, Ends
<1> QED BY <1>3, <1>4

LEMMA TimesOut ==
  ASSUME op \in Operation, Calling, Proceed(OnTimeout, FALSE)
  PROVE  /\ op' \in Operation /\ ~op'.sent /\ op'.kind = op.kind /\ op'.new = op.new /\ op'.old = op.old
         /\ op'.was = op.was /\ op'.committed = op.committed
         /\ route' = IF op.at = "activate" THEN op.old ELSE route
         /\ op.at \in {"fence", "prepare", "activate"} => op'.at = "undo_new"
         /\ op.at \in Undoing => op'.at \in Ends /\ (op'.at = "exit" <=> op.kind = "startup")
<1>1. PICK at \in OperationSteps : at = OnTimeout
  BY Calls, SuccessIs, UndoneIs DEF OnError, OnTimeout, OperationSteps
<1>2. Proceed(at, FALSE)
  BY <1>1
<1>3. /\ op' \in Operation /\ op'.at = at /\ ~op'.sent /\ op'.kind = op.kind /\ op'.new = op.new
      /\ op'.old = op.old /\ op'.was = op.was /\ op'.committed = op.committed
      /\ route' = IF op.at = "activate" THEN op.old ELSE route
  BY <1>2, Proceeds
<1>4. /\ op.at \in {"fence", "prepare", "activate"} => at = "undo_new"
      /\ op.at \in Undoing => at \in Ends /\ (at = "exit" <=> op.kind = "startup")
  BY <1>1, SuccessIs, UndoneIs DEF OnError, OnTimeout, Ends, Undoing
<1> QED BY <1>3, <1>4

LEMMA NoFaultIs == ASSUME Types, NoFault PROVE faults' = faults /\ faults' \in Nat
BY DEF Types, NoFault, Faults
LEMMA FaultIs == ASSUME Types, Fault PROVE faults' = faults + 1 /\ faults' \in Nat
BY DEF Types, Fault, Faults

-----------------------------------------------------------------------------
(* Snapshots of the registry.                                              *)

LEMMA SnapshotFields ==
  ASSUME NEW s \in R!Snapshot
  PROVE  /\ s.active \in Generations \cup {None} /\ s.previous \in Generations \cup {None}
         /\ s.pending \in Generations \cup {None} /\ s.staged \in Generations \cup {None}
         /\ s.state \in [Generations -> R!States]
BY DEF R!Snapshot

LEMMA StageIs ==
  ASSUME NEW s \in R!Snapshot, NEW g \in Generations
  PROVE  R!StageIn(s, g) \in R!Snapshot /\ R!StageIn(s, g).active = s.active /\ R!StageIn(s, g).pending = s.pending
BY DEF R!Snapshot, R!StageIn, R!States

LEMMA AdvanceIs ==
  ASSUME NEW s \in R!Snapshot, NEW g \in Generations, NEW to \in {"verified", "ready"}
  PROVE  /\ R!AdvanceIn(s, g, to) \in R!Snapshot /\ R!AdvanceIn(s, g, to).active = s.active
         /\ R!AdvanceIn(s, g, to).pending = s.pending /\ R!AdvanceIn(s, g, to).staged = s.staged
         /\ R!AdvanceIn(s, g, to).state[g] = to
BY DEF R!Snapshot, R!AdvanceIn, R!States

LEMMA FailIs ==
  ASSUME NEW s \in R!Snapshot, NEW g \in Generations
  PROVE  R!FailIn(s, g) \in R!Snapshot /\ R!FailIn(s, g).active = s.active /\ R!FailIn(s, g).pending = s.pending
BY DEF R!Snapshot, R!FailIn, R!States

LEMMA ActivateIs ==
  ASSUME NEW s \in R!Snapshot, NEW g \in Generations
  PROVE  R!ActivateIn(s, g) \in R!Snapshot /\ R!ActivateIn(s, g).active = g
<1>1. PICK f \in [Generations -> R!States] :
        f = [h \in Generations |-> CASE h = g -> "active" [] h # g /\ h = s.active -> "draining"
                                     [] OTHER -> s.state[h]]
  BY DEF R!Snapshot, R!States
<1>2. PICK d \in SUBSET Generations : d = s.dormant \ {g}
  BY DEF R!Snapshot
<1>3. PICK p \in Generations \cup {None} : p = IF s.active = None THEN s.previous ELSE s.active
  BY DEF R!Snapshot
<1>4. R!ActivateIn(s, g) = [s EXCEPT !.state = f, !.dormant = d, !.active = g, !.previous = p,
                                     !.pending = s.previous, !.staged = None]
  BY <1>1, <1>2, <1>3, Zenon DEF R!ActivateIn
<1> QED BY <1>4 DEF R!Snapshot

LEMMA FinalizeIs ==
  ASSUME NEW s \in R!Snapshot
  PROVE  R!FinalizeIn(s) \in R!Snapshot /\ R!FinalizeIn(s).active = s.active /\ R!FinalizeIn(s).pending = None
BY DEF R!Snapshot, R!FinalizeIn

LEMMA AbortIs ==
  ASSUME NEW s \in R!Snapshot, NEW g \in Generations, NEW o \in Generations \cup {None}
  PROVE  R!AbortIn(s, g, o) \in R!Snapshot
BY DEF R!Snapshot, R!AbortIn, R!States

LEMMA RollbackIs ==
  ASSUME NEW s \in R!Snapshot
  PROVE  /\ R!RollbackIn(s) \in R!Snapshot /\ R!RollbackIn(s).active = s.previous
         /\ R!RollbackIn(s).pending = s.pending
BY DEF R!Snapshot, R!RollbackIn, R!States

LEMMA ColdStartIs ==
  ASSUME NEW s \in R!Snapshot, NEW g \in Generations
  PROVE  R!ColdStartIn(s, g) \in R!Snapshot /\ R!ColdStartIn(s, g).active = s.active
<1>1. PICK f \in [Recordings -> R!Lease \cup {R!NoLease}] : f = [r \in Recordings |-> R!NoLease]
  OBVIOUS
<1>2. PICK d \in SUBSET Generations : d = s.dormant \cup {h \in Generations : h # g /\ s.state[h] = "draining"}
  BY DEF R!Snapshot
<1>3. PICK t \in R!Snapshot : t = [s EXCEPT !.lease = f]
  BY DEF R!Snapshot
<1>4. t.dormant = s.dormant /\ t.active = s.active
  BY <1>3 DEF R!Snapshot
<1>5. R!ColdStartIn(s, g) = [t EXCEPT !.dormant = d]
  BY <1>1, <1>2, <1>3, <1>4 DEF R!ColdStartIn, R!ClearLeasesIn, R!Snapshot
<1> QED BY <1>4, <1>5 DEF R!Snapshot

LEMMA PinIs ==
  ASSUME NEW s \in R!Snapshot, NEW r \in Recordings, NEW l \in R!Lease
  PROVE  /\ R!PinIn(s, r, l) \in R!Snapshot /\ R!PinIn(s, r, l).active = s.active
         /\ R!PinIn(s, r, l).pending = s.pending /\ R!PinIn(s, r, l).previous = s.previous
         /\ R!PinIn(s, r, l).staged = s.staged /\ R!PinIn(s, r, l).state = s.state
BY DEF R!Snapshot, R!PinIn

LEMMA ChangeIs ==
  ASSUME Types, NEW t \in R!Snapshot, R!Change(t)
  PROVE  mem' \in R!Snapshot /\ file' \in R!Snapshot /\ mem' \in {mem, t}
BY DEF Types, R!Change

\* What comes of a change of the registry that may fail.
LEMMA Persists ==
  ASSUME Types, NEW t \in R!Snapshot, NEW success \in OperationSteps, NEW failure \in OperationSteps,
         Persist(R!Change(t), success, failure)
  PROVE  /\ mem' \in R!Snapshot /\ file' \in R!Snapshot
         /\ \/ mem' = t /\ faults' = faults /\ faults' \in Nat /\ Goto(success)
            \/ mem' = mem /\ faults' = faults + 1 /\ faults' \in Nat /\ Goto(failure)
<1>1. CASE R!Change(t) /\ mem' # mem /\ NoFault /\ Goto(success)
  BY <1>1, ChangeIs, NoFaultIs
<1>2. CASE PersistFails(R!Change(t)) /\ Goto(failure)
  BY <1>2, ChangeIs, FaultIs DEF PersistFails, registryVars, Types
<1> QED BY <1>1, <1>2 DEF Persist

LEMMA FailsToPersist ==
  ASSUME Types, NEW t \in R!Snapshot, PersistFails(R!Change(t))
  PROVE  mem' = mem /\ mem' \in R!Snapshot /\ file' \in R!Snapshot /\ faults' = faults + 1 /\ faults' \in Nat
BY ChangeIs, FaultIs DEF PersistFails, registryVars, Types

-----------------------------------------------------------------------------
(* Steps of the Host away from the route.                                  *)

LEMMA CalmMoves ==
  ASSUME IInv, Host, op' \in Operation, ~op'.sent, op.at \notin Hot,
         op'.at \notin Hot \/ (op'.at = "fence" /\ op'.old = route),
         faults' \in Nat, faults' >= faults
  PROVE  Gones' /\ (faults' <= 1 => Calm')
<1> USE DEF IInv
<1>1. UNCHANGED <<route, control, gate, requests, handling>>
  BY DEF Host, controlVars
<1>2. Gones'
  BY <1>1 DEF Gones, Alive
<1>3. ASSUME faults' <= 1 PROVE Calm'
  <2>1. Calm
    BY <1>3 DEF Types
  <2>2. Handlers'
    BY <1>1, <2>1 DEF Calm, Handlers, Hot, Undoing
  <2>3. Executed'
    BY DEF Executed
  <2>4. Exclusive'
    BY <1>1, <2>1 DEF Calm, Exclusive, OnlyBusy, Busy, Hot, Passing, Undoing
  <2>5. Serving'
    BY <1>1, <2>1 DEF Calm, Serving, Served, Alive, Hot, Passing, Undoing
  <2> QED BY <2>2, <2>3, <2>4, <2>5 DEF Calm
<1> QED BY <1>2, <1>3

LEMMA FailStagedAtBootKeeps ==
  ASSUME IInv, FailStagedAtBoot
  PROVE  IInv'
<1> USE DEF IInv
<1>1. op.at = "boot" /\ op.kind = "startup" /\ Host /\ mem.staged \in Generations
  BY SnapshotFields DEF FailStagedAtBoot, At, Types
<1>2. PICK t \in R!Snapshot : t = R!FailIn(mem, mem.staged)
  BY <1>1, FailIs DEF Types
<1>3. Persist(R!Change(t), "boot", "exit")
  BY <1>2 DEF FailStagedAtBoot, Persist, PersistFails, R!Fail
<1>4. /\ mem' \in R!Snapshot /\ file' \in R!Snapshot /\ faults' \in Nat /\ faults' >= faults
      /\ \/ Goto("boot") /\ faults' = faults
         \/ Goto("exit") /\ faults' = faults + 1
  <2>1. {"boot", "exit"} \subseteq OperationSteps /\ Types /\ faults \in Nat
    BY DEF OperationSteps, Types
  <2> QED BY <1>3, <2>1, Persists
<1>5. /\ op' \in Operation /\ op'.at \in {"boot", "exit"} /\ op'.kind = "startup"
      /\ op'.sent = op.sent /\ op'.committed = op.committed
  BY <1>1, <1>4, Goes DEF Types, OperationSteps
<1>6. ~op.sent
  BY <1>1, Calls DEF Placed
<1>7. Gones' /\ (faults' <= 1 => Calm')
  BY <1>1, <1>4, <1>5, <1>6, CalmMoves DEF Hot, Passing, Undoing
<1>8. Types'
  BY <1>1, <1>4, <1>5 DEF Types, Host, controlVars
<1>9. Placed' /\ Prepared'
  BY <1>1, <1>5, <1>6 DEF Placed, Prepared, Host, controlVars, Passing, Undoing, Routed
<1>10. faults' = 0 => Faultless'
  BY <1>1, <1>4, <1>5 DEF Faultless, Types, Host, controlVars, Routed
<1> QED BY <1>7, <1>8, <1>9, <1>10

LEMMA ChooseGenerationKeeps ==
  ASSUME IInv, ChooseGeneration
  PROVE  IInv'
<1> USE DEF IInv
<1>1. /\ op.at = "boot" /\ op.kind = "startup" /\ Host /\ UNCHANGED <<mem, file>>
      /\ faults' = faults /\ faults' \in Nat
  BY NoFaultIs DEF ChooseGeneration, At, registryVars
<1>2. PICK g \in Generations, at \in {"engine", "stage"} : Begin("startup", at, g)
  BY SnapshotFields DEF ChooseGeneration, Types
<1>3. /\ op' \in Operation /\ op'.at = at /\ op'.kind = "startup" /\ op'.new = g
      /\ ~op'.sent /\ ~op'.committed
  BY <1>2, Begins DEF OperationSteps
<1>4. Gones' /\ (faults' <= 1 => Calm')
  BY <1>1, <1>3, CalmMoves DEF Hot, Passing, Undoing, Types
<1>5. Types'
  BY <1>1, <1>3 DEF Types, Host, controlVars
<1>6. Placed' /\ Prepared'
  BY <1>1, <1>3 DEF Placed, Prepared, Host, controlVars, Passing, Undoing, Routed
<1>7. faults' = 0 => Faultless'
  BY <1>1, <1>3 DEF Faultless, Host, controlVars
<1> QED BY <1>4, <1>5, <1>6, <1>7

LEMMA BeginKeeps ==
  ASSUME IInv, BeginActivate \/ BeginRollback \/ \E g \in Generations : BeginStage(g)
  PROVE  IInv'
<1> USE DEF IInv
<1>1. /\ op.at = "idle" /\ op.kind = "none" /\ ~op.committed /\ Host /\ UNCHANGED <<mem, file>>
      /\ faults' = faults /\ faults' \in Nat
  BY NoFaultIs, IdleFields DEF BeginActivate, BeginRollback, BeginStage, registryVars
<1>2. PICK g \in Generations, kind \in {"stage", "update", "rollback"}, at \in {"engine", "stage"} :
        /\ Begin(kind, at, g)
        /\ at = "engine" => kind \in {"update", "rollback"}
        /\ kind = "rollback" => mem.previous = g /\ mem.state[mem.previous] = "draining"
  BY SnapshotFields DEF BeginActivate, BeginRollback, BeginStage, Types
<1>3. /\ op' \in Operation /\ op'.at = at /\ op'.kind = kind /\ op'.new = g
      /\ ~op'.sent /\ ~op'.committed
  BY <1>2, Begins DEF OperationSteps
<1>4. Gones' /\ (faults' <= 1 => Calm')
  BY <1>1, <1>3, CalmMoves DEF Hot, Passing, Undoing, Types
<1>5. Types'
  BY <1>1, <1>3 DEF Types, Host, controlVars
<1>6. Placed' /\ Prepared'
  BY <1>1, <1>2, <1>3 DEF Placed, Prepared, Host, controlVars, Passing, Undoing, Routed
<1>7. faults' = 0 => Faultless'
  BY <1>1, <1>2, <1>3 DEF Faultless, Host, controlVars, R!CanRollback
<1> QED BY <1>4, <1>5, <1>6, <1>7

LEMMA StagingKeeps ==
  ASSUME IInv, StageStep \/ VerifyStep
  PROVE  IInv'
<1> USE DEF IInv
<1>1. op.at \in {"stage", "verify"} /\ op.kind \in {"startup", "stage"} /\ Host /\ op.new \in Generations
  BY DEF StageStep, VerifyStep, At, Placed
<1>2. PICK t \in R!Snapshot, success \in {"verify", "end", "engine"}, failure \in {"end", "exit", "fail"} :
        /\ Persist(R!Change(t), success, failure)
        /\ t.active = mem.active /\ t.pending = mem.pending
        /\ success = "end" \/ failure = "end" => op.kind = "stage"
        /\ success = "engine" => op.kind = "startup"
  <2>1. CASE StageStep
    <3>1. PICK t \in R!Snapshot : t = R!StageIn(mem, op.new) /\ t.active = mem.active /\ t.pending = mem.pending
      BY <1>1, StageIs DEF Types
    <3>2. PICK failure \in {"end", "exit"} : failure = IF op.kind = "stage" THEN "end" ELSE "exit"
      OBVIOUS
    <3>3. Persist(R!Change(t), "verify", failure)
      BY <2>1, <3>1, <3>2 DEF StageStep, Persist, PersistFails, R!Stage
    <3> QED BY <3>1, <3>2, <3>3
  <2>2. CASE VerifyStep
    <3>1. PICK t \in R!Snapshot : t = R!AdvanceIn(mem, op.new, "verified") /\ t.active = mem.active /\ t.pending = mem.pending
      <4>1. /\ R!AdvanceIn(mem, op.new, "verified") \in R!Snapshot
            /\ R!AdvanceIn(mem, op.new, "verified").active = mem.active
            /\ R!AdvanceIn(mem, op.new, "verified").pending = mem.pending
        <5>1. mem \in R!Snapshot /\ op.new \in Generations /\ "verified" \in {"verified", "ready"}
          BY <1>1 DEF Types
        <5> QED BY <5>1, AdvanceIs
      <4> QED BY <4>1
    <3>2. PICK success \in {"end", "engine"} : success = IF op.kind = "stage" THEN "end" ELSE "engine"
      OBVIOUS
    <3>3. Persist(R!Change(t), success, "fail")
      BY <2>2, <3>1, <3>2 DEF VerifyStep, Persist, PersistFails, R!MarkVerified
    <3> QED BY <1>1, <3>1, <3>2, <3>3
  <2> QED BY <2>1, <2>2
<1>3. /\ mem' \in R!Snapshot /\ file' \in R!Snapshot /\ faults' \in Nat /\ faults' >= faults
      /\ mem'.active = mem.active /\ mem'.pending = mem.pending
      /\ Goto(success) \/ Goto(failure)
  <2>1. {success, failure} \subseteq OperationSteps /\ Types /\ faults \in Nat
    BY DEF OperationSteps, Types
  <2> QED BY <1>2, <2>1, Persists
<1>4. /\ op' \in Operation /\ op'.at \in {success, failure} /\ op'.kind = op.kind /\ op'.new = op.new
      /\ op'.sent = op.sent /\ op'.committed = op.committed
  BY <1>2, <1>3, Goes DEF Types, OperationSteps
<1>5. ~op.sent
  BY <1>1, Calls DEF Placed
<1>6. Gones' /\ (faults' <= 1 => Calm')
  BY <1>1, <1>2, <1>3, <1>4, <1>5, CalmMoves DEF Hot, Passing, Undoing
<1>7. Types'
  BY <1>1, <1>3, <1>4 DEF Types, Host, controlVars
<1>8. Placed' /\ Prepared'
  BY <1>1, <1>2, <1>4, <1>5 DEF Placed, Prepared, Host, controlVars, Passing, Undoing, Routed
<1>9. faults' = 0 => Faultless'
  BY <1>1, <1>2, <1>3, <1>4 DEF Faultless, Types, Host, controlVars, Routed
<1> QED BY <1>6, <1>7, <1>8, <1>9

LEMMA LaunchEngineKeeps ==
  ASSUME IInv, LaunchEngine
  PROVE  IInv'
<1> USE DEF IInv
<1>1. op.at = "engine" /\ Host /\ UNCHANGED <<mem, file>> /\ op.kind \in {"startup", "update", "rollback"} /\ ~op.sent
  BY Calls DEF LaunchEngine, registryVars, Placed
<1>2. PICK at \in {"launch", "fail", "stop", "end"} :
        /\ Goto(at) /\ faults' \in Nat /\ faults' >= faults
        /\ at \in {"stop", "end"} => op.kind # "startup"
  BY <1>1, NoFaultIs, FaultIs DEF LaunchEngine, Types
<1>3. /\ op' \in Operation /\ op'.at = at /\ op'.kind = op.kind /\ op'.new = op.new
      /\ ~op'.sent /\ op'.committed = op.committed
  BY <1>1, <1>2, Goes DEF Types, OperationSteps
<1>4. Gones' /\ (faults' <= 1 => Calm')
  BY <1>1, <1>2, <1>3, CalmMoves DEF Hot, Passing, Undoing
<1>5. Types'
  BY <1>1, <1>2, <1>3 DEF Types, Host, controlVars
<1>6. Placed' /\ Prepared'
  BY <1>1, <1>2, <1>3 DEF Placed, Prepared, Host, controlVars, Passing, Undoing, Routed
<1>7. faults' = 0 => Faultless'
  BY <1>1, <1>2, <1>3 DEF Faultless, Types, Host, controlVars, Routed
<1> QED BY <1>4, <1>5, <1>6, <1>7

LEMMA MarkReadyKeeps ==
  ASSUME IInv, MarkReadyStep
  PROVE  IInv'
<1> USE DEF IInv
<1>1. op.at = "mark" /\ op.kind \in {"startup", "update"} /\ Host /\ op.new \in Generations /\ ~op.sent
  BY Calls DEF MarkReadyStep, Placed
<1>2. PICK t \in R!Snapshot :
        /\ t = R!AdvanceIn(mem, op.new, "ready") /\ t.active = mem.active /\ t.pending = mem.pending
        /\ t.staged = mem.staged /\ t.state[op.new] = "ready"
  <2>1. mem \in R!Snapshot /\ op.new \in Generations /\ "ready" \in {"verified", "ready"}
    BY <1>1 DEF Types
  <2> QED BY <2>1, AdvanceIs
<1>3. PICK success \in {"promote", "enter"}, failure \in {"fail", "stop"} :
        /\ Persist(R!Change(t), success, failure)
        /\ Goto(failure) \/ R!CanAdvance(mem, op.new, "verified")
        /\ op.kind = "startup" <=> success = "promote"
        /\ op.kind = "startup" <=> failure = "fail"
  <2>1. CASE op.kind = "startup"
    <3>1. /\ Persist(R!Change(t), "promote", "fail")
          /\ Goto("fail") \/ R!CanAdvance(mem, op.new, "verified")
      BY <1>2, <2>1 DEF MarkReadyStep, Persist, PersistFails, R!MarkReady
    <3> QED BY <2>1, <3>1
  <2>2. CASE op.kind # "startup"
    <3>1. /\ Persist(R!Change(t), "enter", "stop")
          /\ Goto("stop") \/ R!CanAdvance(mem, op.new, "verified")
      BY <1>2, <2>2 DEF MarkReadyStep, Persist, PersistFails, R!MarkReady
    <3> QED BY <2>2, <3>1
  <2> QED BY <2>1, <2>2
<1>4. /\ mem' \in R!Snapshot /\ file' \in R!Snapshot /\ faults' \in Nat /\ faults' >= faults
      /\ mem'.active = mem.active /\ mem'.pending = mem.pending
      /\ \/ Goto(success) /\ mem' = t
         \/ Goto(failure) /\ faults' = faults + 1
  <2>1. {success, failure} \subseteq OperationSteps /\ faults \in Nat
    BY DEF OperationSteps, Types
  <2>2. /\ mem' \in R!Snapshot /\ file' \in R!Snapshot
        /\ \/ mem' = t /\ faults' = faults /\ faults' \in Nat /\ Goto(success)
           \/ mem' = mem /\ faults' = faults + 1 /\ faults' \in Nat /\ Goto(failure)
    BY <1>3, <2>1, Persists
  <2> QED BY <1>2, <2>1, <2>2
<1>5. /\ op' \in Operation /\ op'.at \in {success, failure} /\ op'.kind = op.kind /\ op'.new = op.new
      /\ ~op'.sent /\ op'.committed = op.committed
      /\ \/ op'.at = success /\ mem' = t
         \/ op'.at = failure /\ faults' = faults + 1
      /\ op'.at = failure <=> Goto(failure)
  BY <1>1, <1>3, <1>4, Goes DEF Types, OperationSteps
<1>6. op'.at = success => R!CanActivate(mem', op'.new)
  BY <1>2, <1>3, <1>4, <1>5 DEF R!CanAdvance, R!CanActivate
<1>7. Gones' /\ (faults' <= 1 => Calm')
  BY <1>1, <1>3, <1>4, <1>5, CalmMoves DEF Hot, Passing, Undoing
<1>8. Types'
  BY <1>1, <1>4, <1>5 DEF Types, Host, controlVars
<1>9. Placed' /\ Prepared'
  BY <1>1, <1>3, <1>5, <1>6 DEF Placed, Prepared, Host, controlVars, Passing, Undoing, Routed
<1>10. faults' = 0 => Faultless'
  <2>1. ASSUME faults' = 0 PROVE Faultless /\ op'.at = success /\ faults = 0
    BY <2>1, <1>3, <1>4, <1>5 DEF Types
  <2> QED BY <2>1, <1>1, <1>3, <1>4, <1>5 DEF Faultless, Host, controlVars, Routed, Is
<1> QED BY <1>7, <1>8, <1>9, <1>10

LEMMA PromoteKeeps ==
  ASSUME IInv, Promote
  PROVE  IInv'
<1> USE DEF IInv
<1>1. op.at = "promote" /\ op.kind = "startup" /\ Host /\ op.new \in Generations /\ ~op.sent
  BY Calls DEF Promote, Placed
<1>2. PICK t \in R!Snapshot : t = R!ActivateIn(mem, op.new) /\ t.active = op.new
  BY <1>1, ActivateIs DEF Types
<1>3. Persist(R!Change(t), "cold", "fail")
  BY <1>2 DEF Promote, Persist, PersistFails, R!Activate
<1>4. /\ mem' \in R!Snapshot /\ file' \in R!Snapshot /\ faults' \in Nat /\ faults' >= faults
      /\ \/ Goto("cold") /\ mem' = t
         \/ Goto("fail") /\ faults' = faults + 1
  <2>1. {"cold", "fail"} \subseteq OperationSteps /\ Types /\ faults \in Nat
    BY DEF OperationSteps, Types
  <2> QED BY <1>3, <2>1, Persists
<1>5. /\ op' \in Operation /\ op'.kind = op.kind /\ op'.new = op.new
      /\ ~op'.sent /\ op'.committed = op.committed
      /\ \/ op'.at = "cold" /\ mem' = t
         \/ op'.at = "fail" /\ faults' = faults + 1
  BY <1>1, <1>4, Goes DEF Types, OperationSteps
<1>7. Gones' /\ (faults' <= 1 => Calm')
  BY <1>1, <1>4, <1>5, CalmMoves DEF Hot, Passing, Undoing
<1>8. Types'
  BY <1>1, <1>4, <1>5 DEF Types, Host, controlVars
<1>9. Placed' /\ Prepared'
  BY <1>1, <1>2, <1>5 DEF Placed, Prepared, Host, controlVars, Passing, Undoing, Routed
<1>10. faults' = 0 => Faultless'
  <2>1. ASSUME faults' = 0 PROVE Faultless /\ op'.at = "cold" /\ faults = 0
    BY <2>1, <1>4, <1>5 DEF Types
  <2> QED BY <2>1, <1>1, <1>5 DEF Faultless, Host, controlVars, Routed, Is
<1> QED BY <1>7, <1>8, <1>9, <1>10

LEMMA ColdStartKeeps ==
  ASSUME IInv, ColdStart
  PROVE  IInv'
<1> USE DEF IInv
<1>1. op.at = "cold" /\ op.kind = "startup" /\ Host /\ op.new \in Generations /\ ~op.sent
  BY Calls DEF ColdStart, Placed
<1>2. PICK t \in R!Snapshot : t = R!ColdStartIn(mem, op.new) /\ t.active = mem.active
  BY <1>1, ColdStartIs DEF Types
<1>3. \/ R!Change(t) /\ mem' = t /\ NoFault /\ Goto("enter")
      \/ PersistFails(R!Change(t)) /\ Goto("exit")
  BY <1>2 DEF ColdStart, PersistFails, R!ReconcileColdStart
<1>4. /\ mem' \in R!Snapshot /\ file' \in R!Snapshot /\ faults' \in Nat /\ faults' >= faults
      /\ mem'.active = mem.active
      /\ \/ Goto("enter")
         \/ Goto("exit") /\ faults' = faults + 1
  BY <1>2, <1>3, ChangeIs, NoFaultIs, FailsToPersist DEF Types
<1>5. /\ op' \in Operation /\ op'.kind = op.kind /\ op'.new = op.new
      /\ ~op'.sent /\ op'.committed = op.committed
      /\ op'.at = "enter" \/ (op'.at = "exit" /\ faults' = faults + 1)
  BY <1>1, <1>4, Goes DEF Types, OperationSteps
<1>7. Gones' /\ (faults' <= 1 => Calm')
  BY <1>1, <1>4, <1>5, CalmMoves DEF Hot, Passing, Undoing
<1>8. Types'
  BY <1>1, <1>4, <1>5 DEF Types, Host, controlVars
<1>9. Placed' /\ Prepared'
  BY <1>1, <1>4, <1>5 DEF Placed, Prepared, Host, controlVars, Passing, Undoing, Routed
<1>10. faults' = 0 => Faultless'
  <2>1. ASSUME faults' = 0 PROVE Faultless /\ op'.at = "enter" /\ faults = 0
    BY <2>1, <1>4, <1>5 DEF Types
  <2> QED BY <2>1, <1>1, <1>5 DEF Faultless, Host, controlVars, Routed, Is
<1> QED BY <1>7, <1>8, <1>9, <1>10

\* The supervisor launches at most one Control of a generation, and that one
\* is passive: nothing else of it runs.
LEMMA LaunchKeeps ==
  ASSUME IInv, Launch
  PROVE  IInv'
<1> USE DEF IInv
<1>1. /\ op.at = "launch" /\ op.new \in Generations /\ ~op.sent /\ op.kind \in {"startup", "update", "rollback"}
      /\ UNCHANGED <<mem, file, route, gate, requests, handling>>
  BY Calls DEF Launch, Placed, registryVars
<1>2. CASE Started(op.new) /\ NoFault /\ Goto(CASE op.kind = "rollback" -> "enter"
                  [] op.kind = "startup" /\ mem.active = op.new -> "cold"
                  [] OTHER -> "mark")
  <2>1. PICK at \in {"enter", "cold", "mark"} :
          /\ Goto(at)
          /\ at = "enter" <=> op.kind = "rollback"
          /\ at = "cold" <=> op.kind = "startup" /\ mem.active = op.new
    BY <1>2
  <2>2. /\ op' \in Operation /\ op'.kind = op.kind /\ op'.new = op.new /\ op'.at = at
        /\ ~op'.sent /\ op'.committed = op.committed
    BY <1>1, <2>1, Goes DEF Types, OperationSteps
  <2>3. /\ faults' = faults /\ faults' \in Nat /\ control[op.new] = "absent"
        /\ control' = [control EXCEPT ![op.new] = "passive"]
    BY <1>2, NoFaultIs DEF Started
  <2>4. /\ ~gate[op.new] /\ requests[op.new] = 0 /\ handling[op.new] = "none"
    BY <1>1, <2>3 DEF Gones, Alive, Living
  <2>5. route # op.new
    BY <1>1, <2>3 DEF Placed
  <2>6. \A g \in Generations : g # op.new => control'[g] = control[g]
    BY <2>3 DEF Types
  <2>7. control'[op.new] = "passive"
    BY <1>1, <2>3 DEF Types
  <2>8. Types'
    BY <1>1, <2>2, <2>3 DEF Types, ControlStates, Living
  <2>9. Placed' /\ Prepared'
    BY <1>1, <2>1, <2>2, <2>6, <2>7 DEF Placed, Prepared, Passing, Undoing, Routed, Types
  <2>10. Gones'
    BY <1>1, <2>3, <2>6, <2>7 DEF Gones, Alive, Living
  <2>11. ASSUME faults' <= 1 PROVE Calm'
    <3>1. Calm
      BY <2>11, <2>3
    <3>2. Handlers'
      BY <1>1, <2>1, <2>2, <2>4, <2>6, <2>7, <3>1 DEF Calm, Handlers
    <3>3. Executed'
      BY <2>2 DEF Executed
    <3>4. Exclusive'
      BY <1>1, <2>1, <2>2, <2>4, <2>6, <2>7, <3>1 DEF Calm, Exclusive, OnlyBusy, Busy, Passing
    <3>5. Serving'
      <4>1. Served(route)
        BY <1>1, <3>1 DEF Calm, Serving, Hot, Passing, Undoing
      <4>2. Served(route)'
        BY <1>1, <2>5, <2>6, <4>1 DEF Served, Alive, Types
      <4> QED BY <2>1, <2>2, <4>2 DEF Serving, Passing, Undoing
    <3> QED BY <3>2, <3>3, <3>4, <3>5 DEF Calm
  <2>12. ASSUME faults' = 0 PROVE Faultless'
    <3>1. Faultless
      BY <2>12, <2>3
    <3> QED BY <1>1, <2>1, <2>2, <2>4, <2>6, <2>7, <3>1 DEF Faultless, Is, Routed
  <2> QED BY <2>8, <2>9, <2>10, <2>11, <2>12
<1>3. CASE /\ NotReady(op.new) \/ (control[op.new] # "absent" /\ NoFault)
           /\ Goto(IF op.kind = "startup" THEN "fail" ELSE "stop")
           /\ UNCHANGED control
  <2>1. PICK at \in {"fail", "stop"} : Goto(at) /\ (at = "fail" <=> op.kind = "startup")
    BY <1>3
  <2>2. /\ op' \in Operation /\ op'.kind = op.kind /\ op'.new = op.new /\ op'.at = at
        /\ ~op'.sent /\ op'.committed = op.committed
    BY <1>1, <2>1, Goes DEF Types, OperationSteps
  <2>3. faults' \in Nat /\ faults' >= faults
    BY <1>3, NoFaultIs, FaultIs DEF NotReady, Types
  <2>4. Host
    BY <1>1, <1>3 DEF Host, controlVars
  <2>5. Gones' /\ (faults' <= 1 => Calm')
    BY <1>1, <2>1, <2>2, <2>3, <2>4, CalmMoves DEF Hot, Passing, Undoing
  <2>6. Types'
    BY <1>1, <2>2, <2>3, <2>4 DEF Types, Host, controlVars
  <2>7. Placed' /\ Prepared'
    BY <1>1, <2>1, <2>2, <2>4 DEF Placed, Prepared, Host, controlVars, Passing, Undoing, Routed
  <2>8. faults' = 0 => Faultless'
    <3>1. ASSUME faults' = 0 PROVE Faultless
      BY <3>1, <2>3 DEF Types
    <3> QED BY <1>1, <2>1, <2>2, <2>4, <3>1 DEF Faultless, Host, controlVars, Routed, Is
  <2> QED BY <2>5, <2>6, <2>7, <2>8
<1> QED BY <1>2, <1>3 DEF Launch

-----------------------------------------------------------------------------
(* Endings of an operation.                                                *)

LEMMA FinishOperationKeeps ==
  ASSUME IInv, FinishOperation
  PROVE  IInv'
<1> USE DEF IInv
<1>1. /\ op.at = "finish" /\ Host /\ UNCHANGED <<mem, file>> /\ faults' = faults /\ faults' \in Nat
      /\ ~op.sent /\ route = op.new /\ op.new \in Generations
      /\ op.kind = "startup" => mem.active = op.new
  BY NoFaultIs, Calls DEF FinishOperation, registryVars, Placed, Routed
<1>2. \/ mem.active # op.new /\ Goto("stop")
      \/ mem.active = op.new /\ (op.kind = "rollback" \/ (op.kind = "startup" /\ mem.pending = None)) /\ End
      \/ mem.active = op.new /\ Goto("finalize")
  BY <1>1 DEF FinishOperation
<1>3. /\ op' \in Operation /\ ~op'.sent /\ op'.at \in {"stop", "idle", "finalize"}
      /\ op'.at # "idle" => op'.kind = op.kind /\ op'.new = op.new /\ op'.committed = op.committed
      /\ op'.at = "idle" => op'.kind = "none" /\ ~op'.committed
      /\ op'.at = "stop" <=> mem.active # op.new
      /\ op'.at = "idle" => op.kind = "rollback" \/ (op.kind = "startup" /\ mem.pending = None)
  BY <1>1, <1>2, Goes, IdleFields DEF End, Types, OperationSteps
<1>4. Gones' /\ (faults' <= 1 => Calm')
  BY <1>1, <1>3, CalmMoves DEF Hot, Passing, Undoing
<1>5. Types'
  BY <1>1, <1>3 DEF Types, Host, controlVars
<1>6. Placed' /\ Prepared'
  BY <1>1, <1>3 DEF Placed, Prepared, Host, controlVars, Passing, Undoing, Routed
<1>7. faults' = 0 => Faultless'
  BY <1>1, <1>3 DEF Faultless, Host, controlVars, Routed
<1> QED BY <1>4, <1>5, <1>6, <1>7

LEMMA FinalizeKeeps ==
  ASSUME IInv, Finalize
  PROVE  IInv'
<1> USE DEF IInv
<1>1. /\ op.at = "finalize" /\ Host /\ ~op.sent /\ op.new \in Generations
      /\ op.kind = "startup" => mem.active = op.new
  BY Calls DEF Finalize, Placed, Routed
<1>2. PICK t \in R!Snapshot : t = R!FinalizeIn(mem) /\ t.active = mem.active /\ t.pending = None
  BY <1>1, FinalizeIs DEF Types
<1>3. \/ R!Change(t) /\ mem' = t /\ NoFault /\ End
      \/ PersistFails(R!Change(t)) /\ op.kind = "startup" /\ Goto("exit")
      \/ PersistFails(R!Change(t)) /\ End
  BY <1>2 DEF Finalize, PersistFails, R!FinalizeActivation
<1>4. /\ mem' \in R!Snapshot /\ file' \in R!Snapshot /\ faults' \in Nat /\ faults' >= faults
      /\ \/ mem' = t /\ faults' = faults /\ End
         \/ mem' = mem /\ faults' = faults + 1 /\ (End \/ (op.kind = "startup" /\ Goto("exit")))
  <2>1. CASE R!Change(t) /\ mem' = t /\ NoFault /\ End
    BY <2>1, ChangeIs, NoFaultIs DEF Types
  <2>2. CASE PersistFails(R!Change(t)) /\ (End \/ (op.kind = "startup" /\ Goto("exit")))
    BY <2>2, FailsToPersist DEF Types
  <2> QED BY <1>3, <2>1, <2>2
<1>5. /\ op' \in Operation /\ ~op'.sent /\ ~op'.sent
      /\ \/ op'.at = "exit" /\ op'.kind = "startup" /\ op'.new = op.new /\ faults' = faults + 1
         \/ op'.at = "idle" /\ op'.kind = "none" /\ ~op'.committed
  BY <1>1, <1>4, Goes, IdleFields DEF End, Types, OperationSteps
<1>6. Gones' /\ (faults' <= 1 => Calm')
  BY <1>1, <1>4, <1>5, CalmMoves DEF Hot, Passing, Undoing
<1>7. Types'
  BY <1>1, <1>4, <1>5 DEF Types, Host, controlVars
<1>8. Placed' /\ Prepared'
  BY <1>1, <1>5 DEF Placed, Prepared, Host, controlVars, Passing, Undoing, Routed
<1>9. faults' = 0 => Faultless'
  <2>1. ASSUME faults' = 0
        PROVE  Faultless /\ mem' = t /\ op'.at = "idle" /\ op'.kind = "none" /\ ~op'.committed
    BY <2>1, <1>4, <1>5 DEF Types
  <2> QED BY <2>1, <1>1, <1>2 DEF Faultless, Host, controlVars, Routed
<1> QED BY <1>6, <1>7, <1>8, <1>9

LEMMA FailCandidateKeeps ==
  ASSUME IInv, FailCandidate
  PROVE  IInv'
<1> USE DEF IInv
<1>1. op.at = "fail" /\ Host /\ ~op.sent /\ op.new \in Generations
  BY Calls DEF FailCandidate, Placed
<1>2. PICK t \in R!Snapshot : t = R!FailIn(mem, op.new) /\ t.active = mem.active /\ t.pending = mem.pending
  BY <1>1, FailIs DEF Types
<1>3. PICK next \in {"exit", "end"} : next = IF op.kind = "startup" THEN "exit" ELSE "end"
  OBVIOUS
<1>4. \/ Persist(R!Change(t), next, next)
      \/ NoFault /\ Goto(next) /\ UNCHANGED registryVars
  BY <1>2, <1>3 DEF FailCandidate, Persist, PersistFails, R!Fail
<1>5. /\ mem' \in R!Snapshot /\ file' \in R!Snapshot /\ faults' \in Nat /\ faults' >= faults
      /\ mem'.active = mem.active /\ mem'.pending = mem.pending /\ Goto(next)
  <2>1. next \in OperationSteps /\ Types /\ faults \in Nat /\ mem \in R!Snapshot /\ file \in R!Snapshot
    BY DEF OperationSteps, Types
  <2>2. CASE Persist(R!Change(t), next, next)
    BY <1>2, <2>1, <2>2, Persists
  <2>3. CASE NoFault /\ Goto(next) /\ UNCHANGED registryVars
    BY <2>1, <2>3, NoFaultIs DEF registryVars
  <2> QED BY <1>4, <2>2, <2>3
<1>6. /\ op' \in Operation /\ op'.at = next /\ op'.kind = op.kind /\ op'.new = op.new
      /\ ~op'.sent /\ op'.committed = op.committed
  BY <1>1, <1>3, <1>5, Goes DEF Types, OperationSteps
<1>7. Gones' /\ (faults' <= 1 => Calm')
  BY <1>1, <1>3, <1>5, <1>6, CalmMoves DEF Hot, Passing, Undoing
<1>8. Types'
  BY <1>1, <1>5, <1>6 DEF Types, Host, controlVars
<1>9. Placed' /\ Prepared'
  BY <1>1, <1>3, <1>6 DEF Placed, Prepared, Host, controlVars, Passing, Undoing, Routed
<1>10. faults' = 0 => Faultless'
  <2>1. ASSUME faults' = 0 PROVE Faultless
    BY <2>1, <1>5 DEF Types
  <2> QED BY <2>1, <1>1, <1>3, <1>5, <1>6 DEF Faultless, Host, controlVars, Routed
<1> QED BY <1>7, <1>8, <1>9, <1>10

LEMMA EndOperationKeeps ==
  ASSUME IInv, EndOperation
  PROVE  IInv'
<1> USE DEF IInv
<1>1. /\ op.at = "end" /\ Host /\ UNCHANGED <<mem, file>> /\ faults' = faults /\ faults' \in Nat
      /\ op' = Idle
  BY NoFaultIs DEF EndOperation, registryVars, End
<1>2. Gones' /\ (faults' <= 1 => Calm')
  BY <1>1, IdleFields, CalmMoves DEF Hot, Passing, Undoing, Types
<1>3. Types'
  BY <1>1, IdleFields DEF Types, Host, controlVars
<1>4. Placed' /\ Prepared'
  BY <1>1, IdleFields DEF Placed, Prepared, Host, controlVars, Passing, Undoing, Routed
<1>5. faults' = 0 => Faultless'
  BY <1>1, IdleFields DEF Faultless, Host, controlVars, Routed, Placed
<1> QED BY <1>2, <1>3, <1>4, <1>5

\* An operation is aborted only after something has failed.
LEMMA AbortKeeps ==
  ASSUME IInv, Abort
  PROVE  IInv'
<1> USE DEF IInv
<1>1. op.at = "abort" /\ Host /\ ~op.sent /\ op.new \in Generations /\ op.kind # "startup" /\ faults # 0
  BY Calls DEF Abort, Placed, Faultless
<1>2. PICK t \in R!Snapshot :
        Persist(R!Change(t), "stop", "stop") \/ (NoFault /\ Goto("stop") /\ UNCHANGED registryVars)
  <2>1. PICK t \in R!Snapshot : t = R!AbortIn(mem, op.new, op.was)
    BY <1>1, AbortIs DEF Types, Operation
  <2>2. PICK u \in R!Snapshot : u = R!RollbackIn(mem)
    BY RollbackIs DEF Types
  <2>3. \/ Persist(R!Change(t), "stop", "stop") \/ Persist(R!Change(u), "stop", "stop")
        \/ NoFault /\ Goto("stop") /\ UNCHANGED registryVars
    BY <2>1, <2>2 DEF Abort, Persist, PersistFails, R!AbortActivation, R!Rollback
  <2> QED BY <2>3
<1>3. /\ mem' \in R!Snapshot /\ file' \in R!Snapshot /\ faults' \in Nat /\ faults' >= faults /\ Goto("stop")
  <2>1. "stop" \in OperationSteps /\ Types /\ faults \in Nat /\ mem \in R!Snapshot /\ file \in R!Snapshot
    BY DEF OperationSteps, Types
  <2>2. CASE Persist(R!Change(t), "stop", "stop")
    BY <2>1, <2>2, Persists
  <2>3. CASE NoFault /\ Goto("stop") /\ UNCHANGED registryVars
    BY <2>1, <2>3, NoFaultIs DEF registryVars
  <2> QED BY <1>2, <2>2, <2>3
<1>4. /\ op' \in Operation /\ op'.at = "stop" /\ op'.kind = op.kind /\ op'.new = op.new /\ ~op'.sent
  BY <1>1, <1>3, Goes DEF Types, OperationSteps
<1>5. Gones' /\ (faults' <= 1 => Calm')
  BY <1>1, <1>3, <1>4, CalmMoves DEF Hot, Passing, Undoing
<1>6. Types'
  BY <1>1, <1>3, <1>4 DEF Types, Host, controlVars
<1>7. Placed' /\ Prepared'
  BY <1>1, <1>4 DEF Placed, Prepared, Host, controlVars, Passing, Undoing, Routed
<1>8. faults' # 0
  BY <1>1, <1>3 DEF Types
<1> QED BY <1>5, <1>6, <1>7, <1>8

\* Stopping a Control that the route does not name.
LEMMA GoneIs ==
  ASSUME Types, NEW g \in Generations, NEW next \in {"absent", "exited"}, Gone(g, next)
  PROVE  /\ control' \in [Generations -> ControlStates] /\ gate' \in [Generations -> BOOLEAN]
         /\ requests' \in [Generations -> Nat] /\ handling' \in [Generations -> Handlings]
         /\ control'[g] = next /\ ~gate'[g] /\ requests'[g] = 0 /\ handling'[g] = "none"
         /\ \A h \in Generations : h # g => /\ control'[h] = control[h] /\ gate'[h] = gate[h]
                                            /\ requests'[h] = requests[h] /\ handling'[h] = handling[h]
BY DEF Types, Gone, ControlStates, Handlings

LEMMA GoneMoves ==
  ASSUME IInv, NEW g \in Generations, NEW next \in {"absent", "exited"}, Gone(g, next),
         g # route, route' = route, op' \in Operation, ~op'.sent, op.at \notin Hot, op'.at \notin Hot,
         faults' \in Nat, faults' >= faults
  PROVE  Gones' /\ (faults' <= 1 => Calm')
<1> USE DEF IInv
<1>1. /\ control'[g] = next /\ ~gate'[g] /\ requests'[g] = 0 /\ handling'[g] = "none"
      /\ \A h \in Generations : h # g => /\ control'[h] = control[h] /\ gate'[h] = gate[h]
                                         /\ requests'[h] = requests[h] /\ handling'[h] = handling[h]
  BY GoneIs
<1>2. Gones'
  BY <1>1 DEF Gones, Alive
<1>3. ASSUME faults' <= 1 PROVE Calm'
  <2>1. Calm
    BY <1>3 DEF Types
  <2>2. Handlers'
    BY <1>1, <2>1 DEF Calm, Handlers, Hot, Undoing
  <2>3. Executed'
    BY DEF Executed
  <2>4. Exclusive'
    BY <1>1, <2>1 DEF Calm, Exclusive, OnlyBusy, Busy, Hot, Passing, Undoing
  <2>5. Serving'
    BY <1>1, <2>1 DEF Calm, Serving, Served, Alive, Hot, Passing, Undoing, Types
  <2> QED BY <2>2, <2>3, <2>4, <2>5 DEF Calm
<1> QED BY <1>2, <1>3

LEMMA StopCandidateKeeps ==
  ASSUME IInv, StopCandidate
  PROVE  IInv'
<1> USE DEF IInv
<1>1. /\ op.at = "stop" /\ op.kind # "startup" /\ ~op.sent /\ op.new \in Generations
      /\ UNCHANGED <<mem, file, route>>
  BY Calls DEF StopCandidate, registryVars, Placed
<1>2. CASE Kept /\ End /\ NoFault /\ UNCHANGED controlVars
  <2>1. op' = Idle /\ faults' = faults /\ faults' \in Nat /\ Host
    BY <1>1, <1>2, NoFaultIs DEF End, Host
  <2>2. Gones' /\ (faults' <= 1 => Calm')
    BY <1>1, <2>1, IdleFields, CalmMoves DEF Hot, Passing, Undoing, Types
  <2>3. Types'
    BY <1>1, <2>1, IdleFields DEF Types, Host, controlVars
  <2>4. Placed' /\ Prepared'
    BY <1>1, <2>1, IdleFields DEF Placed, Prepared, Host, controlVars, Passing, Undoing, Routed
  <2>5. faults' = 0 => Faultless'
    BY <1>1, <2>1, IdleFields DEF Faultless, Host, controlVars, Routed
  <2> QED BY <2>2, <2>3, <2>4, <2>5
<1>3. CASE /\ ~Kept /\ Goto(IF op.kind = "update" THEN "fail" ELSE "end")
           /\ (Gone(op.new, "absent") /\ NoFault) \/ (UNCHANGED controlVars /\ Fault)
  <2>1. PICK at \in {"fail", "end"} : Goto(at) /\ (at = "fail" <=> op.kind = "update")
    BY <1>3
  <2>2. /\ op' \in Operation /\ op'.kind = op.kind /\ op'.new = op.new /\ op'.at = at
        /\ ~op'.sent /\ op'.committed = op.committed
    BY <1>1, <2>1, Goes DEF Types, OperationSteps
  <2>3. faults' \in Nat /\ faults' >= faults
    BY <1>3, NoFaultIs, FaultIs DEF Types
  <2>4. op.new # route
    BY <1>3 DEF Kept
  <2>5. /\ control' \in [Generations -> ControlStates] /\ gate' \in [Generations -> BOOLEAN]
        /\ requests' \in [Generations -> Nat] /\ handling' \in [Generations -> Handlings]
        /\ \A h \in Generations : h # op.new => control'[h] = control[h]
        /\ control'[op.new] \in {"absent", control[op.new]}
    BY <1>1, <1>3, GoneIs DEF Types, controlVars
  <2>6. Gones' /\ (faults' <= 1 => Calm')
    <3>1. CASE Gone(op.new, "absent")
      BY <3>1, <1>1, <2>1, <2>2, <2>3, <2>4, GoneMoves DEF Hot, Passing, Undoing
    <3>2. CASE UNCHANGED controlVars
      BY <3>2, <1>1, <2>1, <2>2, <2>3, CalmMoves DEF Hot, Passing, Undoing, Host
    <3> QED BY <1>3, <3>1, <3>2
  <2>7. Types'
    BY <1>1, <2>2, <2>3, <2>5 DEF Types
  <2>8. Placed' /\ Prepared'
    BY <1>1, <2>1, <2>2, <2>4, <2>5 DEF Placed, Prepared, Passing, Undoing, Routed, Types
  <2>9. faults' = 0 => Faultless'
    <3>1. ASSUME faults' = 0 PROVE Faultless
      BY <3>1, <2>3 DEF Types
    <3> QED BY <1>1, <2>1, <2>2, <2>5, <3>1 DEF Faultless, Routed
  <2> QED BY <2>6, <2>7, <2>8, <2>9
<1> QED BY <1>2, <1>3 DEF StopCandidate

\* The old Control is stopped after the new one has the route.
LEMMA SettleKeeps ==
  ASSUME IInv, Settle
  PROVE  IInv'
<1> USE DEF IInv
<1>1. /\ op.at = "settle" /\ ~op.sent /\ op.new \in Generations /\ route = op.new /\ op.old # op.new
      /\ UNCHANGED <<mem, file, route>> /\ Goto("finish") /\ op.old \in Generations \cup {None}
      /\ op.kind = "startup" => mem.active = op.new
  BY Calls DEF Settle, registryVars, Placed, Routed, Types, Operation
<1>2. /\ op' \in Operation /\ op'.kind = op.kind /\ op'.new = op.new /\ op'.old = op.old /\ op'.at = "finish"
      /\ ~op'.sent /\ op'.committed = op.committed
  BY <1>1, Goes DEF Types, OperationSteps
<1>3. /\ faults' \in Nat /\ faults' >= faults
      /\ \/ UNCHANGED controlVars
         \/ op.old # None /\ Gone(op.old, "absent")
         \/ op.old # None /\ Gone(op.old, "exited") /\ faults' = faults + 1
  BY NoFaultIs, FaultIs DEF Settle, Types
<1>4. Gones' /\ (faults' <= 1 => Calm')
  <2>1. CASE UNCHANGED controlVars
    BY <2>1, <1>1, <1>2, <1>3, CalmMoves DEF Hot, Passing, Undoing, Host
  <2>2. ASSUME op.old # None, NEW next \in {"absent", "exited"}, Gone(op.old, next)
        PROVE  Gones' /\ (faults' <= 1 => Calm')
    <3>1. PICK g \in Generations : g = op.old
      BY <2>2, <1>1
    <3>2. Gone(g, next) /\ g # route
      BY <3>1, <2>2, <1>1
    <3> QED BY <3>2, <1>1, <1>2, <1>3, GoneMoves DEF Hot, Passing, Undoing
  <2> QED BY <1>3, <2>1, <2>2
<1>5. /\ control' \in [Generations -> ControlStates] /\ gate' \in [Generations -> BOOLEAN]
      /\ requests' \in [Generations -> Nat] /\ handling' \in [Generations -> Handlings]
      /\ control'[op.new] = control[op.new]
      /\ \A h \in Generations : control'[h] \in {control[h], "absent"} \/ faults' = faults + 1
  <2>1. CASE UNCHANGED controlVars
    BY <2>1, <1>1 DEF Types, controlVars
  <2>2. ASSUME op.old # None, NEW next \in {"absent", "exited"}, Gone(op.old, next)
        PROVE  /\ control' \in [Generations -> ControlStates] /\ gate' \in [Generations -> BOOLEAN]
               /\ requests' \in [Generations -> Nat] /\ handling' \in [Generations -> Handlings]
               /\ control'[op.new] = control[op.new]
               /\ \A h \in Generations : control'[h] \in {control[h], next}
    <3>1. PICK g \in Generations : g = op.old
      BY <2>2, <1>1
    <3>2. Gone(g, next) /\ g # op.new
      BY <3>1, <2>2, <1>1
    <3> QED BY <3>2, <1>1, GoneIs
  <2> QED BY <1>3, <2>1, <2>2
<1>6. Types'
  BY <1>1, <1>2, <1>3, <1>5 DEF Types
<1>7. Placed' /\ Prepared'
  BY <1>1, <1>2, <1>5 DEF Placed, Prepared, Passing, Undoing, Routed
<1>8. faults' = 0 => Faultless'
  <2>1. ASSUME faults' = 0 PROVE Faultless /\ \A h \in Generations : control'[h] \in {control[h], "absent"}
    BY <2>1, <1>3, <1>5 DEF Types
  <2> QED BY <1>1, <1>2, <2>1 DEF Faultless, Routed
<1> QED BY <1>4, <1>6, <1>7, <1>8

\* A Host that starts again finds no Control.
LEMMA RestartKeeps ==
  ASSUME IInv, HostCrash \/ Exit
  PROVE  IInv'
<1> USE DEF IInv
<1>1. /\ mem' = file /\ file' = file /\ route' = None /\ op' = Boot
      /\ control' = [g \in Generations |-> "absent"] /\ gate' = [g \in Generations |-> FALSE]
      /\ requests' = [g \in Generations |-> 0] /\ handling' = [g \in Generations |-> "none"]
  BY DEF HostCrash, Exit, Restart, R!Reopen
<1>2. faults' \in Nat
  BY NoFaultIs, FaultIs DEF HostCrash, Exit
<1>3. Types'
  BY <1>1, <1>2, BootFields DEF Types, ControlStates, Handlings
<1>4. Placed' /\ Prepared' /\ Gones'
  BY <1>1, BootFields, Calls DEF Placed, Prepared, Gones, Alive, Living, Passing, Undoing, Routed
<1>5. Calm'
  BY <1>1, BootFields DEF Calm, Handlers, Executed, Exclusive, OnlyBusy, Busy, Serving, Served, Hot, Passing, Undoing
<1>6. Faultless'
  BY <1>1, BootFields DEF Faultless, Routed
<1> QED BY <1>3, <1>4, <1>5, <1>6

-----------------------------------------------------------------------------
(* From the entry into ActivateControlWith to the switch of the route.     *)

LEMMA EnterKeeps ==
  ASSUME IInv, Enter
  PROVE  IInv'
<1> USE DEF IInv
<1>1. /\ op.at = "enter" /\ ~op.sent /\ op.new \in Generations /\ Host /\ UNCHANGED <<mem, file>>
      /\ faults' = faults /\ faults' \in Nat /\ op \in Operation
  BY NoFaultIs, Calls DEF Enter, registryVars, Placed, Types
<1>2. CASE ~LooksReady(op.new) \/ route = op.new
  <2>1. PICK at \in {"exit", "stop", "finish"} :
          /\ Goto(at)
          /\ at = "finish" => route = op.new
          /\ at = "exit" => op.kind = "startup"
          /\ at = "stop" => op.kind # "startup"
    BY <1>2 DEF Enter
  <2>2. /\ op' \in Operation /\ op'.kind = op.kind /\ op'.new = op.new /\ op'.at = at
        /\ ~op'.sent /\ op'.committed = op.committed
    BY <1>1, <2>1, Goes DEF Types, OperationSteps
  <2>3. Gones' /\ (faults' <= 1 => Calm')
    BY <1>1, <2>1, <2>2, CalmMoves DEF Hot, Passing, Undoing, Types
  <2>4. Types'
    BY <1>1, <2>2 DEF Types, Host, controlVars
  <2>5. Placed' /\ Prepared'
    BY <1>1, <2>1, <2>2 DEF Placed, Prepared, Host, controlVars, Passing, Undoing, Routed
  <2>6. faults' = 0 => Faultless'
    BY <1>1, <2>1, <2>2 DEF Faultless, Host, controlVars, Routed
  <2> QED BY <2>3, <2>4, <2>5, <2>6
<1>3. CASE ~(~LooksReady(op.new) \/ route = op.new)
  <2>1. PICK at \in {"prepare", "quiesce", "fence"} :
          /\ op' = [op EXCEPT !.old = route, !.at = at]
          /\ at = "prepare" <=> route = None
          /\ at = "quiesce" => control[route] = "dead"
    BY <1>3 DEF Enter, ConfirmedDead
  <2>2. /\ op' \in Operation /\ op'.kind = op.kind /\ op'.new = op.new /\ op'.at = at /\ op'.old = route
        /\ ~op'.sent /\ op'.committed = op.committed
    BY <1>1, <2>1 DEF Types, Operation, OperationSteps
  <2>3. Gones' /\ (faults' <= 1 => Calm')
    <3>1. CASE at = "fence"
      BY <3>1, <1>1, <2>2, CalmMoves DEF Hot, Passing, Undoing, Types
    <3>2. CASE at # "fence"
      <4>1. UNCHANGED <<route, control, gate, requests, handling>>
        BY <1>1 DEF Host, controlVars
      <4>2. Gones'
        BY <4>1 DEF Gones, Alive
      <4>3. ASSUME faults' <= 1 PROVE Calm'
        <5>1. Calm
          BY <4>3, <1>1
        <5>2. route # None => route \in Generations /\ ~Alive(route) /\ ~Busy(route)
          BY <3>2, <2>1 DEF Types, Gones, Alive, Living, Busy
        <5>3. \A g \in Generations : ~Busy(g)
          BY <1>1, <5>1, <5>2 DEF Calm, Exclusive, OnlyBusy
        <5>4. Handlers'
          BY <1>1, <4>1, <5>1 DEF Calm, Handlers
        <5>5. Executed'
          BY <2>2 DEF Executed
        <5>6. Exclusive'
          BY <2>2, <3>2, <4>1, <5>3 DEF Exclusive, OnlyBusy, Busy
        <5>7. Serving'
          BY <2>2, <3>2, <4>1, <5>2 DEF Serving, Hot, Passing, Undoing, Fenced, Alive
        <5> QED BY <5>4, <5>5, <5>6, <5>7 DEF Calm
      <4> QED BY <4>2, <4>3
    <3> QED BY <3>1, <3>2
  <2>4. Types'
    BY <1>1, <2>2 DEF Types, Host, controlVars
  <2>5. Placed' /\ Prepared'
    BY <1>1, <1>3, <2>1, <2>2 DEF Placed, Prepared, Host, controlVars, Passing, Undoing, Routed
  <2>6. faults' = 0 => Faultless'
    <3>1. ASSUME faults' = 0 PROVE Faultless
      BY <3>1, <1>1
    <3> QED BY <1>1, <2>1, <2>2, <3>1 DEF Faultless, Host, controlVars, Routed, Is
  <2> QED BY <2>3, <2>4, <2>5, <2>6
<1> QED BY <1>2, <1>3

\* The steps at which no Control is served.
LEMMA PassingMoves ==
  ASSUME IInv, Host, op' \in Operation, ~op'.sent, op.at \in {"quiesce", "commit", "route"},
         op'.old = op.old, op'.new = op.new,
         op'.at \in Passing \/ (op'.at = "undo_new" /\ faults' # 0),
         faults' \in Nat, faults' >= faults
  PROVE  Gones' /\ (faults' <= 1 => Calm')
<1> USE DEF IInv
<1>1. UNCHANGED <<route, control, gate, requests, handling>>
  BY DEF Host, controlVars
<1>2. Gones'
  BY <1>1 DEF Gones, Alive
<1>3. ASSUME faults' <= 1 PROVE Calm'
  <2>1. Calm
    BY <1>3 DEF Types
  <2>2. Handlers'
    BY <1>1, <2>1 DEF Calm, Handlers
  <2>3. Executed'
    BY DEF Executed
  <2>4. \A g \in Generations : ~Busy(g)
    BY <2>1 DEF Calm, Exclusive, Passing
  <2>5. Exclusive'
    BY <1>1, <2>4 DEF Exclusive, OnlyBusy, Busy
  <2>6. Fenced(op.old)
    BY <2>1 DEF Calm, Serving, Passing
  <2>7. Serving'
    BY <1>1, <1>3, <2>6 DEF Serving, Hot, Passing, Undoing, Fenced, Recoverable, Alive
  <2> QED BY <2>2, <2>3, <2>5, <2>7 DEF Calm
<1> QED BY <1>2, <1>3

LEMMA QuiesceKeeps ==
  ASSUME IInv, Quiesce
  PROVE  IInv'
<1> USE DEF IInv
<1>1. op.at = "quiesce" /\ ~op.sent /\ Host /\ UNCHANGED <<mem, file>> /\ op.kind # "startup"
  BY Calls DEF Quiesce, registryVars, Placed
<1>2. PICK at \in {"prepare", "undo_new"} :
        Goto(at) /\ faults' \in Nat /\ faults' >= faults /\ (at = "undo_new" => faults' # 0)
  BY NoFaultIs, FaultIs DEF Quiesce, Types
<1>3. /\ op' \in Operation /\ op'.at = at /\ op'.kind = op.kind /\ op'.new = op.new /\ op'.old = op.old
      /\ ~op'.sent /\ op'.committed = op.committed
  BY <1>1, <1>2, Goes DEF Types, OperationSteps
<1>4. Gones' /\ (faults' <= 1 => Calm')
  BY <1>1, <1>2, <1>3, PassingMoves DEF Passing
<1>5. Types'
  BY <1>1, <1>2, <1>3 DEF Types, Host, controlVars
<1>6. Placed' /\ Prepared'
  BY <1>1, <1>2, <1>3 DEF Placed, Prepared, Host, controlVars, Passing, Undoing, Routed
<1>7. faults' = 0 => Faultless'
  <2>1. ASSUME faults' = 0 PROVE Faultless /\ at = "prepare"
    BY <2>1, <1>2 DEF Types
  <2> QED BY <1>1, <1>3, <2>1 DEF Faultless, Host, controlVars, Routed, Is
<1> QED BY <1>4, <1>5, <1>6, <1>7

\* Until something fails the registry accepts the switch it is asked for.
LEMMA CommitKeeps ==
  ASSUME IInv, Commit
  PROVE  IInv'
<1> USE DEF IInv
<1>1. op.at = "commit" /\ ~op.sent /\ Host /\ op.new \in Generations /\ op \in Operation
  BY Calls DEF Commit, Placed, Types
<1>2. PICK t \in R!Snapshot, u \in R!Snapshot :
        /\ t = R!ActivateIn(mem, op.new) /\ u = R!RollbackIn(mem)
        /\ t.active = op.new /\ u.active = mem.previous /\ u.pending = mem.pending
  <2>1. PICK t \in R!Snapshot : t = R!ActivateIn(mem, op.new) /\ t.active = op.new
    BY <1>1, ActivateIs DEF Types
  <2>2. PICK u \in R!Snapshot : u = R!RollbackIn(mem) /\ u.active = mem.previous /\ u.pending = mem.pending
    BY RollbackIs DEF Types
  <2> QED BY <2>1, <2>2
<1>3. PICK next \in {mem, t, u}, at \in {"route", "undo_new"} :
        /\ op' \in Operation /\ op'.at = at /\ op'.kind = op.kind /\ op'.new = op.new /\ op'.old = op.old
        /\ ~op'.sent
        /\ mem' = next /\ mem' \in R!Snapshot /\ file' \in R!Snapshot /\ faults' \in Nat /\ faults' >= faults
        /\ at = "route" => faults' = faults
        /\ at = "route" => \/ op.kind = "update" /\ next = t /\ op'.committed
                           \/ op.kind = "rollback" /\ next = u /\ op'.committed
                           \/ op.kind \notin {"update", "rollback"} /\ next = mem /\ op'.committed = op.committed
        /\ at = "undo_new" => \/ faults' = faults + 1
                              \/ op.kind = "update" /\ ~R!CanActivate(mem, op.new)
                              \/ op.kind = "rollback" /\ ~R!CanRollback(mem)
        /\ op.kind = "startup" => next = mem
  <2>1. ASSUME NEW A \in {t, u}, NEW allowed \in BOOLEAN,
               \/ /\ R!Change(A) /\ mem' # mem /\ NoFault
                  /\ op' = [op EXCEPT !.at = "route", !.committed = TRUE]
               \/ PersistFails(R!Change(A)) /\ Goto("undo_new")
               \/ ~allowed /\ NoFault /\ Goto("undo_new") /\ UNCHANGED registryVars
        PROVE  /\ mem' \in {mem, A} /\ mem' \in R!Snapshot /\ file' \in R!Snapshot
               /\ faults' \in Nat /\ faults' >= faults
               /\ op' \in Operation /\ op'.kind = op.kind /\ op'.new = op.new /\ op'.old = op.old /\ ~op'.sent
               /\ \/ op'.at = "route" /\ op'.committed /\ mem' = A /\ faults' = faults
                  \/ op'.at = "undo_new" /\ mem' = mem /\ (faults' = faults + 1 \/ ~allowed)
    <3>1. CASE R!Change(A) /\ mem' # mem /\ NoFault /\ op' = [op EXCEPT !.at = "route", !.committed = TRUE]
      <4>1. mem' = A /\ mem' \in R!Snapshot /\ file' \in R!Snapshot /\ faults' = faults /\ faults' \in Nat
        BY <3>1, ChangeIs, NoFaultIs
      <4>2. /\ op' \in Operation /\ op'.kind = op.kind /\ op'.new = op.new /\ op'.old = op.old /\ ~op'.sent
            /\ op'.at = "route" /\ op'.committed
        BY <3>1, <1>1 DEF Operation, OperationSteps
      <4> QED BY <4>1, <4>2
    <3>2. CASE PersistFails(R!Change(A)) /\ Goto("undo_new")
      BY <3>2, <1>1, FailsToPersist, Goes DEF Types, OperationSteps
    <3>3. CASE ~allowed /\ NoFault /\ Goto("undo_new") /\ UNCHANGED registryVars
      BY <3>3, <1>1, NoFaultIs, Goes DEF Types, OperationSteps, registryVars
    <3> QED BY <2>1, <3>1, <3>2, <3>3
  <2>2. CASE op.kind = "update"
    <3>1. PICK allowed \in BOOLEAN : allowed = R!CanActivate(mem, op.new)
      BY DEF R!CanActivate
    <3>2. \/ /\ R!Change(t) /\ mem' # mem /\ NoFault
             /\ op' = [op EXCEPT !.at = "route", !.committed = TRUE]
          \/ PersistFails(R!Change(t)) /\ Goto("undo_new")
          \/ ~allowed /\ NoFault /\ Goto("undo_new") /\ UNCHANGED registryVars
      BY <1>2, <2>2, <3>1 DEF Commit, Committed, PersistFails, R!Activate
    <3> QED BY <2>1, <2>2, <3>1, <3>2
  <2>3. CASE op.kind = "rollback"
    <3>1. PICK allowed \in BOOLEAN : allowed = R!CanRollback(mem)
      BY DEF R!CanRollback
    <3>2. \/ /\ R!Change(u) /\ mem' # mem /\ NoFault
             /\ op' = [op EXCEPT !.at = "route", !.committed = TRUE]
          \/ PersistFails(R!Change(u)) /\ Goto("undo_new")
          \/ ~allowed /\ NoFault /\ Goto("undo_new") /\ UNCHANGED registryVars
      BY <1>2, <2>3, <3>1 DEF Commit, Committed, PersistFails, R!Rollback
    <3> QED BY <2>1, <2>3, <3>1, <3>2
  <2>4. CASE op.kind \notin {"update", "rollback"}
    <3>1. Goto("route") /\ NoFault /\ UNCHANGED registryVars
      BY <2>4 DEF Commit
    <3> QED BY <1>1, <2>4, <3>1, NoFaultIs, Goes DEF Types, OperationSteps, registryVars
  <2> QED BY <2>2, <2>3, <2>4
<1>4. ASSUME faults' = 0
      PROVE  /\ Faultless /\ at = "route"
             /\ op.kind = "rollback" => mem.previous = op.new /\ mem.pending = None
  <2>1. faults = 0 /\ Faultless /\ faults' # faults + 1
    BY <1>3, <1>4 DEF Types
  <2>2. op.kind = "rollback" => R!CanRollback(mem) /\ mem.previous = op.new
    BY <1>1, <2>1 DEF Faultless
  <2>3. op.kind = "update" => R!CanActivate(mem, op.new)
    BY <1>1 DEF Prepared
  <2> QED BY <1>3, <2>1, <2>2, <2>3 DEF R!CanRollback
<1>5. at = "undo_new" => faults' # 0
  BY <1>4
<1>6. Gones' /\ (faults' <= 1 => Calm')
  BY <1>1, <1>3, <1>5, PassingMoves DEF Passing
<1>7. Types'
  BY <1>1, <1>3 DEF Types, Host, controlVars
<1>8. Placed' /\ Prepared'
  BY <1>1, <1>3 DEF Placed, Prepared, Host, controlVars, Passing, Undoing, Routed
<1>9. faults' = 0 => Faultless'
  BY <1>1, <1>2, <1>3, <1>4 DEF Faultless, Host, controlVars, Routed, Is
<1> QED BY <1>6, <1>7, <1>8, <1>9

LEMMA SwitchRouteKeeps ==
  ASSUME IInv, SwitchRoute
  PROVE  IInv'
<1> USE DEF IInv
<1>1. /\ op.at = "route" /\ ~op.sent /\ op.new \in Generations /\ op.old # op.new
      /\ UNCHANGED <<mem, file, control, gate, requests, handling>> /\ faults' = faults /\ faults' \in Nat
  BY NoFaultIs, Calls DEF SwitchRoute, registryVars, controlVars, Placed, Passing
<1>2. CASE LooksReady(op.new)
  <2>1. route' = op.new /\ Goto("activate")
    BY <1>2 DEF SwitchRoute
  <2>2. /\ op' \in Operation /\ op'.at = "activate" /\ op'.kind = op.kind /\ op'.new = op.new
        /\ op'.old = op.old /\ ~op'.sent /\ op'.committed = op.committed
    BY <1>1, <2>1, Goes DEF Types, OperationSteps
  <2>3. Types' /\ Gones'
    BY <1>1, <2>1, <2>2 DEF Types, Gones, Alive
  <2>4. Placed' /\ Prepared'
    BY <1>1, <1>2, <2>1, <2>2 DEF Placed, Prepared, Passing, Undoing, Routed, LooksReady, Alive, Living
  <2>5. ASSUME faults' <= 1 PROVE Calm'
    <3>1. Calm
      BY <1>1, <2>5
    <3>2. Handlers' /\ Executed'
      BY <1>1, <2>2, <3>1 DEF Calm, Handlers, Executed
    <3>3. Exclusive'
      BY <1>1, <2>2, <3>1 DEF Calm, Exclusive, OnlyBusy, Busy, Passing
    <3>4. Serving'
      BY <1>1, <2>2, <3>1 DEF Calm, Serving, Hot, Passing, Undoing, Fenced, Alive
    <3> QED BY <3>2, <3>3, <3>4 DEF Calm
  <2>6. faults' = 0 => Faultless'
    BY <1>1, <2>2 DEF Faultless, Routed, Is
  <2> QED BY <2>3, <2>4, <2>5, <2>6
<1>3. CASE ~LooksReady(op.new)
  <2>1. Goto("undo_new") /\ Host
    BY <1>1, <1>3 DEF SwitchRoute, Host, controlVars
  <2>2. /\ op' \in Operation /\ op'.at = "undo_new" /\ op'.kind = op.kind /\ op'.new = op.new
        /\ op'.old = op.old /\ ~op'.sent /\ op'.committed = op.committed
    BY <1>1, <2>1, Goes DEF Types, OperationSteps
  <2>3. faults' # 0
    BY <1>1, <1>3 DEF Faultless, Is, LooksReady, Alive, Living
  <2>4. Gones' /\ (faults' <= 1 => Calm')
    BY <1>1, <2>1, <2>2, <2>3, PassingMoves DEF Passing, Types
  <2>5. Types'
    BY <1>1, <2>1, <2>2 DEF Types, Host
  <2>6. Placed' /\ Prepared'
    BY <1>1, <2>1, <2>2 DEF Placed, Prepared, Host, Passing, Undoing, Routed
  <2> QED BY <2>3, <2>4, <2>5, <2>6
<1> QED BY <1>2, <1>3

-----------------------------------------------------------------------------
(* Lifecycle commands.                                                     *)

LEMMA CalleeIs == ASSUME IInv, Calling PROVE Callee \in Generations /\ op.new \in Generations /\ op.new # op.old
BY Calls, Callees DEF IInv, Placed, Passing, Undoing, Types, Operation

\* How a command may end.
Outcome(command, ok, n, next, open) ==
  CASE command = "prepare"  -> \/ ok /\ n = 0 /\ next = "prepared" /\ ~open
                               \/ ~ok /\ n = 1 /\ next = "failed" /\ ~open
    [] command = "activate" -> \/ ok /\ n = 0 /\ next = "active" /\ open
                               \/ ~ok /\ n = 1 /\ next = "failed" /\ ~open
    [] command = "fence"    -> \/ ok /\ n = 0 /\ next = "fenced" /\ ~open
                               \/ ~ok /\ n = 0 /\ next = "active" /\ open
                               \/ ~ok /\ n = 1 /\ next = "active" /\ ~open
    [] command = "resume"   -> \/ ok /\ n = 0 /\ next = "active" /\ open
                               \/ ~ok /\ n = 1 /\ next = "fenced" /\ ~open
    [] command = "close"    -> \/ ok /\ n = 0 /\ next = "deactivated" /\ ~open
                               \/ ~ok /\ n = 1 /\ next = "draining" /\ ~open
    [] OTHER                -> FALSE

Commands == {"prepare", "activate", "fence", "resume", "close"}

\* A Control hands over when no mutation is left, and fails to only once
\* nobody waits for it.
LEMMA HandleIs ==
  ASSUME NEW g \in Generations, Handle(g)
  PROVE  \/ Pause(g)
         \/ CloseGate(g)
         \/ \E command \in Commands, ok \in BOOLEAN, n \in {0, 1}, next \in Living, open \in BOOLEAN :
              /\ Outcome(command, ok, n, next, open) /\ Finish(g, command, ok, n, next, open)
              /\ command = "fence" => IF ok THEN requests[g] = 0 ELSE ~Awaited(g)
<1> DEFINE Ended == \E command \in Commands, ok \in BOOLEAN, n \in {0, 1}, next \in Living, open \in BOOLEAN :
              /\ Outcome(command, ok, n, next, open) /\ Finish(g, command, ok, n, next, open)
              /\ command = "fence" => IF ok THEN requests[g] = 0 ELSE ~Awaited(g)
<1>1. ASSUME NEW command \in Commands, NEW ok \in BOOLEAN, NEW n \in {0, 1}, NEW next \in Living, NEW open \in BOOLEAN,
             Outcome(command, ok, n, next, open), Finish(g, command, ok, n, next, open),
             command = "fence" => IF ok THEN requests[g] = 0 ELSE ~Awaited(g)
      PROVE  Ended
  BY <1>1, Zenon
<1> HIDE DEF Ended
<1>2. ASSUME FinishPrepare(g) PROVE Ended
  <2>1. /\ Outcome("prepare", TRUE, 0, "prepared", FALSE) /\ Outcome("prepare", FALSE, 1, "failed", FALSE)
        /\ "prepare" \in Commands /\ "prepare" # "fence" /\ {"prepared", "failed"} \subseteq Living
    BY DEF Outcome, Commands, Living
  <2>2. CASE Finish(g, "prepare", TRUE, 0, "prepared", FALSE)
    BY <1>1, <2>1, <2>2
  <2>3. CASE Finish(g, "prepare", FALSE, 1, "failed", FALSE)
    BY <1>1, <2>1, <2>3
  <2> QED BY <1>2, <2>2, <2>3 DEF FinishPrepare
<1>3. ASSUME FinishActivate(g) PROVE Ended
  <2>1. /\ Outcome("activate", TRUE, 0, "active", TRUE) /\ Outcome("activate", FALSE, 1, "failed", FALSE)
        /\ "activate" \in Commands /\ "activate" # "fence" /\ {"active", "failed"} \subseteq Living
    BY DEF Outcome, Commands, Living
  <2>2. CASE Finish(g, "activate", TRUE, 0, "active", TRUE)
    BY <1>1, <2>1, <2>2
  <2>3. CASE Finish(g, "activate", FALSE, 1, "failed", FALSE)
    BY <1>1, <2>1, <2>3
  <2> QED BY <1>3, <2>2, <2>3 DEF FinishActivate
<1>4. ASSUME FinishFence(g) PROVE Ended
  <2>1. /\ Outcome("fence", TRUE, 0, "fenced", FALSE) /\ Outcome("fence", FALSE, 0, "active", TRUE)
        /\ Outcome("fence", FALSE, 1, "active", FALSE)
        /\ "fence" \in Commands /\ {"active", "fenced"} \subseteq Living
    BY DEF Outcome, Commands, Living
  <2>2. CASE requests[g] = 0 /\ Finish(g, "fence", TRUE, 0, "fenced", FALSE)
    BY <1>1, <2>1, <2>2
  <2>3. CASE ~Awaited(g) /\ Finish(g, "fence", FALSE, 0, "active", TRUE)
    BY <1>1, <2>1, <2>3
  <2>4. CASE ~Awaited(g) /\ Finish(g, "fence", FALSE, 1, "active", FALSE)
    BY <1>1, <2>1, <2>4
  <2> QED BY <1>4, <2>2, <2>3, <2>4 DEF FinishFence
<1>5. ASSUME FinishResume(g) PROVE Ended
  <2>1. /\ Outcome("resume", TRUE, 0, "active", TRUE) /\ Outcome("resume", FALSE, 1, "fenced", FALSE)
        /\ "resume" \in Commands /\ "resume" # "fence" /\ {"active", "fenced"} \subseteq Living
    BY DEF Outcome, Commands, Living
  <2>2. CASE Finish(g, "resume", TRUE, 0, "active", TRUE)
    BY <1>1, <2>1, <2>2
  <2>3. CASE Finish(g, "resume", FALSE, 1, "fenced", FALSE)
    BY <1>1, <2>1, <2>3
  <2> QED BY <1>5, <2>2, <2>3 DEF FinishResume
<1>6. ASSUME FinishClose(g) PROVE Ended
  <2>1. /\ Outcome("close", TRUE, 0, "deactivated", FALSE) /\ Outcome("close", FALSE, 1, "draining", FALSE)
        /\ "close" \in Commands /\ "close" # "fence" /\ {"deactivated", "draining"} \subseteq Living
    BY DEF Outcome, Commands, Living
  <2>2. CASE Finish(g, "close", TRUE, 0, "deactivated", FALSE)
    BY <1>1, <2>1, <2>2
  <2>3. CASE Finish(g, "close", FALSE, 1, "draining", FALSE)
    BY <1>1, <2>1, <2>3
  <2> QED BY <1>6, <2>2, <2>3 DEF FinishClose
<1>7. Pause(g) \/ CloseGate(g) \/ Ended
  BY <1>2, <1>3, <1>4, <1>5, <1>6 DEF Handle
<1> QED BY <1>7 DEF Ended

LEMMA FinishIs ==
  ASSUME IInv, NEW g \in Generations, NEW command \in Commands, NEW ok \in BOOLEAN, NEW n \in {0, 1},
         NEW next \in Living, NEW open \in BOOLEAN, Finish(g, command, ok, n, next, open)
  PROVE  /\ handling[g] = command /\ Alive(g)
         /\ control' \in [Generations -> ControlStates] /\ gate' \in [Generations -> BOOLEAN]
         /\ requests' = requests /\ handling' \in [Generations -> Handlings]
         /\ control'[g] = next /\ gate'[g] = open /\ handling'[g] = "none"
         /\ \A h \in Generations : h # g => /\ control'[h] = control[h] /\ gate'[h] = gate[h]
                                            /\ handling'[h] = handling[h]
         /\ UNCHANGED <<mem, file>> /\ faults' = faults + n /\ faults' \in Nat
         /\ Gones'
<1> USE DEF IInv
<1>1. handling[g] = command /\ command # "none"
  BY DEF Finish, Commands
<1>2. Alive(g)
  BY <1>1 DEF Gones
<1>3. /\ control' = [control EXCEPT ![g] = next] /\ gate' = [gate EXCEPT ![g] = open]
      /\ handling' = [handling EXCEPT ![g] = "none"] /\ requests' = requests /\ UNCHANGED <<mem, file>>
  BY DEF Finish, registryVars
<1>4. faults' = faults + n /\ faults' \in Nat
  BY DEF Finish, Faults, Types
<1>5. /\ control' \in [Generations -> ControlStates] /\ gate' \in [Generations -> BOOLEAN]
      /\ handling' \in [Generations -> Handlings]
      /\ control'[g] = next /\ gate'[g] = open /\ handling'[g] = "none"
      /\ \A h \in Generations : h # g => /\ control'[h] = control[h] /\ gate'[h] = gate[h]
                                         /\ handling'[h] = handling[h]
  BY <1>3 DEF Types, ControlStates, Handlings
<1>6. Gones'
  BY <1>3, <1>5 DEF Gones, Alive
<1> QED BY <1>1, <1>2, <1>3, <1>4, <1>5, <1>6

\* A command that ends after the Host has stopped waiting for it.
LEMMA FinishUnawaitedKeeps ==
  ASSUME IInv, NEW g \in Generations, NEW command \in Commands, NEW ok \in BOOLEAN, NEW n \in {0, 1},
         NEW next \in Living, NEW open \in BOOLEAN, Outcome(command, ok, n, next, open),
         Finish(g, command, ok, n, next, open), command = "fence" /\ ok => requests[g] = 0, ~Awaited(g)
  PROVE  IInv'
<1> USE DEF IInv
<1>1. op' = op /\ route' = route
  BY DEF Finish, Answer
<1>2. /\ handling[g] = command /\ Alive(g)
      /\ control' \in [Generations -> ControlStates] /\ gate' \in [Generations -> BOOLEAN]
      /\ requests' = requests /\ handling' \in [Generations -> Handlings]
      /\ control'[g] = next /\ gate'[g] = open /\ handling'[g] = "none"
      /\ \A h \in Generations : h # g => /\ control'[h] = control[h] /\ gate'[h] = gate[h]
                                         /\ handling'[h] = handling[h]
      /\ UNCHANGED <<mem, file>> /\ faults' = faults + n /\ faults' \in Nat
      /\ Gones'
  BY FinishIs
<1>3. Types'
  BY <1>1, <1>2 DEF Types
<1>4. Placed' /\ Prepared'
  <2>1. \A h \in Generations : control[h] # "absent" => control'[h] # "absent"
    BY <1>2 DEF Living
  <2>2. route \in Generations \cup {None} /\ op.old \in Generations \cup {None}
    BY DEF Types, Operation
  <2> QED BY <1>1, <1>2, <2>1, <2>2 DEF Placed, Prepared, Calling
<1>5. ASSUME faults' <= 1 PROVE Calm'
  <2>1. Calm /\ faults <= 1
    BY <1>2, <1>5 DEF Types
  <2>2. faults' = faults \/ (faults = 0 /\ n = 1)
    BY <1>2, <1>5 DEF Types
  <2>3. op.at \in Undoing => faults' = faults /\ n = 0
    BY <1>2, <2>1, <2>2 DEF Calm, Serving, Types
  <2>4. handling[g] \in Commands
    BY <1>2
  <2>5. Handlers'
    <3>1. \A h \in Generations : handling[h] = "pause" => faults' = faults
      BY <2>1, <2>3 DEF Calm, Handlers, Undoing
    <3>2. /\ open => next = "active"
          /\ requests[g] > 0 => next = "active"
      <4>1. requests[g] > 0 => control[g] = "active"
        BY <1>2, <2>1 DEF Calm, Handlers, Commands
      <4>2. requests[g] > 0 => command = "fence" /\ ~ok
        BY <1>2, <2>1, <4>1 DEF Calm, Handlers, Commands, Types
      <4> QED BY <4>2 DEF Outcome, Commands
    <3> QED BY <1>1, <1>2, <2>1, <3>1, <3>2 DEF Calm, Handlers
  <2>6. Executed'
    <3>1. Callee' = Callee /\ (op.sent => Callee \in Generations /\ Callee # g)
      BY <1>1, CalleeIs DEF Callee, Awaited, Placed
    <3>2. op.sent => Alive(Callee)' = Alive(Callee) /\ handling'[Callee] = handling[Callee]
      BY <1>2, <3>1 DEF Alive
    <3> QED BY <1>1, <2>1, <3>1, <3>2 DEF Calm, Executed
  <2>7. \A h \in Generations : Busy(h)' => Busy(h)
    BY <1>2, <2>1 DEF Busy, Outcome, Commands, Calm, Handlers
  <2>8. Exclusive'
    BY <1>1, <2>1, <2>3, <2>7 DEF Calm, Exclusive, OnlyBusy, Undoing
  <2>9. Serving'
    <3>1. \A h \in Generations \cup {None} : (Served(h) => Served(h)') /\ (Fenced(h) => Fenced(h)')
      BY <1>2, <2>1, <2>4 DEF Served, Fenced, Alive, Calm, Handlers, Commands
    <3>2. ASSUME NEW h \in Generations \cup {None}, n = 0, Recoverable(h) PROVE Recoverable(h)'
      <4>1. CASE h # g
        BY <1>2, <3>2, <4>1 DEF Recoverable, Alive
      <4>2. CASE h = g
        BY <1>2, <2>1, <2>4, <3>2, <4>2 DEF Recoverable, Alive, Calm, Handlers, Commands, Outcome
      <4> QED BY <4>1, <4>2
    <3>3. route \in Generations \cup {None} /\ op.old \in Generations \cup {None}
      BY DEF Types, Operation
    <3> QED BY <1>1, <2>1, <2>3, <3>1, <3>2, <3>3 DEF Calm, Serving
  <2> QED BY <2>5, <2>6, <2>8, <2>9 DEF Calm
<1>6. ASSUME faults' = 0 PROVE Faultless'
  <2>1. Faultless /\ faults = 0
    BY <1>2, <1>6 DEF Types
  <2>2. op.at \in {"prepare", "activate"} => g # op.new \/ ~op.sent
    BY Callees DEF Awaited
  <2>3. handling[g] # "none" /\ \A h \in Generations : control'[h] \notin {"exited", "dead"}
    BY <1>2, <2>1 DEF Commands, Faultless, Living
  <2>4. op.at \in {"mark", "promote", "cold", "enter", "fence", "quiesce", "prepare", "commit", "route", "activate"} =>
          g # op.new /\ op.new \in Generations
    BY <2>1, <2>2, <2>3 DEF Faultless, Is, Placed
  <2> QED BY <1>1, <1>2, <2>1, <2>3, <2>4 DEF Faultless, Is
<1> QED BY <1>2, <1>3, <1>4, <1>5, <1>6

\* What any end of a wait leaves in place; the snapshots do not change.
LEMMA LeavesPlaced ==
  ASSUME IInv, Calling, op' \in Operation, ~op'.sent, op'.kind = op.kind, op'.new = op.new, op'.old = op.old,
         NEW ok \in BOOLEAN, route' = IF op.at = "activate" /\ ~ok THEN op.old ELSE route,
         op.at = "fence" => op'.at \in {"quiesce", "undo_new"} /\ (ok <=> op'.at = "quiesce"),
         op.at = "prepare" => op'.at \in {"commit", "undo_new"} /\ (ok <=> op'.at = "commit"),
         op.at = "activate" => op'.at \in {"settle", "undo_new"} /\ (ok <=> op'.at = "settle"),
         op.at \in Undoing => \/ op.at = "undo_new" /\ op.old # None /\ op'.at = "undo_old"
                              \/ op'.at \in Ends /\ (op'.at = "exit" <=> op.kind = "startup"),
         UNCHANGED <<mem, file>>,
         \A h \in Generations : control[h] # "absent" => control'[h] # "absent"
  PROVE  Placed' /\ Prepared' /\ route' \in Generations \cup {None}
<1> USE DEF IInv
<1>1. /\ op.at \in {"fence", "prepare", "activate", "undo_new", "undo_old"} /\ op.new \in Generations
      /\ op.old \in Generations \cup {None} /\ route \in Generations \cup {None}
  BY Calls, CalleeIs DEF Types, Operation
<1>2. Prepared'
  BY <1>1 DEF Prepared, Undoing, Ends
<1>3. CASE op.at \in {"fence", "prepare"}
  BY <1>1, <1>2, <1>3 DEF Placed, Passing, Undoing, Routed
<1>4. CASE op.at = "activate"
  BY <1>1, <1>2, <1>4 DEF Placed, Passing, Undoing, Routed
<1>5. CASE op.at \in Undoing
  <2>1. op'.at = "undo_old" \/ op'.at \in Ends
    BY <1>5
  <2>2. CASE op'.at = "undo_old"
    BY <1>1, <1>2, <1>5, <2>2 DEF Placed, Passing, Undoing, Routed, Ends
  <2>3. CASE op'.at \in Ends
    BY <1>1, <1>2, <1>5, <2>3 DEF Placed, Passing, Undoing, Routed, Ends
  <2> QED BY <2>1, <2>2, <2>3
<1> QED BY <1>1, <1>2, <1>3, <1>4, <1>5 DEF Undoing

\* What an answer leaves in place.
LEMMA ReplyPlaces ==
  ASSUME IInv, Calling, NEW ok \in BOOLEAN, Reply(ok), UNCHANGED <<mem, file>>,
         \A h \in Generations : control[h] # "absent" => control'[h] # "absent"
  PROVE  Placed' /\ Prepared' /\ route' \in Generations \cup {None} /\ op' \in Operation
<1>1. /\ op' \in Operation /\ ~op'.sent /\ op'.kind = op.kind /\ op'.new = op.new /\ op'.old = op.old
      /\ route' = IF op.at = "activate" /\ ~ok THEN op.old ELSE route
      /\ op.at = "fence" => op'.at = IF ok THEN "quiesce" ELSE "undo_new"
      /\ op.at = "prepare" => op'.at = IF ok THEN "commit" ELSE "undo_new"
      /\ op.at = "activate" => op'.at = IF ok THEN "settle" ELSE "undo_new"
      /\ op.at = "undo_new" /\ op.old # None => op'.at = "undo_old"
      /\ (op.at = "undo_new" /\ op.old = None) \/ op.at = "undo_old" =>
           op'.at \in Ends /\ (op'.at = "exit" <=> op.kind = "startup")
  BY Replies DEF IInv, Types
<1>2. op.at \in Undoing => \/ op.at = "undo_new" /\ op.old # None /\ op'.at = "undo_old"
                           \/ op'.at \in Ends /\ (op'.at = "exit" <=> op.kind = "startup")
  BY <1>1 DEF Undoing
<1> QED BY <1>1, <1>2, LeavesPlaced

\* When an answer may come, and what it has to find: g is the Control that
\* answers, or the one that could not be reached.
LEMMA ReplyMoves ==
  ASSUME IInv, Calm, Calling, NEW ok \in BOOLEAN, Reply(ok), faults' \in Nat, faults' >= faults, faults' <= 1,
         \A h \in Generations : Busy(h)' => Busy(h),
         Handlers', \A h \in Generations : handling'[h] # "pause",
         \A h \in Generations : h # Callee =>
           control'[h] = control[h] /\ handling'[h] = handling[h] /\ gate'[h] = gate[h],
         op.at = "fence" /\ ok => ~Busy(op.old)' /\ Fenced(op.old)',
         op.at = "fence" /\ ~ok => Recoverable(op.old)',
         op.at = "activate" /\ ok => gate'[op.new],
         op.at = "undo_new" => ~Busy(op.new)',
         op.at = "undo_old" => Served(op.old)',
         op.at \notin Undoing /\ ~ok => faults' # 0
  PROVE  Calm'
<1> USE DEF IInv
<1>1. /\ op' \in Operation /\ ~op'.sent /\ op'.kind = op.kind /\ op'.new = op.new /\ op'.old = op.old
      /\ route' = IF op.at = "activate" /\ ~ok THEN op.old ELSE route
      /\ op.at = "fence" => op'.at = IF ok THEN "quiesce" ELSE "undo_new"
      /\ op.at = "prepare" => op'.at = IF ok THEN "commit" ELSE "undo_new"
      /\ op.at = "activate" => op'.at = IF ok THEN "settle" ELSE "undo_new"
      /\ op.at = "undo_new" /\ op.old # None => op'.at = "undo_old"
      /\ (op.at = "undo_new" /\ op.old = None) \/ op.at = "undo_old" => op'.at \in Ends
  BY Replies DEF Types
<1>2. /\ op.at \in {"fence", "prepare", "activate", "undo_new", "undo_old"}
      /\ op.new \in Generations /\ op.new # op.old /\ op.old \in Generations \cup {None}
  BY Calls, CalleeIs DEF Types, Operation
<1>3. Executed'
  BY <1>1 DEF Executed
<1>4. op.at \in {"prepare", "activate", "undo_new"} => op.old # Callee
  BY <1>2, Callees
<1>5. Exclusive'
  <2>1. CASE op.at = "fence"
    <3>1. OnlyBusy(op.old)
      BY <2>1 DEF Calm, Exclusive, Placed
    <3>2. route' = op.old
      BY <1>1, <2>1 DEF Placed
    <3> QED BY <1>1, <2>1, <3>1, <3>2 DEF Exclusive, OnlyBusy, Passing
  <2>2. CASE op.at = "prepare"
    <3>1. \A h \in Generations : ~Busy(h)'
      BY <2>2 DEF Calm, Exclusive, Passing
    <3> QED BY <1>1, <2>2, <3>1 DEF Exclusive, OnlyBusy
  <2>3. CASE op.at = "activate"
    <3>1. \A h \in Generations : Busy(h)' => h = op.new
      BY <2>3 DEF Calm, Exclusive, OnlyBusy, Placed, Routed
    <3>2. ok => route' = op.new
      BY <1>1, <2>3 DEF Placed, Routed
    <3>3. ~ok => faults' = 1
      BY <2>3 DEF Undoing
    <3> QED BY <1>1, <2>3, <3>1, <3>2, <3>3 DEF Exclusive, OnlyBusy, Passing
  <2>4. CASE op.at = "undo_new"
    <3>1. \A h \in Generations : Busy(h)' => h = route
      BY <1>1, <2>4 DEF Calm, Exclusive, OnlyBusy
    <3> QED BY <1>1, <2>4, <3>1 DEF Exclusive, OnlyBusy, Passing, Ends
  <2>5. CASE op.at = "undo_old"
    <3>1. \A h \in Generations : Busy(h)' => h = route
      BY <2>5 DEF Calm, Exclusive, OnlyBusy
    <3> QED BY <1>1, <2>5, <3>1 DEF Exclusive, OnlyBusy, Passing, Ends
  <2> QED BY <1>2, <2>1, <2>2, <2>3, <2>4, <2>5
<1>6. Serving'
  <2>1. CASE op.at = "fence"
    BY <1>1, <2>1 DEF Serving, Hot, Passing, Undoing
  <2>2. CASE op.at \in {"prepare", "activate"}
    <3>1. Fenced(op.old)
      BY <2>2 DEF Calm, Serving, Passing
    <3>2. Fenced(op.old)' /\ Recoverable(op.old)'
      BY <1>1, <1>2, <1>4, <2>2, <3>1 DEF Fenced, Recoverable, Alive
    <3>3. op.at = "activate" /\ ok => route' = op.new
      BY <1>1 DEF Placed, Routed
    <3> QED BY <1>1, <2>2, <3>2, <3>3 DEF Serving, Hot, Passing, Undoing, Served
  <2>3. CASE op.at = "undo_new"
    <3>1. faults = 1 /\ Recoverable(op.old)
      BY <2>3 DEF Calm, Serving, Undoing
    <3>2. Recoverable(op.old)'
      BY <1>1, <1>2, <1>4, <2>3, <3>1 DEF Recoverable, Alive
    <3>3. route' = op.old
      BY <1>1, <2>3 DEF Placed, Undoing
    <3>4. faults' = 1
      BY <3>1
    <3> QED BY <1>1, <2>3, <3>2, <3>3, <3>4 DEF Serving, Hot, Passing, Undoing, Served, Ends
  <2>4. CASE op.at = "undo_old"
    <3>1. route' = op.old
      BY <1>1, <2>4 DEF Placed, Undoing
    <3> QED BY <1>1, <2>4, <3>1 DEF Serving, Hot, Passing, Undoing, Ends
  <2> QED BY <1>2, <2>1, <2>2, <2>3, <2>4
<1> QED BY <1>3, <1>5, <1>6 DEF Calm

\* Until something fails every answer is a success.
LEMMA ReplyIsFaultless ==
  ASSUME IInv, Faultless, faults = 0, Calling, op.at \notin Undoing, Reply(TRUE), UNCHANGED mem,
         \A h \in Generations : control'[h] \notin {"exited", "dead"},
         \A h \in Generations : h # Callee => control'[h] = control[h] /\ handling'[h] = handling[h],
         op.at = "prepare" => Is(op.new, "prepared")'
  PROVE  Faultless'
<1>1. /\ op' \in Operation /\ ~op'.sent /\ op'.kind = op.kind /\ op'.new = op.new
      /\ op'.committed = op.committed
      /\ op.at = "fence" => op'.at = "quiesce"
      /\ op.at = "prepare" => op'.at = "commit"
      /\ op.at = "activate" => op'.at = "settle"
  BY Replies DEF IInv, Types
<1>2. op.at \in {"fence", "prepare", "activate"} /\ op.new \in Generations /\ op.new # op.old
  BY Calls, CalleeIs DEF Undoing
<1>3. op.at = "fence" => Is(op.new, "passive")'
  BY <1>1, <1>2, Callees DEF Faultless, Is
<1> QED BY <1>1, <1>2, <1>3 DEF Faultless, Routed

\* A command that ends while the Host waits for it.
LEMMA FinishAwaitedKeeps ==
  ASSUME IInv, NEW g \in Generations, NEW command \in Commands, NEW ok \in BOOLEAN, NEW n \in {0, 1},
         NEW next \in Living, NEW open \in BOOLEAN, Outcome(command, ok, n, next, open),
         Finish(g, command, ok, n, next, open),
         command = "fence" => IF ok THEN requests[g] = 0 ELSE ~Awaited(g), Awaited(g)
  PROVE  IInv'
<1> USE DEF IInv
<1>1. /\ Reply(ok) /\ op.sent /\ Callee = g /\ Calling
      /\ op.at \in {"fence", "prepare", "activate", "undo_new", "undo_old"}
      /\ op.new \in Generations /\ op.new # op.old /\ op.old \in Generations \cup {None}
  BY Calls, CalleeIs DEF Finish, Answer, Awaited, Placed, Types, Operation
<1>2. /\ handling[g] = command /\ Alive(g)
      /\ control' \in [Generations -> ControlStates] /\ gate' \in [Generations -> BOOLEAN]
      /\ requests' = requests /\ handling' \in [Generations -> Handlings]
      /\ control'[g] = next /\ gate'[g] = open /\ handling'[g] = "none"
      /\ \A h \in Generations : h # g => /\ control'[h] = control[h] /\ gate'[h] = gate[h]
                                         /\ handling'[h] = handling[h]
      /\ UNCHANGED <<mem, file>> /\ faults' = faults + n /\ faults' \in Nat
      /\ Gones'
  BY FinishIs
<1>3. \A h \in Generations : control[h] # "absent" => control'[h] # "absent"
  BY <1>2 DEF Living
<1>4. Placed' /\ Prepared' /\ route' \in Generations \cup {None} /\ op' \in Operation
  BY <1>1, <1>2, <1>3, ReplyPlaces
<1>5. Types'
  BY <1>2, <1>4 DEF Types
<1>6. ASSUME faults <= 1
      PROVE  /\ Calm
             /\ op.at = "fence" => command = "fence" /\ ok /\ n = 0 /\ next = "fenced"
             /\ op.at = "prepare" => command = "prepare" /\ (ok => n = 0 /\ next = "prepared") /\ (~ok => n = 1)
             /\ op.at = "activate" => command = "activate" /\ (ok => n = 0 /\ open) /\ (~ok => n = 1)
             /\ op.at = "undo_new" => command = "close" /\ (ok \/ n = 1)
             /\ op.at = "undo_old" => command = "resume" /\ (ok => n = 0 /\ open) /\ (~ok => n = 1)
  <2>1. Calm
    BY <1>6
  <2>2. /\ op.at = "fence" => command = "fence"
        /\ op.at = "prepare" => command = "prepare"
        /\ op.at = "activate" => command = "activate"
        /\ op.at = "undo_new" => command = "close"
        /\ op.at = "undo_old" => command = "resume"
    BY <1>1, <1>2, <2>1, ExecutedIs DEF Calm, Commands
  <2>3. command = "fence" => ok
    BY <1>1
  <2> QED BY <2>1, <2>2, <2>3 DEF Outcome
<1>7. ASSUME faults' <= 1 PROVE Calm'
  <2>1. faults <= 1 /\ Calm
    BY <1>2, <1>7 DEF Types
  <2>2. op.at \in Undoing => n = 0 /\ faults = 1
    BY <1>2, <1>7, <2>1 DEF Calm, Serving, Types
  <2>3. \A h \in Generations : handling'[h] # "pause"
    BY <1>1, <1>2, <1>6, <2>1, Callees DEF Calm, Handlers
  <2>4. Handlers'
    <3>1. open => next = "active"
      BY DEF Outcome, Commands
    <3>2. requests[g] > 0 => next = "active"
      <4>1. requests[g] > 0 => control[g] = "active"
        BY <1>2, <2>1 DEF Calm, Handlers, Commands
      <4>2. requests[g] > 0 => command = "fence" /\ ~ok
        BY <1>2, <2>1, <4>1 DEF Calm, Handlers, Commands, Types
      <4> QED BY <4>2 DEF Outcome, Commands
    <3> QED BY <1>2, <2>1, <2>3, <3>1, <3>2 DEF Calm, Handlers
  <2>5. \A h \in Generations : Busy(h)' => Busy(h)
    BY <1>2, <2>1 DEF Busy, Outcome, Commands, Calm, Handlers
  <2>6. op'.new = op.new /\ op'.old = op.old
    BY <1>1, Replies DEF Types
  <2>7. op.at = "fence" /\ ok => ~Busy(op.old)' /\ Fenced(op.old)'
    BY <1>1, <1>2, <1>6, <2>1, <2>6, Callees DEF Busy, Fenced
  <2>8. op.at = "fence" => ok
    BY <1>6, <2>1
  <2>9. op.at = "activate" /\ ok => gate'[op.new]
    BY <1>1, <1>2, <1>6, <2>1, Callees
  <2>10. op.at = "undo_new" => ~Busy(op.new)'
    <3>1. op.at = "undo_new" => next = "deactivated" /\ op.new = g
      BY <1>1, <1>6, <2>1, <2>2, Callees DEF Outcome, Undoing
    <3> QED BY <1>2, <2>6, <3>1 DEF Busy
  <2>11. op.at = "undo_old" => Served(op.old)'
    BY <1>1, <1>2, <1>6, <2>1, <2>2, <2>6, Callees DEF Served, Undoing
  <2>12. op.at \notin Undoing /\ ~ok => faults' # 0
    BY <1>1, <1>2, <1>6, <2>1 DEF Types, Undoing
  <2>13. \A h \in Generations : h # Callee =>
           control'[h] = control[h] /\ handling'[h] = handling[h] /\ gate'[h] = gate[h]
    BY <1>1, <1>2
  <2>14. faults' \in Nat /\ faults' >= faults
    BY <1>2 DEF Types
  <2> QED BY <1>1, <1>7, <2>1, <2>3, <2>4, <2>5, <2>7, <2>8, <2>9, <2>10, <2>11, <2>12, <2>13, <2>14, ReplyMoves
<1>8. ASSUME faults' = 0 PROVE Faultless'
  <2>1. faults = 0 /\ n = 0 /\ Faultless /\ Calm
    BY <1>2, <1>8 DEF Types
  <2>2. op.at \notin Undoing
    BY <2>1 DEF Calm, Serving
  <2>3. ok
    BY <1>1, <1>6, <2>1, <2>2 DEF Undoing
  <2>4. \A h \in Generations : control'[h] \notin {"exited", "dead"}
    BY <1>2, <2>1 DEF Faultless, Living
  <2>5. op'.new = op.new
    BY <1>1, Replies DEF Types
  <2>6. op.at = "prepare" => Is(op.new, "prepared")'
    BY <1>1, <1>2, <1>6, <2>1, <2>3, <2>5, Callees DEF Is
  <2>7. Reply(TRUE)
    BY <1>1, <2>3
  <2> QED BY <1>1, <1>2, <2>1, <2>2, <2>4, <2>6, <2>7, ReplyIsFaultless
<1> QED BY <1>2, <1>4, <1>5, <1>7, <1>8

\* The Control answers at once, or cannot be reached.
LEMMA AnswerAtOnceKeeps ==
  ASSUME IInv, Refuse \/ Unreachable
  PROVE  IInv'
<1> USE DEF IInv
<1>1. /\ Calling /\ faults' = faults /\ faults' \in Nat
      /\ UNCHANGED <<mem, file, control, gate, requests, handling>>
      /\ op.at \in {"fence", "prepare", "activate", "undo_new", "undo_old"}
      /\ op.new \in Generations /\ op.new # op.old /\ op.old \in Generations \cup {None}
      /\ Callee \in Generations
  BY NoFaultIs, Calls, CalleeIs DEF Refuse, Unreachable, registryVars, controlVars, Types, Operation
<1>2. PICK ok \in BOOLEAN :
        /\ Reply(ok)
        /\ \/ /\ Alive(Callee) /\ ~op.sent /\ handling[Callee] = "none" /\ ~Accepts(Callee, CommandOf[op.at])
              /\ ok <=> \/ op.at = "prepare" /\ control[Callee] = "prepared"
                        \/ op.at = "undo_new"
           \/ ~Alive(Callee) /\ ~ok
  <2>1. CASE Refuse
    <3>1. PICK ok \in BOOLEAN : ok = (\/ CommandOf[op.at] = "prepare" /\ control[Callee] = "prepared"
                                      \/ CommandOf[op.at] = "deactivate")
      OBVIOUS
    <3>2. ok <=> \/ op.at = "prepare" /\ control[Callee] = "prepared"
                 \/ op.at = "undo_new"
      BY <1>1, <3>1, CommandsAre
    <3>3. Reply(ok) /\ Alive(Callee) /\ ~op.sent /\ handling[Callee] = "none" /\ ~Accepts(Callee, CommandOf[op.at])
      BY <2>1, <3>1 DEF Refuse
    <3> QED BY <3>2, <3>3
  <2>2. CASE Unreachable
    BY <2>2 DEF Unreachable
  <2> QED BY <2>1, <2>2
<1>3. Placed' /\ Prepared' /\ route' \in Generations \cup {None} /\ op' \in Operation
  BY <1>1, <1>2, ReplyPlaces
<1>4. Types' /\ Gones'
  BY <1>1, <1>3 DEF Types, Gones, Alive
<1>5. ~Alive(Callee) \/ /\ op.at = "fence" => control[op.old] # "active"
                        /\ op.at = "prepare" => control[op.new] # "passive"
                        /\ op.at = "activate" => control[op.new] # "prepared"
                        /\ op.at = "undo_new" => control[op.new] = "deactivated"
                        /\ op.at = "undo_old" => control[op.old] # "fenced"
  <2>1. /\ op.at = "fence" /\ ~Accepts(Callee, CommandOf[op.at]) => control[op.old] # "active"
        /\ op.at = "prepare" /\ ~Accepts(Callee, CommandOf[op.at]) => control[op.new] # "passive"
        /\ op.at = "activate" /\ ~Accepts(Callee, CommandOf[op.at]) => control[op.new] # "prepared"
        /\ op.at = "undo_new" /\ ~Accepts(Callee, CommandOf[op.at]) => control[op.new] = "deactivated"
        /\ op.at = "undo_old" /\ ~Accepts(Callee, CommandOf[op.at]) => control[op.old] # "fenced"
    BY CommandsAre, Callees DEF Accepts
  <2> QED BY <1>2, <2>1
<1>6. op'.new = op.new /\ op'.old = op.old
  BY <1>1, <1>2, Replies DEF Types
<1>7. ASSUME faults = 0, Faultless, Calm PROVE FALSE
  <2>1. op.at \notin Undoing
    BY <1>7 DEF Calm, Serving
  <2>2. CASE op.at = "fence"
    <3>1. route = op.old /\ op.old \in Generations /\ control[op.old] # "absent" /\ Callee = op.old
      BY <1>1, <2>2, Callees DEF Placed
    <3>2. Alive(op.old)
      BY <1>7, <3>1 DEF Faultless, Alive, ControlStates, Types
    <3>3. gate[op.old]
      BY <1>2, <1>7, <2>2, <3>1, <3>2 DEF Calm, Serving, Served
    <3> QED BY <1>5, <1>7, <2>2, <3>1, <3>2, <3>3 DEF Calm, Handlers
  <2>3. CASE op.at = "prepare"
    BY <1>5, <1>7, <2>3, Callees DEF Faultless, Alive, Living
  <2>4. CASE op.at = "activate"
    BY <1>5, <1>7, <2>4, Callees DEF Faultless, Alive, Living
  <2> QED BY <1>1, <2>1, <2>2, <2>3, <2>4 DEF Undoing
<1>8. faults' # 0
  BY <1>1, <1>7
<1>9. ASSUME faults' <= 1 PROVE Calm'
  <2>1. Calm
    BY <1>1, <1>9
  <2>2. \A h \in Generations : Busy(h)' <=> Busy(h)
    BY <1>1 DEF Busy
  <2>3. \A h \in Generations : handling[h] # "pause"
    <3>1. \A h \in Generations : handling[h] = "pause" => h = Callee /\ op.sent
      BY <2>1, Callees DEF Calm, Handlers
    <3>2. op.sent => handling[Callee] = "none"
      BY <1>1, <1>2 DEF Gones
    <3> QED BY <3>1, <3>2
  <2>4. Handlers'
    BY <1>1, <2>1, <2>3 DEF Calm, Handlers
  <2>5. op.at = "fence" => ~ok
    BY <1>2
  <2>6. op.at = "fence" => Recoverable(op.old)'
    <3>1. ASSUME op.at = "fence", Alive(Callee) PROVE FALSE
      <4>1. Served(op.old) /\ Callee = op.old
        BY <1>2, <2>1, <3>1, Callees DEF Calm, Serving
      <4>2. gate[Callee]
        BY <1>1, <3>1, <4>1 DEF Served
      <4> QED BY <1>1, <1>5, <2>1, <3>1, <4>1, <4>2 DEF Calm, Handlers
    <3> QED BY <1>1, <1>6, <3>1, Callees DEF Recoverable, Alive
  <2>7. op.at = "activate" => ~ok
    BY <1>2
  <2>8. op.at = "undo_new" => ~Busy(op.new)'
    <3>1. op.at = "undo_new" => control[op.new] # "active" /\ handling[op.new] = "none"
      BY <1>1, <1>2, <1>5, Callees DEF Gones, Alive, Living
    <3> QED BY <1>1, <1>6, <3>1 DEF Busy
  <2>9. op.at = "undo_old" => Served(op.old)'
    <3>1. ASSUME op.at = "undo_old" PROVE Served(op.old)
      <4>1. Recoverable(op.old) /\ Callee = op.old
        BY <2>1, <3>1, Callees DEF Calm, Serving, Undoing
      <4>2. CASE ~Alive(Callee)
        BY <4>1, <4>2 DEF Served
      <4>3. CASE Alive(Callee)
        BY <1>1, <1>2, <1>5, <3>1, <4>1, <4>3 DEF Served, Recoverable
      <4> QED BY <4>2, <4>3
    <3> QED BY <1>1, <1>6, <3>1 DEF Served, Alive
  <2>10. \A h \in Generations : h # Callee =>
           control'[h] = control[h] /\ handling'[h] = handling[h] /\ gate'[h] = gate[h]
    BY <1>1
  <2>11. faults' \in Nat /\ faults' >= faults
    BY <1>1 DEF Types
  <2>12. \A h \in Generations : (Busy(h)' => Busy(h)) /\ handling'[h] # "pause"
    BY <1>1, <2>2, <2>3
  <2> QED BY <1>1, <1>2, <1>8, <1>9, <2>1, <2>4, <2>5, <2>6, <2>7, <2>8, <2>9, <2>10, <2>11, <2>12, ReplyMoves
<1> QED BY <1>3, <1>4, <1>8, <1>9

\* The Host stops waiting: one fault, after which the route goes back.
LEMMA TimeOutKeeps ==
  ASSUME IInv, TimeOut
  PROVE  IInv'
<1> USE DEF IInv
<1>1. /\ Calling /\ Alive(Callee) /\ faults' = faults + 1 /\ faults' \in Nat
      /\ UNCHANGED <<mem, file, control, gate, requests, handling>>
      /\ op.at \in {"fence", "prepare", "activate", "undo_new", "undo_old"}
      /\ op.new \in Generations /\ op.new # op.old /\ op.old \in Generations \cup {None}
      /\ Callee \in Generations
  BY FaultIs, Calls, CalleeIs DEF TimeOut, registryVars, controlVars, Types, Operation
<1>2. /\ op' \in Operation /\ ~op'.sent /\ op'.kind = op.kind /\ op'.new = op.new /\ op'.old = op.old
      /\ op'.committed = op.committed
      /\ route' = IF op.at = "activate" THEN op.old ELSE route
      /\ op.at \in {"fence", "prepare", "activate"} => op'.at = "undo_new"
      /\ op.at \in Undoing => op'.at \in Ends /\ (op'.at = "exit" <=> op.kind = "startup")
  BY <1>1, TimesOut DEF TimeOut, Types
<1>3. Placed' /\ Prepared' /\ route' \in Generations \cup {None}
  <2>1. PICK ok \in BOOLEAN : ok = FALSE
    OBVIOUS
  <2>2. /\ op.at \in Undoing <=> op.at \in {"undo_new", "undo_old"}
        /\ route' = IF op.at = "activate" /\ ~ok THEN op.old ELSE route
    BY <1>2, <2>1 DEF Undoing
  <2> QED BY <1>1, <1>2, <2>1, <2>2, LeavesPlaced
<1>4. Types' /\ Gones' /\ faults' # 0
  BY <1>1, <1>2, <1>3 DEF Types, Gones, Alive
<1>5. ASSUME faults' <= 1 PROVE Calm'
  <2>1. Calm /\ faults = 0 /\ faults' = 1
    BY <1>1, <1>5 DEF Types
  <2>2. op.at \notin Undoing /\ op'.at = "undo_new"
    BY <1>1, <1>2, <2>1 DEF Calm, Serving, Undoing
  <2>3. Handlers' /\ Executed'
    BY <1>1, <1>2, <2>1, <2>2 DEF Calm, Handlers, Executed, Undoing
  <2>4. Exclusive'
    <3>1. op.at = "activate" => route = op.new
      BY DEF Placed, Routed
    <3>2. OnlyBusy(route)
      BY <2>1, <2>2 DEF Calm, Exclusive, Undoing
    <3> QED BY <1>1, <1>2, <2>1, <2>2, <3>1, <3>2 DEF Exclusive, OnlyBusy, Busy, Passing
  <2>5. Recoverable(op.old)
    <3>1. CASE op.at = "fence" /\ op.sent
      <4>1. handling[Callee] = "fence" /\ Callee = op.old
        BY <1>1, <2>1, <3>1, ExecutedIs, Callees DEF Calm
      <4> QED BY <4>1 DEF Recoverable
    <3>2. CASE op.at = "fence" /\ ~op.sent
      BY <2>1, <3>2 DEF Calm, Serving, Served, Recoverable
    <3>3. CASE op.at \in {"prepare", "activate"}
      BY <2>1, <3>3 DEF Calm, Serving, Passing, Fenced, Recoverable
    <3> QED BY <1>1, <2>2, <3>1, <3>2, <3>3 DEF Undoing
  <2>6. Serving'
    BY <1>1, <1>2, <2>1, <2>2, <2>5 DEF Serving, Hot, Passing, Undoing, Recoverable, Alive
  <2> QED BY <2>3, <2>4, <2>6 DEF Calm
<1> QED BY <1>3, <1>4, <1>5

LEMMA SendKeeps ==
  ASSUME IInv, Send
  PROVE  IInv'
<1> USE DEF IInv
<1>1. /\ Calling /\ ~op.sent /\ faults' = faults /\ faults' \in Nat
      /\ op.at \in {"fence", "prepare", "activate", "undo_new", "undo_old"}
      /\ op.new \in Generations /\ op.new # op.old /\ op.old \in Generations \cup {None}
      /\ UNCHANGED <<mem, file, route, requests>>
  BY NoFaultIs, Calls, CalleeIs DEF Send, registryVars, Types, Operation
<1>2. PICK g \in Generations : g = Callee
  BY <1>1, CalleeIs
<1>3. /\ op' \in Operation /\ op'.sent /\ op'.at = op.at /\ op'.kind = op.kind /\ op'.new = op.new
      /\ op'.old = op.old /\ op'.committed = op.committed
  <2>1. op' = [op EXCEPT !.sent = TRUE]
    BY DEF Send
  <2> QED BY <2>1 DEF Types, Operation
<1>4. /\ op.at \in {"fence", "undo_old"} => g = op.old
      /\ op.at \in {"prepare", "activate", "undo_new"} => g = op.new
  BY <1>2, Callees
<1>5. Alive(g) /\ handling[g] = "none"
  BY <1>2 DEF Send
<1>6. PICK doing \in Handlings, next \in Living, open \in BOOLEAN :
        /\ handling' = [handling EXCEPT ![g] = doing] /\ control' = [control EXCEPT ![g] = next]
        /\ gate' = [gate EXCEPT ![g] = open]
        /\ open => gate[g] /\ op.at \in {"prepare", "activate", "undo_old"}
        /\ op.at = "fence" => control[g] = "active" /\ next = "active" /\ doing = "fence"
        /\ op.at = "prepare" => control[g] = "passive" /\ next = "passive" /\ doing = "prepare"
        /\ op.at = "activate" => control[g] = "prepared" /\ next = "prepared" /\ doing = "activate"
        /\ op.at = "undo_old" => control[g] = "fenced" /\ next = "fenced" /\ doing = "resume"
        /\ op.at = "undo_new" => next = "draining" /\ doing = IF control[g] = "active" THEN "pause" ELSE "close"
  <2>1. control[g] \in Living /\ gate[g] \in BOOLEAN /\ control = [control EXCEPT ![g] = control[g]]
        /\ gate = [gate EXCEPT ![g] = gate[g]]
    BY <1>5 DEF Alive, Types
  <2>2. Accepts(g, CommandOf[op.at])
    BY <1>2 DEF Send
  <2>3. CASE op.at = "fence"
    <3>1. CommandOf[op.at] = "fence"
      BY <2>3, CommandsAre
    <3>2. /\ handling' = [handling EXCEPT ![g] = "fence"] /\ control' = control
          /\ gate' = [gate EXCEPT ![g] = FALSE]
      BY <1>2, <3>1 DEF Send
    <3>3. control[g] = "active"
      BY <2>2, <3>1 DEF Accepts
    <3>4. "fence" \in Handlings /\ FALSE \in BOOLEAN
      BY DEF Handlings
    <3> QED BY <2>1, <2>3, <3>2, <3>3, <3>4
  <2>4. CASE op.at = "prepare"
    <3>1. CommandOf[op.at] = "prepare"
      BY <2>4, CommandsAre
    <3>2. handling' = [handling EXCEPT ![g] = "prepare"] /\ control' = control /\ gate' = gate
      BY <1>2, <3>1 DEF Send
    <3>3. control[g] = "passive"
      BY <2>2, <3>1 DEF Accepts
    <3>4. "prepare" \in Handlings
      BY DEF Handlings
    <3> QED BY <2>1, <2>4, <3>2, <3>3, <3>4
  <2>5. CASE op.at = "activate"
    <3>1. CommandOf[op.at] = "activate"
      BY <2>5, CommandsAre
    <3>2. handling' = [handling EXCEPT ![g] = "activate"] /\ control' = control /\ gate' = gate
      BY <1>2, <3>1 DEF Send
    <3>3. control[g] = "prepared"
      BY <2>2, <3>1 DEF Accepts
    <3>4. "activate" \in Handlings
      BY DEF Handlings
    <3> QED BY <2>1, <2>5, <3>2, <3>3, <3>4
  <2>6. CASE op.at = "undo_old"
    <3>1. CommandOf[op.at] = "resume"
      BY <2>6, CommandsAre
    <3>2. handling' = [handling EXCEPT ![g] = "resume"] /\ control' = control /\ gate' = gate
      BY <1>2, <3>1 DEF Send
    <3>3. control[g] = "fenced"
      BY <2>2, <3>1 DEF Accepts
    <3>4. "resume" \in Handlings
      BY DEF Handlings
    <3> QED BY <2>1, <2>6, <3>2, <3>3, <3>4
  <2>7. CASE op.at = "undo_new"
    <3>1. CommandOf[op.at] = "deactivate"
      BY <2>7, CommandsAre
    <3>2. PICK doing \in Handlings : doing = IF control[g] = "active" THEN "pause" ELSE "close"
      BY DEF Handlings
    <3>3. /\ handling' = [handling EXCEPT ![g] = doing] /\ control' = [control EXCEPT ![g] = "draining"]
          /\ gate' = [gate EXCEPT ![g] = FALSE]
      BY <1>2, <3>1, <3>2 DEF Send
    <3>4. "draining" \in Living /\ FALSE \in BOOLEAN
      BY DEF Living
    <3> QED BY <2>7, <3>2, <3>3, <3>4
  <2> QED BY <1>1, <2>3, <2>4, <2>5, <2>6, <2>7
<1>7. /\ handling' \in [Generations -> Handlings] /\ control' \in [Generations -> ControlStates]
      /\ gate' \in [Generations -> BOOLEAN]
      /\ handling'[g] = doing /\ control'[g] = next /\ gate'[g] = open
      /\ \A h \in Generations : h # g => /\ control'[h] = control[h] /\ gate'[h] = gate[h]
                                         /\ handling'[h] = handling[h]
  BY <1>6 DEF Types, ControlStates
<1>8. Types' /\ Gones'
  BY <1>1, <1>3, <1>7 DEF Types, Gones, Alive
<1>9. Placed' /\ Prepared'
  <2>1. \A h \in Generations : control[h] # "absent" => control'[h] # "absent"
    BY <1>7 DEF Living
  <2>2. route \in Generations \cup {None} /\ Calling'
    BY <1>1, <1>3 DEF Types, Calling
  <2> QED BY <1>1, <1>3, <2>1, <2>2 DEF Placed, Prepared
<1>10. ASSUME faults' <= 1 PROVE Calm'
  <2>1. Calm
    BY <1>1, <1>10
  <2>2. op.at = "undo_new" => faults = 1
    BY <2>1 DEF Calm, Serving, Undoing
  <2>3. \A h \in Generations : handling[h] # "pause"
    BY <1>1, <2>1 DEF Calm, Handlers
  <2>4. gate[g] => control[g] = "active"
    BY <2>1 DEF Calm, Handlers
  <2>5. Handlers'
    <3>1. ~open
      BY <1>6, <2>4
    <3>2. requests[g] > 0 => control[g] = "active"
      BY <2>1, <2>3 DEF Calm, Handlers
    <3>3. requests[g] > 0 => next = "active" \/ doing = "pause"
      BY <1>1, <1>6, <3>2
    <3> QED BY <1>1, <1>3, <1>4, <1>6, <1>7, <2>1, <2>2, <2>3, <3>1, <3>3 DEF Calm, Handlers
  <2>6. Executed'
    <3>1. Callee' = g /\ Calling'
      BY <1>1, <1>2, <1>3 DEF Callee, Calling
    <3>2. /\ op'.at = "fence" => handling'[g] = "fence"
          /\ op'.at = "prepare" => handling'[g] = "prepare"
          /\ op'.at = "activate" => handling'[g] = "activate"
          /\ op'.at = "undo_new" => handling'[g] \in {"pause", "close"}
          /\ op'.at = "undo_old" => handling'[g] = "resume"
      BY <1>3, <1>6, <1>7
    <3> QED BY <1>1, <1>3, <3>1, <3>2 DEF Executed
  <2>7. Exclusive'
    <3>1. \A h \in Generations : h # g => (Busy(h)' <=> Busy(h))
      BY <1>7 DEF Busy
    <3>2. op.at \notin {"activate", "undo_old"} => (Busy(g)' => Busy(g))
      BY <1>1, <1>6, <1>7 DEF Busy
    <3>3. op.at = "activate" => route = g
      BY <1>4 DEF Placed, Routed
    <3>4. op.at = "undo_old" => route = g
      BY <1>4 DEF Placed, Undoing
    <3> QED BY <1>1, <1>3, <2>1, <3>1, <3>2, <3>3, <3>4 DEF Calm, Exclusive, OnlyBusy, Passing
  <2>8. Serving'
    <3>1. op.at # "fence" /\ op.at # "undo_old" => g # op.old
      BY <1>1, <1>4
    <3>2. op.at \in {"prepare", "activate"} => Fenced(op.old)'
      BY <1>1, <1>3, <1>7, <2>1, <3>1 DEF Calm, Serving, Passing, Fenced, Alive
    <3>3. op.at \in Undoing => Recoverable(op.old)'
      BY <1>1, <1>3, <1>4, <1>6, <1>7, <2>1, <3>1 DEF Calm, Serving, Undoing, Recoverable, Alive
    <3>4. op.at \in Undoing => faults' = 1
      BY <1>1, <2>1 DEF Calm, Serving
    <3> QED BY <1>1, <1>3, <3>2, <3>3, <3>4 DEF Serving, Hot, Passing, Undoing
  <2> QED BY <2>5, <2>6, <2>7, <2>8 DEF Calm
<1>11. ASSUME faults' = 0 PROVE Faultless'
  <2>1. Faultless /\ Calm
    BY <1>1, <1>11
  <2>2. op.at \notin Undoing
    BY <1>1, <1>11, <2>1 DEF Calm, Serving
  <2>3. \A h \in Generations : control'[h] \notin {"exited", "dead"}
    BY <1>7, <2>1 DEF Faultless, Living
  <2> QED BY <1>1, <1>3, <1>4, <1>6, <1>7, <2>1, <2>2, <2>3 DEF Faultless, Undoing, Routed, Is
<1> QED BY <1>8, <1>9, <1>10, <1>11

\* Deactivating an active Control pauses it first.
LEMMA PauseKeeps ==
  ASSUME IInv, NEW g \in Generations, Pause(g) \/ CloseGate(g)
  PROVE  IInv'
<1> USE DEF IInv
<1>1. /\ handling[g] \in {"pause", "reopened"} /\ faults' = faults /\ faults' \in Nat
      /\ UNCHANGED <<mem, file, route, control, requests, op>>
  BY NoFaultIs DEF Pause, CloseGate, registryVars
<1>2. PICK doing \in {"close", "reopened"}, open \in BOOLEAN :
        /\ handling' = [handling EXCEPT ![g] = doing] /\ gate' = [gate EXCEPT ![g] = open]
        /\ handling[g] = "pause" =>
             \/ doing = "close" /\ requests[g] = 0 /\ open = gate[g]
             \/ ~Awaited(g)
  <2>1. gate = [gate EXCEPT ![g] = gate[g]] /\ gate[g] \in BOOLEAN
    BY DEF Types
  <2>2. CASE Pause(g) /\ gate' = gate /\ requests[g] = 0 /\ handling' = [handling EXCEPT ![g] = "close"]
    BY <2>1, <2>2
  <2>3. CASE /\ Pause(g) /\ ~Awaited(g) /\ handling' = [handling EXCEPT ![g] = "reopened"]
             /\ gate' = [gate EXCEPT ![g] = TRUE]
    BY <2>3
  <2>4. CASE CloseGate(g)
    <3>1. /\ handling[g] = "reopened" /\ handling' = [handling EXCEPT ![g] = "close"]
          /\ gate' = [gate EXCEPT ![g] = FALSE]
      BY <2>4 DEF CloseGate
    <3> QED BY <3>1
  <2> QED BY <2>2, <2>3, <2>4 DEF Pause
<1>3. /\ handling' \in [Generations -> Handlings] /\ gate' \in [Generations -> BOOLEAN]
      /\ handling'[g] = doing /\ gate'[g] = open
      /\ \A h \in Generations : h # g => gate'[h] = gate[h] /\ handling'[h] = handling[h]
  BY <1>2 DEF Types, Handlings
<1>4. Alive(g)
  BY <1>1 DEF Gones
<1>5. Types' /\ Gones'
  BY <1>1, <1>3, <1>4 DEF Types, Gones, Alive
<1>6. Placed' /\ Prepared'
  BY <1>1 DEF Placed, Prepared, Calling
<1>7. ASSUME faults' <= 1 PROVE Calm'
  <2>1. Calm
    BY <1>1, <1>7
  <2>2. handling[g] = "pause" /\ op.at = "undo_new" /\ op.sent /\ g = op.new /\ Awaited(g)
    BY <1>1, <2>1, Callees DEF Calm, Handlers, Awaited
  <2>3. doing = "close" /\ requests[g] = 0 /\ open = gate[g] /\ ~gate[g]
    BY <1>2, <2>1, <2>2 DEF Calm, Handlers
  <2>4. Handlers'
    BY <1>1, <1>3, <2>1, <2>2, <2>3 DEF Calm, Handlers
  <2>5. Executed'
    <3>1. Callee' = Callee /\ Calling /\ Calling' /\ Callee = g
      BY <1>1, <2>2, Callees, Calls DEF Callee, Calling
    <3> QED BY <1>1, <1>3, <2>2, <2>3, <3>1 DEF Executed
  <2>6. \A h \in Generations : Busy(h)' => Busy(h)
    BY <1>1, <1>3, <2>3 DEF Busy
  <2>7. Exclusive'
    BY <1>1, <2>1, <2>2, <2>6 DEF Calm, Exclusive, OnlyBusy, Passing
  <2>8. op.old # g /\ op.old \in Generations \cup {None}
    BY <2>2 DEF Placed, Undoing, Types, Operation
  <2>9. Serving'
    BY <1>1, <1>3, <2>1, <2>2, <2>8 DEF Calm, Serving, Hot, Passing, Undoing, Recoverable, Alive
  <2> QED BY <2>4, <2>5, <2>7, <2>9 DEF Calm
<1>8. ASSUME faults' = 0 PROVE Faultless'
  <2>1. FALSE
    BY <1>1, <1>8 DEF Calm, Handlers
  <2> QED BY <2>1
<1> QED BY <1>5, <1>6, <1>7, <1>8

LEMMA HandleKeeps ==
  ASSUME IInv, NEW g \in Generations, Handle(g)
  PROVE  IInv'
<1>1. CASE Pause(g) \/ CloseGate(g)
  BY <1>1, PauseKeeps
<1>2. ASSUME NEW command \in Commands, NEW ok \in BOOLEAN, NEW n \in {0, 1}, NEW next \in Living, NEW open \in BOOLEAN,
             Outcome(command, ok, n, next, open), Finish(g, command, ok, n, next, open),
             command = "fence" => IF ok THEN requests[g] = 0 ELSE ~Awaited(g)
      PROVE  IInv'
  <2>1. CASE Awaited(g)
    BY <1>2, <2>1, FinishAwaitedKeeps
  <2>2. CASE ~Awaited(g)
    BY <1>2, <2>2, FinishUnawaitedKeeps
  <2> QED BY <2>1, <2>2
<1> QED BY <1>1, <1>2, HandleIs

-----------------------------------------------------------------------------
(* The environment of a Control.                                           *)

LEMMA MutationKeeps ==
  ASSUME IInv, NEW g \in Generations, Admit(g) \/ Release(g)
  PROVE  IInv'
<1> USE DEF IInv
<1>1. /\ faults' = faults /\ faults' \in Nat
      /\ UNCHANGED <<mem, file, route, control, gate, handling, op>>
  BY NoFaultIs DEF Admit, Release, registryVars
<1>2. /\ requests' \in [Generations -> Nat]
      /\ \A h \in Generations : h # g => requests'[h] = requests[h]
      /\ gate[g] \/ (requests[g] > 0 /\ requests'[g] < requests[g])
  BY DEF Admit, Release, Types
<1>3. Types'
  BY <1>1, <1>2 DEF Types
<1>4. Gones'
  BY <1>1, <1>2 DEF Gones, Alive, Types
<1>5. Placed' /\ Prepared'
  BY <1>1 DEF Placed, Prepared, Calling
<1>6. ASSUME faults' <= 1 PROVE Calm'
  <2>1. Calm
    BY <1>1, <1>6
  <2>2. Handlers'
    BY <1>1, <1>2, <2>1 DEF Calm, Handlers, Types
  <2>3. Executed'
    BY <1>1, <2>1 DEF Calm, Executed, Callee, Alive
  <2>4. Exclusive' /\ Serving'
    BY <1>1, <2>1 DEF Calm, Exclusive, OnlyBusy, Busy, Serving, Served, Fenced, Recoverable, Alive
  <2> QED BY <2>2, <2>3, <2>4 DEF Calm
<1>7. faults' = 0 => Faultless'
  BY <1>1 DEF Faultless, Is
<1> QED BY <1>3, <1>4, <1>5, <1>6, <1>7

LEMMA StartRecordingKeeps ==
  ASSUME IInv, NEW g \in Generations, NEW r \in Recordings, NEW w \in Workers, StartRecording(g, r, w)
  PROVE  IInv'
<1> USE DEF IInv
<1>1. /\ faults' = faults /\ faults' \in Nat
      /\ UNCHANGED <<route, control, gate, requests, handling, op>>
  BY NoFaultIs DEF StartRecording, controlVars
<1>2. /\ mem' \in R!Snapshot /\ file' \in R!Snapshot /\ mem'.active = mem.active
      /\ mem'.pending = mem.pending /\ mem'.previous = mem.previous /\ mem'.staged = mem.staged
      /\ mem'.state = mem.state
  <2>1. PICK l \in R!Lease : l = [gen |-> g, worker |-> w]
    BY DEF R!Lease
  <2>2. PICK t \in R!Snapshot :
          /\ t = R!PinIn(mem, r, l) /\ t.active = mem.active /\ t.pending = mem.pending
          /\ t.previous = mem.previous /\ t.staged = mem.staged /\ t.state = mem.state
    BY PinIs DEF Types
  <2>3. R!Change(t)
    BY <2>1, <2>2 DEF StartRecording, R!PinRecording
  <2> QED BY <2>2, <2>3, ChangeIs
<1>3. Types'
  BY <1>1, <1>2 DEF Types
<1>4. Gones'
  BY <1>1 DEF Gones, Alive
<1>5. Placed' /\ Prepared'
  BY <1>1, <1>2 DEF Placed, Prepared, Calling, R!CanActivate
<1>6. ASSUME faults' <= 1 PROVE Calm'
  <2>1. Calm
    BY <1>1, <1>6
  <2>2. Handlers' /\ Executed'
    BY <1>1, <2>1 DEF Calm, Handlers, Executed, Callee, Alive
  <2>3. Exclusive' /\ Serving'
    BY <1>1, <2>1 DEF Calm, Exclusive, OnlyBusy, Busy, Serving, Served, Fenced, Recoverable, Alive
  <2> QED BY <2>2, <2>3 DEF Calm
<1>7. faults' = 0 => Faultless'
  BY <1>1, <1>2 DEF Faultless, Is, R!CanRollback
<1> QED BY <1>3, <1>4, <1>5, <1>6, <1>7

LEMMA DieKeeps ==
  ASSUME IInv, NEW g \in Generations, Die(g)
  PROVE  IInv'
<1> USE DEF IInv
<1>1. /\ faults' = faults + 1 /\ faults' \in Nat /\ UNCHANGED <<mem, file, route, op>>
      /\ Gone(g, "exited") /\ Alive(g)
  BY FaultIs DEF Die, registryVars
<1>2. /\ control' \in [Generations -> ControlStates] /\ gate' \in [Generations -> BOOLEAN]
      /\ requests' \in [Generations -> Nat] /\ handling' \in [Generations -> Handlings]
      /\ control'[g] = "exited" /\ ~gate'[g] /\ requests'[g] = 0 /\ handling'[g] = "none"
      /\ \A h \in Generations : h # g => /\ control'[h] = control[h] /\ gate'[h] = gate[h]
                                         /\ requests'[h] = requests[h] /\ handling'[h] = handling[h]
  <2>1. PICK next \in {"absent", "exited"} : next = "exited"
    OBVIOUS
  <2> QED BY <1>1, <2>1, GoneIs
<1>3. Types' /\ Gones'
  BY <1>1, <1>2 DEF Types, Gones, Alive
<1>4. Placed' /\ Prepared'
  <2>1. \A h \in Generations : control[h] # "absent" => control'[h] # "absent"
    BY <1>2
  <2>2. route \in Generations \cup {None} /\ op.old \in Generations \cup {None}
    BY DEF Types, Operation
  <2> QED BY <1>1, <2>1, <2>2 DEF Placed, Prepared, Calling
<1>5. ASSUME faults' <= 1 PROVE Calm'
  <2>1. Calm /\ faults = 0
    BY <1>1, <1>5 DEF Types
  <2>2. op.at \notin Undoing
    BY <2>1 DEF Calm, Serving
  <2>3. Handlers'
    BY <1>1, <1>2, <2>1, <2>2 DEF Calm, Handlers, Undoing
  <2>4. Executed'
    <3>1. Callee' = Callee /\ (op.sent => Callee \in Generations)
      BY <1>1, CalleeIs DEF Callee, Placed
    <3>2. op.sent /\ Alive(Callee)' => Alive(Callee) /\ handling'[Callee] = handling[Callee]
      BY <1>2, <3>1 DEF Alive, Living
    <3> QED BY <1>1, <2>1, <3>1, <3>2 DEF Calm, Executed
  <2>5. \A h \in Generations : Busy(h)' => Busy(h)
    BY <1>2 DEF Busy
  <2>6. Exclusive'
    BY <1>1, <2>1, <2>2, <2>5 DEF Calm, Exclusive, OnlyBusy, Undoing
  <2>7. Serving'
    <3>1. \A h \in Generations \cup {None} : (Served(h) => Served(h)') /\ (Fenced(h) => Fenced(h)')
      BY <1>2 DEF Served, Fenced, Alive, Living
    <3>2. route \in Generations \cup {None} /\ op.old \in Generations \cup {None}
      BY DEF Types, Operation
    <3> QED BY <1>1, <2>1, <2>2, <3>1, <3>2 DEF Calm, Serving
  <2> QED BY <2>3, <2>4, <2>6, <2>7 DEF Calm
<1>6. faults' # 0
  BY <1>1 DEF Types
<1> QED BY <1>3, <1>4, <1>5, <1>6

LEMMA ObserveExitKeeps ==
  ASSUME IInv, NEW g \in Generations, ObserveExit(g)
  PROVE  IInv'
<1> USE DEF IInv
<1>1. /\ faults' = faults /\ faults' \in Nat /\ control[g] = "exited"
      /\ UNCHANGED <<mem, file, route, gate, requests, handling, op>>
  BY NoFaultIs DEF ObserveExit, registryVars
<1>2. /\ control' \in [Generations -> ControlStates] /\ control'[g] = "dead"
      /\ \A h \in Generations : h # g => control'[h] = control[h]
  BY DEF ObserveExit, Types, ControlStates
<1>3. ~Alive(g) /\ ~gate[g] /\ requests[g] = 0 /\ handling[g] = "none"
  BY <1>1 DEF Gones, Alive, Living
<1>4. Types' /\ Gones'
  BY <1>1, <1>2, <1>3 DEF Types, Gones, Alive
<1>5. Placed' /\ Prepared'
  <2>1. \A h \in Generations : control[h] # "absent" => control'[h] # "absent"
    BY <1>2
  <2>2. route \in Generations \cup {None} /\ op.old \in Generations \cup {None}
    BY DEF Types, Operation
  <2> QED BY <1>1, <2>1, <2>2 DEF Placed, Prepared, Calling
<1>6. ASSUME faults' <= 1 PROVE Calm'
  <2>1. Calm
    BY <1>1, <1>6
  <2>2. \A h \in Generations : /\ Alive(h)' <=> Alive(h)
                               /\ Alive(h) => control'[h] = control[h]
                               /\ Busy(h)' <=> Busy(h)
    BY <1>1, <1>2, <1>3 DEF Alive, Living, Busy
  <2>3. Handlers'
    BY <1>1, <1>2, <1>3, <2>1 DEF Calm, Handlers
  <2>4. Executed'
    <3>1. Callee' = Callee /\ (op.sent => Callee \in Generations)
      BY <1>1, CalleeIs DEF Callee, Placed
    <3>2. op.sent /\ Alive(Callee)' => Alive(Callee)
      BY <1>2, <3>1 DEF Alive, Living
    <3> QED BY <1>1, <2>1, <3>1, <3>2 DEF Calm, Executed
  <2>5. Exclusive'
    BY <1>1, <2>1, <2>2 DEF Calm, Exclusive, OnlyBusy
  <2>6. Serving'
    <3>1. \A h \in Generations \cup {None} :
            (Served(h) => Served(h)') /\ (Fenced(h) => Fenced(h)') /\ (Recoverable(h) => Recoverable(h)')
      BY <1>1, <1>2 DEF Served, Fenced, Recoverable, Alive, Living
    <3>2. route \in Generations \cup {None} /\ op.old \in Generations \cup {None}
      BY DEF Types, Operation
    <3> QED BY <1>1, <2>1, <3>1, <3>2 DEF Calm, Serving
  <2> QED BY <2>3, <2>4, <2>5, <2>6 DEF Calm
<1>7. faults' # 0
  BY <1>1 DEF Faultless
<1> QED BY <1>4, <1>5, <1>6, <1>7

-----------------------------------------------------------------------------
(* Every step.                                                             *)

LEMMA InitIInv == Init => IInv
<1> SUFFICES ASSUME Init PROVE IInv
  OBVIOUS
<1> USE DEF Init
<1>1. R!EmptySnapshot \in R!Snapshot
  BY DEF R!EmptySnapshot, R!Snapshot, R!States
<1>2. Types
  BY <1>1, BootFields DEF Types, R!RegistryInit, ControlStates, Handlings
<1>3. Placed /\ Gones /\ Prepared
  BY BootFields DEF Placed, Gones, Prepared, Passing, Undoing, Routed
<1>4. Calm
  BY BootFields DEF Calm, Handlers, Executed, Exclusive, OnlyBusy, Busy, Serving, Served, Hot, Passing, Undoing
<1>5. Faultless
  BY BootFields DEF Faultless
<1> QED BY <1>2, <1>3, <1>4, <1>5 DEF IInv

LEMMA HostNextKeeps ==
  ASSUME IInv, HostNext
  PROVE  IInv'
<1>1. CASE FailStagedAtBoot \/ ChooseGeneration
  BY <1>1, FailStagedAtBootKeeps, ChooseGenerationKeeps
<1>2. CASE BeginActivate \/ BeginRollback \/ \E g \in Generations : BeginStage(g)
  BY <1>2, BeginKeeps
<1>3. CASE StageStep \/ VerifyStep \/ LaunchEngine \/ Launch
  BY <1>3, StagingKeeps, LaunchEngineKeeps, LaunchKeeps
<1>4. CASE MarkReadyStep \/ Promote \/ ColdStart
  BY <1>4, MarkReadyKeeps, PromoteKeeps, ColdStartKeeps
<1>5. CASE Send \/ Refuse \/ Unreachable \/ TimeOut
  BY <1>5, SendKeeps, AnswerAtOnceKeeps, TimeOutKeeps
<1>6. CASE Enter \/ Quiesce \/ Commit \/ SwitchRoute
  BY <1>6, EnterKeeps, QuiesceKeeps, CommitKeeps, SwitchRouteKeeps
<1>7. CASE Abort \/ Settle \/ FinishOperation \/ Finalize
  BY <1>7, AbortKeeps, SettleKeeps, FinishOperationKeeps, FinalizeKeeps
<1>8. CASE StopCandidate \/ FailCandidate \/ EndOperation
  BY <1>8, StopCandidateKeeps, FailCandidateKeeps, EndOperationKeeps
<1>9. CASE HostCrash \/ Exit
  BY <1>9, RestartKeeps
<1> QED BY <1>1, <1>2, <1>3, <1>4, <1>5, <1>6, <1>7, <1>8, <1>9 DEF HostNext

LEMMA ControlNextKeeps ==
  ASSUME IInv, ControlNext
  PROVE  IInv'
<1>1. PICK g \in Generations :
        \/ Handle(g) \/ Admit(g) \/ Release(g) \/ Die(g) \/ ObserveExit(g)
        \/ \E r \in Recordings, w \in Workers : StartRecording(g, r, w)
  BY DEF ControlNext
<1>2. CASE Handle(g)
  BY <1>2, HandleKeeps
<1>3. CASE Admit(g) \/ Release(g)
  BY <1>3, MutationKeeps
<1>4. CASE Die(g) \/ ObserveExit(g)
  BY <1>4, DieKeeps, ObserveExitKeeps
<1>5. CASE \E r \in Recordings, w \in Workers : StartRecording(g, r, w)
  BY <1>5, StartRecordingKeeps
<1> QED BY <1>1, <1>2, <1>3, <1>4, <1>5

LEMMA StutterKeeps == ASSUME IInv, UNCHANGED vars PROVE IInv'
<1> USE DEF IInv
<1>1. UNCHANGED <<mem, file, route, control, gate, requests, handling, op, faults>>
  BY DEF vars
<1>2. Types' /\ Placed' /\ Gones' /\ Prepared'
  BY <1>1 DEF Types, Placed, Gones, Prepared, Calling, Alive
<1>3. ASSUME faults' <= 1 PROVE Calm'
  <2>1. Calm
    BY <1>1, <1>3
  <2>2. Handlers' /\ Executed'
    BY <1>1, <2>1 DEF Calm, Handlers, Executed, Callee, Alive
  <2>3. Exclusive' /\ Serving'
    BY <1>1, <2>1 DEF Calm, Exclusive, OnlyBusy, Busy, Serving, Served, Fenced, Recoverable, Alive
  <2> QED BY <2>2, <2>3 DEF Calm
<1>4. faults' = 0 => Faultless'
  BY <1>1 DEF Faultless, Is
<1> QED BY <1>2, <1>3, <1>4

\* The inductive invariant holds throughout (bootstrap.Run, updateController,
\* ActivateControlWith): who may admit mutations at each step of a switch, what
\* the old Control can be brought back to, and what nothing but a fault spoils.
THEOREM Inductive == Spec => []IInv
<1>1. IInv /\ [Next]_vars => IInv'
  BY HostNextKeeps, ControlNextKeeps, StutterKeeps DEF Next
<1> QED BY InitIInv, <1>1, PTL DEF Spec

-----------------------------------------------------------------------------
(* What the project's runs check.                                          *)

LEMMA BusyIsOne ==
  ASSUME IInv, faults <= 1, NEW g \in Generations, NEW h \in Generations, Busy(g), Busy(h)
  PROVE  g = h
BY DEF IInv, Calm, Exclusive, OnlyBusy

\* "only one generation can run Watch/retention/background admission at a
\* time" (ActivateControlWith): with at most one fault, whatever it is and
\* wherever it falls, no two Controls admit mutations.
THEOREM OneControl == Spec => []OneControlServes
<1>1. IInv => OneControlServes
  <2> SUFFICES ASSUME IInv, faults <= 1, NEW g \in Generations, NEW h \in Generations, gate[g], gate[h]
               PROVE  g = h
    BY DEF OneControlServes
  <2>1. Busy(g) /\ Busy(h)
    BY DEF IInv, Calm, Handlers, Busy
  <2> QED BY <2>1, BusyIsOne
<1> QED BY <1>1, Inductive, PTL

\* A mutation that one Control admitted has ended, or its process has, before
\* another Control admits one (ActivateControlWith, pauseForHandoff).
THEOREM EpochsAreKept == Spec => []MutationsStayInTheirEpoch
<1>1. IInv => MutationsStayInTheirEpoch
  <2> SUFFICES ASSUME IInv, faults <= 1, NEW g \in Generations, NEW h \in Generations, gate[g], requests[h] > 0
               PROVE  g = h
    BY DEF MutationsStayInTheirEpoch
  <2>1. Busy(g) /\ Busy(h)
    BY DEF IInv, Calm, Handlers, Busy
  <2> QED BY <2>1, BusyIsOne
<1> QED BY <1>1, Inductive, PTL

\* Whatever one fault does to a switch, the Control that the route names when
\* the operation is over is served, unless its process is gone
\* (ActivateControlWith, Rollback of controlLifecycle).
THEOREM ServiceIsKept == Spec => []OneFaultKeepsService
<1>1. IInv => OneFaultKeepsService
  <2> SUFFICES ASSUME IInv, op = Idle, faults <= 1, NEW g \in Generations, g = route, Alive(g)
               PROVE  gate[g]
    BY DEF OneFaultKeepsService
  <2>1. op.at \notin Hot
    BY IdleFields DEF Hot, Passing, Undoing
  <2>2. Served(route) /\ route # None
    BY <2>1 DEF IInv, Calm, Serving
  <2> QED BY <2>2 DEF Served
<1> QED BY <1>1, Inductive, PTL

\* A startup is over only by FinishOperation or by Finalize.
LEMMA StartupEnds ==
  ASSUME IInv, Next, op.kind = "startup", op'.kind = "none"
  PROVE  FinishOperation \/ Finalize
<1> USE DEF IInv
<1>1. \A at : Goto(at) => op'.kind = "startup"
  BY DEF Goto, Types, Operation
<1>2. /\ \A at, ok : ~Proceed(at, ok)
      /\ \A ok : ~Reply(ok)
  BY DEF Proceed, Reply, Types, Operation
<1>3. ASSUME NEW kind \in {"startup", "stage", "update", "rollback"}, NEW at, NEW g PROVE ~Begin(kind, at, g)
  BY DEF Begin, Idle
<1>4. op' # Boot /\ op' # op /\ op # Idle
  BY BootFields, IdleFields
<1>5. ~FailStagedAtBoot /\ ~StageStep /\ ~VerifyStep /\ ~LaunchEngine /\ ~Launch
  BY <1>1 DEF FailStagedAtBoot, StageStep, VerifyStep, LaunchEngine, Launch, Persist
<1>6. ~ChooseGeneration /\ ~BeginActivate /\ ~BeginRollback /\ \A g \in Generations : ~BeginStage(g)
  BY <1>3, <1>4 DEF ChooseGeneration, BeginActivate, BeginRollback, BeginStage
<1>7. ~MarkReadyStep /\ ~Promote /\ ~ColdStart
  BY <1>1 DEF MarkReadyStep, Promote, ColdStart, Persist
<1>8. ~Send
  BY DEF Send, Types, Operation
<1>9. ~Refuse /\ ~Unreachable /\ ~TimeOut
  BY <1>2 DEF Refuse, Unreachable, TimeOut
<1>10. ~Enter
  <2>1. ~\E at : op' = [op EXCEPT !.old = route, !.at = at]
    BY DEF Types, Operation
  <2> QED BY <1>1, <2>1 DEF Enter
<1>11. ~Quiesce /\ ~SwitchRoute /\ ~Abort /\ ~Settle
  BY <1>1 DEF Quiesce, SwitchRoute, Abort, Settle, Persist
<1>12. ~Commit
  BY <1>1 DEF Commit
<1>13. ~StopCandidate /\ ~EndOperation
  BY DEF StopCandidate, EndOperation, Placed
<1>14. ~FailCandidate
  BY <1>1 DEF FailCandidate, Persist
<1>15. ~HostCrash /\ ~Exit
  BY <1>4 DEF HostCrash, Exit, Restart
<1>16. ~ControlNext
  <2> SUFFICES ASSUME NEW g \in Generations,
                      \/ Handle(g) \/ Admit(g) \/ Release(g) \/ Die(g) \/ ObserveExit(g)
                      \/ \E r \in Recordings, w \in Workers : StartRecording(g, r, w)
               PROVE  FALSE
    BY DEF ControlNext
  <2>1. ~Admit(g) /\ ~Release(g) /\ ~Die(g) /\ ~ObserveExit(g) /\ ~Pause(g) /\ ~CloseGate(g)
    BY <1>4 DEF Admit, Release, Die, ObserveExit, Pause, CloseGate
  <2>2. ~\E r \in Recordings, w \in Workers : StartRecording(g, r, w)
    BY <1>4 DEF StartRecording
  <2>3. ASSUME NEW command \in Commands, NEW ok \in BOOLEAN, NEW n \in {0, 1}, NEW next \in Living,
               NEW open \in BOOLEAN, Finish(g, command, ok, n, next, open)
        PROVE  FALSE
    <3>1. Reply(ok) \/ op' = op
      BY <2>3 DEF Finish, Answer
    <3> QED BY <1>2, <1>4, <3>1
  <2>4. Handle(g)
    BY <2>1, <2>2
  <2>5. PICK command \in Commands, ok \in BOOLEAN, n \in {0, 1}, next \in Living, open \in BOOLEAN :
          Finish(g, command, ok, n, next, open)
    BY <2>1, <2>4, HandleIs
  <2> QED BY <2>3, <2>5
<1> QED BY <1>5, <1>6, <1>7, <1>8, <1>9, <1>10, <1>11, <1>12, <1>13, <1>14, <1>15, <1>16 DEF Next, HostNext

\* A startup that completes leaves the route on the default of the registry
\* and the journal of the activation closed, whatever the snapshot it found
\* (bootstrap.Run).
THEOREM StartupsSettle == Spec => StartupSettles
<1>1. IInv /\ [Next]_vars => (op.kind = "startup" /\ op'.kind = "none" =>
                                route' = mem'.active /\ mem'.pending = None)
  <2> SUFFICES ASSUME IInv, [Next]_vars, op.kind = "startup", op'.kind = "none"
               PROVE  route' = mem'.active /\ mem'.pending = None
    OBVIOUS
  <2>1. Next
    BY DEF vars
  <2>2. op.at \in Routed => route = op.new /\ mem.active = op.new
    BY DEF IInv, Placed
  <2>3. CASE FinishOperation
    <3>1. op.at = "finish" /\ UNCHANGED <<mem, route>>
      BY <2>3 DEF FinishOperation, registryVars, Host
    <3>2. \A at : ~Goto(at)
      BY DEF Goto, IInv, Types, Operation
    <3> QED BY <2>2, <2>3, <3>1, <3>2 DEF FinishOperation, Routed
  <2>4. CASE Finalize
    <3>1. op.at = "finalize" /\ route' = route
      BY <2>4 DEF Finalize, Host
    <3>2. ~Goto("exit")
      BY DEF Goto, IInv, Types, Operation
    <3>3. mem' = R!FinalizeIn(mem)
      BY <2>4, <3>2 DEF Finalize
    <3> QED BY <2>2, <3>1, <3>3, FinalizeIs DEF IInv, Types, Routed
  <2> QED BY <2>1, <2>3, <2>4, StartupEnds
<1>2. IInv /\ [Next]_vars => [op.kind = "startup" /\ op'.kind = "none" =>
                                route' = mem'.active /\ mem'.pending = None]_vars
  BY <1>1
<1> QED BY <1>2, Inductive, PTL DEF Spec, StartupSettles
=============================================================================
