--------------------------- MODULE HandoverProofs ---------------------------
(***************************************************************************)
(* Theorems about Handover for any two Engines, any number of epochs,      *)
(* segments and faults, in whatever steps of the Host they come.           *)
(***************************************************************************)
EXTENDS Handover, FiniteSetTheorems, SequenceTheorems, TLAPS

USE HandoverAssumption

-----------------------------------------------------------------------------
(* The inductive invariant.                                                *)

Written == [what : {Segment, End}, epoch : Nat]
Marks == [at : EntryStates, epoch : Nat, view : Seq(Written)]
Commands ==
  [op : {"activate", "resume", "complete", "discard"}, engine : Engines, epoch : Nat, from : Nat]

Passes ==
  [at : HostSteps, left : SUBSET Engines, seen : SUBSET Engines, epoch : Nat, paused : BOOLEAN]

Types ==
  /\ default \in Engines
  /\ lease \in Engines \cup {None}
  /\ durable \in [engine : Engines \cup {None}, epoch : Nat, held : BOOLEAN]
  /\ tracked \in [engine : Engines \cup {None}, epoch : Nat]
  /\ entry \in [Engines -> Marks]
  /\ archive \in Seq(Written)
  /\ late \in SUBSET Commands
  /\ host \in Passes
  /\ process \in [Engines -> {"running", "stopped"}]
  /\ faults \in Nat

\* Whoever holds the token [e, n], or is about to, is where the authority and
\* the lease say.
Owns(e, n) == durable.held /\ durable.engine = e /\ durable.epoch = n
Entitled(e, n) == Owns(e, n) => tracked = DurableToken /\ lease = e

Starting(m) == m.op \in {"activate", "resume"}

Fenced ==
  /\ durable.held => durable.engine \in Engines /\ durable.epoch >= 1
  /\ durable.epoch = 0 => archive = <<>> /\ \A e \in Engines : entry[e] = NoEntry
  /\ \A e \in Engines : entry[e].epoch <= durable.epoch /\ Entitled(e, entry[e].epoch)
  /\ \A m \in late : Starting(m) => m.epoch <= durable.epoch /\ Entitled(m.engine, m.epoch)

\* The root is the copy v, and then what was written under the epoch n.
Reaches(v, n) ==
  /\ Len(v) <= Len(archive)
  /\ \A i \in 1 .. Len(v) : archive[i] = v[i]
  /\ \A i \in Len(v) + 1 .. Len(archive) : archive[i].epoch = n

Copies == {"claimed", "running", "asked", "parked"}

\* Why no Engine is made the owner of a root that its own worker is behind of.
Strayed(o) == Over \/ entry[o].at \in {"running", "fenced"}

\* The copy of the owner's worker is the root, but for what a target wrote
\* before its activation was rolled back.
Copied ==
  durable.held /\ entry[durable.engine].at \in Copies =>
    \/ entry[durable.engine].view = archive
    \/ /\ Reaches(entry[durable.engine].view, durable.epoch - 1)
       /\ \A o \in Engines \ {durable.engine} : Strayed(o)

\* What the Host may rely on at each step of the pass.
Before == {"prepare", "pause", "parking", "discard", "drained", "transfer"}
After == {"activate", "rollback"}

Relied ==
  /\ host.at \in Before \cup After \cup {"drop", "undo", "resume"} => durable.epoch >= 1
  /\ host.at \in Before \cup {"drop", "undo"} /\ durable.held => lease = Src
  /\ host.at \in Before /\ durable.held => Owns(Src, host.epoch)
  /\ host.at \in After => /\ host.epoch + 1 <= durable.epoch
                          /\ durable.held => Owns(Tgt, host.epoch + 1)
  /\ host.at = "activate" => Entitled(Tgt, host.epoch + 1)
  /\ host.at = "resume" => host.epoch + 2 <= durable.epoch /\ Entitled(Src, host.epoch + 2)
  /\ host.at \in {"drain", "count", "recheck", "stop"} => lease # Src
  /\ host.at \in {"count", "recheck", "stop"} => entry[Src].at # "claimed"
  /\ host.at = "stop" => ~Reported(Src)

\* The copies of both workers around the transfer of the ownership.
Moving ==
  /\ host.at = "transfer" /\ durable.held =>
       /\ entry[Tgt].at = "none"
       /\ entry[Src].at \in Copies => entry[Src].view = archive
  /\ host.at \in After /\ durable.held =>
       /\ entry[Tgt].at \in {"none", "running", "ended"}
       /\ entry[Tgt].at = "running" => entry[Tgt].view = archive /\ entry[Tgt].epoch = host.epoch + 1
       /\ entry[Src].at \in Copies => /\ Reaches(entry[Src].view, durable.epoch)
                                      /\ entry[Src].view = archive \/ Strayed(Tgt)

\* Where nothing fails, what the worker of the owner is doing at each step.
Serves(states) ==
  entry[durable.engine].epoch = durable.epoch /\ entry[durable.engine].at \in states
Settled == {"claimed", "running", "ended"}
SrcParked == entry[Src].at = "parked" /\ entry[Src].epoch = host.epoch
Tidy == HostSteps \ ({"parking", "discard", "drained", "transfer", "drop", "undo", "resume"} \cup After)

Smooth ==
  faults = 0 =>
    /\ late = {}
    /\ durable.held =>
         /\ host.at \in Tidy => Serves(Settled)
         /\ host.at = "parking" => Serves({"asked", "parked", "ended"})
         /\ host.at \in {"discard", "drained", "transfer", "undo"} =>
              SrcParked /\ host.paused /\ Owns(Src, host.epoch)
         /\ host.at = "drop" => IF host.paused THEN SrcParked /\ Owns(Src, host.epoch) ELSE Serves(Settled)
         /\ host.at \in After => SrcParked /\ tracked = DurableToken /\ lease = Tgt
         /\ host.at = "resume" => SrcParked /\ Owns(Src, host.epoch + 2)
    /\ host.at \in {"check", "prepare", "pause", "parking"} => ~host.paused

IInv == Types /\ Fenced /\ Copied /\ Relied /\ Moving /\ Smooth

-----------------------------------------------------------------------------
(* Forms of the state.                                                     *)

LEMMA TwoEngines ==
  ASSUME default \in Engines
  PROVE  Src \in Engines /\ Src # default /\ Engines = {default, Src} /\ None \notin Engines
<1>1. Cardinality(Engines \ {default}) = 1 /\ IsFiniteSet(Engines \ {default})
  BY FS_RemoveElement DEF HandoverAssumption
<1>2. PICK e : Engines \ {default} = {e}
  BY <1>1, FS_Singleton
<1>3. Src \in Engines /\ Src # default
  BY <1>2 DEF Src
<1> QED BY <1>2, <1>3 DEF HandoverAssumption

LEMMA Owned ==
  ASSUME Types, NEW e, NEW n
  PROVE  OwnedBy(e, n) <=> Owns(e, n)
BY DEF Types, OwnedBy, Owns, Owner

LEMMA EntryFields ==
  ASSUME NEW t \in Marks
  PROVE  /\ t = [at |-> t.at, epoch |-> t.epoch, view |-> t.view]
         /\ t.at \in EntryStates /\ t.epoch \in Nat /\ t.view \in Seq(Written)
BY DEF Marks

LEMMA NoEntryFields == NoEntry \in Marks /\ NoEntry.at = "none" /\ NoEntry.epoch = 0 /\ NoEntry.view = <<>>
<1>1. <<>> \in Seq(Written)
  OBVIOUS
<1> QED BY <1>1 DEF NoEntry, Marks, EntryStates

LEMMA EntryIsSet ==
  ASSUME Types, NEW e \in Engines, NEW at \in EntryStates, SetEntry(e, at)
  PROVE  /\ entry' \in [Engines -> Marks] /\ entry'[e].at = at /\ entry'[e].epoch = entry[e].epoch
         /\ entry'[e].view = entry[e].view /\ \A x \in Engines \ {e} : entry'[x] = entry[x]
<1>1. PICK t \in Marks : t = [entry[e] EXCEPT !.at = at]
  <2>1. entry[e] \in Marks
    BY DEF Types
  <2> QED BY <2>1 DEF Marks
<1>2. t.at = at /\ t.epoch = entry[e].epoch /\ t.view = entry[e].view
  <2>1. entry[e] \in Marks
    BY DEF Types
  <2> QED BY <1>1, <2>1 DEF Marks
<1>3. entry' = [entry EXCEPT ![e] = t]
  BY <1>1 DEF SetEntry
<1> QED BY <1>2, <1>3 DEF Types

LEMMA HostGoes ==
  ASSUME Types, NEW step \in HostSteps, Goto(step)
  PROVE  /\ host' \in Passes
         /\ host'.at = step /\ host'.epoch = host.epoch /\ host'.paused = host.paused
BY DEF Types, Goto, Passes

LEMMA FaultsAre ==
  ASSUME Types, NEW n \in Nat, Faults(n)
  PROVE  faults' \in Nat /\ (faults' = 0 => faults = 0 /\ n = 0) /\ (n = 0 => faults' = faults)
BY DEF Types, Faults

LEMMA NoFaultIs == ASSUME Types, NoFault PROVE faults' = faults /\ faults' \in Nat
BY FaultsAre DEF NoFault
LEMMA FaultIs == ASSUME Types, Fault PROVE faults' \in Nat /\ faults' # 0
BY FaultsAre DEF Fault

LEMMA SameEngines == ASSUME default' = default PROVE Src' = Src /\ Tgt' = Tgt
BY DEF Src, Tgt

LEMMA IdleFields == Idle \in Passes /\ Idle.at = "idle" /\ ~Idle.paused /\ Idle.epoch = 0
BY DEF Idle, Passes, HostSteps

-----------------------------------------------------------------------------
(* Steps of the Host that touch nothing else.                              *)

LEMMA HostGoesOn ==
  ASSUME IInv, UNCHANGED <<default, process, lease, durable, tracked, entry, archive, late>>,
         host' \in Passes, faults' \in Nat
  PROVE  Types' /\ Fenced' /\ Copied' /\ Src' = Src /\ Tgt' = Tgt
<1>1. Src' = Src /\ Tgt' = Tgt
  BY SameEngines
<1>2. Types'
  BY DEF IInv, Types
<1>3. Fenced'
  BY DEF IInv, Fenced, Entitled, Owns, DurableToken
<1>4. Copied'
  BY DEF IInv, Copied, Reaches, Strayed, Over
<1> QED BY <1>1, <1>2, <1>3, <1>4

LEMMA HostMoves ==
  ASSUME IInv, HostOnly, host' \in Passes, faults' \in Nat
  PROVE  /\ Types' /\ Fenced' /\ Copied'
         /\ Src' = Src /\ Tgt' = Tgt
         /\ UNCHANGED <<default, lease, durable, tracked, entry, archive, late>>
<1>1. UNCHANGED <<default, process, lease, durable, tracked, entry, archive, late>>
  BY DEF HostOnly, processVars, authorityVars, engineVars
<1> QED BY <1>1, HostGoesOn

\* A step after which the Host relies on nothing.
LEMMA HostRests ==
  ASSUME IInv, HostOnly, host' \in Passes, faults' \in Nat, faults' = 0 => faults = 0,
         host.at \in Tidy \/ faults' # 0, host'.at \in {"idle", "read", "reconcile", "retire", "dormant"}
  PROVE  IInv'
<1>1. /\ Types' /\ Fenced' /\ Copied' /\ Src' = Src /\ Tgt' = Tgt
      /\ UNCHANGED <<default, lease, durable, tracked, entry, archive, late>>
  BY HostMoves
<1>2. Relied'
  BY DEF Relied, Before, After
<1>3. Moving'
  BY DEF Moving, After
<1>4. Smooth'
  BY <1>1 DEF IInv, Smooth, Serves, Tidy, After
<1> QED BY <1>1, <1>2, <1>3, <1>4 DEF IInv

LEMMA ReadingKeeps ==
  ASSUME IInv, BeginPass \/ ReadFails \/ ReadAll
  PROVE  IInv'
<1> USE DEF IInv
<1>1. HostOnly /\ host.at \in {"idle", "read"}
  BY DEF BeginPass, ReadFails, ReadAll, At
<1>2. host' \in Passes /\ host'.at \in {"idle", "read", "reconcile"}
  <2>1. CASE BeginPass
    BY <2>1, IdleFields DEF BeginPass, Passes, HostSteps
  <2>2. CASE ReadFails
    BY <2>2, IdleFields DEF ReadFails, Abandon
  <2>3. CASE ReadAll
    BY <2>3, HostGoes DEF ReadAll, HostSteps
  <2> QED BY <2>1, <2>2, <2>3
<1>3. faults' \in Nat /\ (faults' = 0 => faults = 0)
  BY NoFaultIs, FaultIs DEF BeginPass, ReadFails, ReadAll
<1>4. host.at \in Tidy
  BY <1>1 DEF Tidy, HostSteps, After
<1> QED BY <1>1, <1>2, <1>3, <1>4, HostRests

LEMMA CheckKeeps ==
  ASSUME IInv, Check
  PROVE  IInv'
<1> USE DEF IInv
<1>1. HostOnly /\ host.at = "check"
  BY DEF Check, At
<1>t. host.at \in Tidy
  BY <1>1 DEF Tidy, HostSteps, After
<1>2. CASE Eligible /\ NoFault /\ host' = [host EXCEPT !.at = "prepare", !.epoch = durable.epoch]
  <2>1. host' \in Passes /\ host'.at = "prepare" /\ host'.epoch = durable.epoch /\ host'.paused = host.paused
    BY <1>2 DEF Types, Passes, HostSteps
  <2>2. faults' = faults /\ faults' \in Nat
    BY <1>2, NoFaultIs
  <2>3. lease = Src /\ durable.held /\ durable.engine = Src /\ durable.epoch >= 1
    BY <1>2 DEF Eligible, Fenced
  <2>4. /\ Types' /\ Fenced' /\ Copied' /\ Src' = Src /\ Tgt' = Tgt
        /\ UNCHANGED <<default, lease, durable, tracked, entry, archive, late>>
    BY <1>1, <2>1, <2>2, HostMoves
  <2>5. Relied'
    BY <2>1, <2>3, <2>4 DEF Relied, Before, After, Owns
  <2>6. Moving'
    BY <2>1 DEF Moving, After
  <2>7. Smooth'
    BY <1>1, <1>t, <2>1, <2>2, <2>4 DEF Smooth, Serves, Tidy, After
  <2> QED BY <2>4, <2>5, <2>6, <2>7
<1>3. CASE ((~Eligible /\ NoFault) \/ Fault) /\ Goto("retire")
  <2>1. host' \in Passes /\ host'.at = "retire"
    BY <1>3, HostGoes DEF HostSteps
  <2>2. faults' \in Nat /\ (faults' = 0 => faults = 0)
    BY <1>3, NoFaultIs, FaultIs
  <2> QED BY <1>1, <1>t, <2>1, <2>2, HostRests
<1> QED BY <1>2, <1>3 DEF Check

LEMMA NeedsDrainKeeps ==
  ASSUME IInv, At("prepare"), NeedsDrain
  PROVE  IInv'
<1> USE DEF IInv
<1>1. HostOnly /\ host.at = "prepare" /\ faults' = faults /\ faults' \in Nat
  BY NoFaultIs DEF NeedsDrain, At
<1>2. host' \in Passes /\ host'.at = "pause" /\ host'.epoch = host.epoch /\ host'.paused = host.paused
  BY HostGoes DEF NeedsDrain, HostSteps
<1>3. /\ Types' /\ Fenced' /\ Copied' /\ Src' = Src /\ Tgt' = Tgt
      /\ UNCHANGED <<default, lease, durable, tracked, entry, archive, late>>
  BY <1>1, <1>2, HostMoves
<1>4. Relied'
  BY <1>1, <1>2, <1>3 DEF Relied, Before, After, Owns
<1>5. Moving'
  BY <1>2 DEF Moving, After
<1>6. Smooth'
  BY <1>1, <1>2, <1>3 DEF Smooth, Serves, Tidy, HostSteps, After
<1> QED BY <1>3, <1>4, <1>5, <1>6

LEMMA RetireKeeps ==
  ASSUME IInv, Retire
  PROVE  IInv'
<1> USE DEF IInv
<1>1. HostOnly /\ host.at = "retire" /\ faults' = faults /\ faults' \in Nat
  BY NoFaultIs DEF Retire, At
<1>t. host.at \in Tidy
  BY <1>1 DEF Tidy, HostSteps, After
<1>2. CASE Abandon \/ Goto("dormant")
  <2>1. host' \in Passes /\ host'.at \in {"idle", "dormant"}
    BY <1>2, IdleFields, HostGoes DEF Abandon, HostSteps
  <2> QED BY <1>1, <1>t, <2>1, HostRests
<1>3. CASE lease # Src /\ Goto("drain")
  <2>1. host' \in Passes /\ host'.at = "drain"
    BY <1>3, HostGoes DEF HostSteps
  <2>2. /\ Types' /\ Fenced' /\ Copied' /\ Src' = Src /\ Tgt' = Tgt
        /\ UNCHANGED <<default, lease, durable, tracked, entry, archive, late>>
    BY <1>1, <2>1, HostMoves
  <2>3. Relied'
    BY <1>3, <2>1, <2>2 DEF Relied, Before, After
  <2>4. Moving'
    BY <2>1 DEF Moving, After
  <2>5. Smooth'
    BY <1>1, <1>t, <2>1, <2>2 DEF Smooth, Serves, Tidy, After
  <2> QED BY <2>2, <2>3, <2>4, <2>5
<1> QED BY <1>2, <1>3 DEF Retire

LEMMA ProveKeeps ==
  ASSUME IInv, Prove
  PROVE  IInv'
<1> USE DEF IInv
<1>1. HostOnly /\ host.at \in {"count", "recheck"} /\ faults' \in Nat /\ (faults' = 0 => faults = 0)
  BY NoFaultIs, FaultIs DEF Prove, At
<1>t. host.at \in Tidy
  BY <1>1 DEF Tidy, HostSteps, After
<1>2. CASE Abandon
  <2>1. host' \in Passes /\ host'.at = "idle"
    BY <1>2, IdleFields DEF Abandon
  <2> QED BY <1>1, <1>t, <2>1, HostRests
<1>3. CASE Goto("recheck") \/ (Goto("stop") /\ Detachable(Src))
  <2>1. host' \in Passes /\ host'.at \in {"recheck", "stop"} /\ (host'.at = "stop" => ~Reported(Src))
    BY <1>3, HostGoes DEF HostSteps, Detachable
  <2>2. /\ Types' /\ Fenced' /\ Copied' /\ Src' = Src /\ Tgt' = Tgt
        /\ UNCHANGED <<default, lease, durable, tracked, entry, archive, late>>
    BY <1>1, <2>1, HostMoves
  <2>3. Relied'
    BY <1>1, <2>1, <2>2 DEF Relied, Before, After, Reported
  <2>4. Moving'
    BY <2>1 DEF Moving, After
  <2>5. Smooth'
    BY <1>1, <1>t, <2>1, <2>2 DEF Smooth, Serves, Tidy, After
  <2> QED BY <2>2, <2>3, <2>4, <2>5
<1> QED BY <1>2, <1>3 DEF Prove

-----------------------------------------------------------------------------
(* Workers.                                                                *)

\* A worker changes its state, and at most the Host goes on.
LEMMA WorkerAndHostMove ==
  ASSUME IInv, NEW e \in Engines, NEW at \in EntryStates, SetEntry(e, at), entry[e].at # "none",
         UNCHANGED <<default, process, lease, durable, tracked, archive, late>>,
         host' \in Passes, faults' \in Nat
  PROVE  /\ Types' /\ Fenced' /\ Src' = Src /\ Tgt' = Tgt
         /\ entry'[e].at = at /\ entry'[e].epoch = entry[e].epoch
         /\ entry'[e].view = entry[e].view /\ \A x \in Engines \ {e} : entry'[x] = entry[x]
<1>1. /\ entry' \in [Engines -> Marks] /\ entry'[e].at = at /\ entry'[e].epoch = entry[e].epoch
      /\ entry'[e].view = entry[e].view /\ \A x \in Engines \ {e} : entry'[x] = entry[x]
  BY EntryIsSet DEF IInv
<1>2. Src' = Src /\ Tgt' = Tgt
  BY SameEngines
<1>3. Types'
  BY <1>1 DEF IInv, Types
<1>4. durable.epoch # 0
  BY NoEntryFields DEF IInv, Fenced
<1>5. Fenced'
  BY <1>1, <1>4 DEF IInv, Fenced, Entitled, Owns, DurableToken
<1> QED BY <1>1, <1>2, <1>3, <1>5

LEMMA WorkerMoves ==
  ASSUME IInv, NEW e \in Engines, NEW at \in EntryStates, SetEntry(e, at), entry[e].at # "none",
         UNCHANGED <<default, process, lease, durable, tracked, archive, late, host, faults>>
  PROVE  /\ Types' /\ Fenced' /\ Src' = Src /\ Tgt' = Tgt
         /\ entry'[e].at = at /\ entry'[e].epoch = entry[e].epoch
         /\ entry'[e].view = entry[e].view /\ \A x \in Engines \ {e} : entry'[x] = entry[x]
<1>1. host' \in Passes /\ faults' \in Nat
  BY DEF IInv, Types
<1> QED BY <1>1, WorkerAndHostMove

LEMMA EntryStateNames == {"none", "claimed", "running", "asked", "parked", "fenced", "ended"} = EntryStates
BY DEF EntryStates

LEMMA StartWorkerKeeps ==
  ASSUME IInv, NEW e \in Engines, StartWorker(e)
  PROVE  IInv'
<1> USE DEF IInv
<1>1. /\ entry[e].at = "claimed" /\ SetEntry(e, "running")
      /\ UNCHANGED <<default, process, lease, durable, tracked, archive, late, host, faults>>
  BY DEF StartWorker, Others, processVars, authorityVars
<1>2. /\ Types' /\ Fenced' /\ Src' = Src /\ Tgt' = Tgt
      /\ entry'[e].at = "running" /\ entry'[e].epoch = entry[e].epoch
      /\ entry'[e].view = entry[e].view /\ \A x \in Engines \ {e} : entry'[x] = entry[x]
  BY <1>1, WorkerMoves, EntryStateNames
<1>3. Src \in Engines /\ Src # default /\ Tgt \in Engines /\ (durable.held => durable.engine \in Engines)
  BY TwoEngines DEF Types, Tgt, Fenced
<1>4. Copied'
  <2>1. \A x \in Engines : /\ entry'[x].view = entry[x].view /\ (entry'[x].at \in Copies => entry[x].at \in Copies)
                           /\ entry[x].at \in {"running", "fenced"} => entry'[x].at \in {"running", "fenced"}
    BY <1>1, <1>2 DEF Copies
  <2>2. \A o \in Engines : Strayed(o) => Strayed(o)'
    BY <1>1, <2>1 DEF Strayed, Over
  <2> QED BY <1>1, <1>3, <2>1, <2>2 DEF Copied, Reaches
<1>5. Relied'
  <2>1. host.at = "stop" => e # Src
    BY <1>1 DEF Relied, Reported
  <2> QED BY <1>1, <1>2, <1>3, <2>1 DEF Relied, Before, After, Owns, Entitled, DurableToken, Reported
<1>6. Moving'
  BY <1>1, <1>2, <1>3 DEF Moving, After, Copies, Reaches, Strayed, Over
<1>7. Smooth'
  BY <1>1, <1>2, <1>3 DEF Smooth, Serves, Settled, SrcParked, Owns, DurableToken
<1> QED BY <1>2, <1>4, <1>5, <1>6, <1>7

LEMMA ParkKeeps ==
  ASSUME IInv, NEW e \in Engines, Park(e)
  PROVE  IInv'
<1> USE DEF IInv
<1>1. /\ entry[e].at = "asked" /\ SetEntry(e, "parked")
      /\ UNCHANGED <<default, process, lease, durable, tracked, archive, late, host, faults>>
  BY DEF Park, Others, processVars, authorityVars
<1>2. /\ Types' /\ Fenced' /\ Src' = Src /\ Tgt' = Tgt
      /\ entry'[e].at = "parked" /\ entry'[e].epoch = entry[e].epoch
      /\ entry'[e].view = entry[e].view /\ \A x \in Engines \ {e} : entry'[x] = entry[x]
  BY <1>1, WorkerMoves, EntryStateNames
<1>3. Src \in Engines /\ Src # default /\ Tgt \in Engines /\ (durable.held => durable.engine \in Engines)
  BY TwoEngines DEF Types, Tgt, Fenced
<1>4. Copied'
  <2>1. \A x \in Engines : /\ entry'[x].view = entry[x].view /\ (entry'[x].at \in Copies => entry[x].at \in Copies)
                           /\ entry[x].at \in {"running", "fenced"} => entry'[x].at \in {"running", "fenced"}
    BY <1>1, <1>2 DEF Copies
  <2>2. \A o \in Engines : Strayed(o) => Strayed(o)'
    BY <1>1, <2>1 DEF Strayed, Over
  <2> QED BY <1>1, <1>3, <2>1, <2>2 DEF Copied, Reaches
<1>5. Relied'
  BY <1>1, <1>2, <1>3 DEF Relied, Before, After, Owns, Entitled, DurableToken, Reported
<1>6. Moving'
  BY <1>1, <1>2, <1>3 DEF Moving, After, Copies, Reaches, Strayed, Over
<1>7. Smooth'
  BY <1>1, <1>2, <1>3 DEF Smooth, Serves, Settled, SrcParked, Owns, DurableToken
<1> QED BY <1>2, <1>4, <1>5, <1>6, <1>7

\* A worker whose commit is refused.
LEMMA WriteIsFenced ==
  ASSUME IInv, NEW e \in Engines, entry[e].at \in {"running", "asked"}, ~Owns(e, entry[e].epoch), SetEntry(e, "fenced"),
         UNCHANGED <<default, process, lease, durable, tracked, archive, late, host, faults>>
  PROVE  IInv'
<1> USE DEF IInv
<1>2. /\ Types' /\ Fenced' /\ Src' = Src /\ Tgt' = Tgt
      /\ entry'[e].at = "fenced" /\ entry'[e].epoch = entry[e].epoch
      /\ entry'[e].view = entry[e].view /\ \A x \in Engines \ {e} : entry'[x] = entry[x]
  BY WorkerMoves, EntryStateNames
<1>3. Src \in Engines /\ Src # default /\ Tgt \in Engines /\ (durable.held => durable.engine \in Engines)
  BY TwoEngines DEF Types, Tgt, Fenced
<1>4. Copied'
  BY <1>2, <1>3 DEF Copied, Copies, Reaches, Strayed, Over
<1>5. Relied'
  BY <1>2, <1>3 DEF Relied, Before, After, Owns, Entitled, DurableToken, Reported
<1>6. Moving'
  BY <1>2, <1>3 DEF Moving, Relied, After, Owns, Copies, Reaches, Strayed, Over
<1>7. Smooth'
  BY <1>2, <1>3 DEF Smooth, Serves, Settled, SrcParked, Owns, DurableToken
<1> QED BY <1>2, <1>4, <1>5, <1>6, <1>7

LEMMA WriteKeeps ==
  ASSUME IInv, NEW e \in Engines, NEW what, NEW at, Write(e, what, at),
         (what = Segment /\ at = entry[e].at) \/ (what = End /\ at = "ended")
  PROVE  IInv'
<1> USE DEF IInv
<1>1. /\ entry[e].at \in {"running", "asked"}
      /\ UNCHANGED <<default, process, lease, durable, tracked, late, host, faults>>
  BY DEF Write, Others, processVars, authorityVars
<1>2. CASE ~Holds(e)
  <2>1. SetEntry(e, "fenced") /\ UNCHANGED archive /\ ~Owns(e, entry[e].epoch)
    BY <1>2, Owned DEF Write, Holds
  <2> QED BY <1>1, <2>1, WriteIsFenced
<1>3. CASE Holds(e)
  <2>1. PICK x \in Written : x = [what |-> what, epoch |-> entry[e].epoch]
    BY EntryFields DEF Types, Written
  <2>v. entry[e].view \in Seq(Written)
    <3>1. entry[e] \in Marks
      BY DEF Types
    <3> QED BY <3>1, EntryFields
  <2>2. PICK root \in Seq(Written) : root = Append(entry[e].view, x)
    <3>1. Append(entry[e].view, x) \in Seq(Written)
      BY <2>v
    <3> QED BY <3>1
  <2>3. /\ Len(root) = Len(entry[e].view) + 1 /\ root[Len(root)] = x /\ root # <<>>
        /\ \A i \in 1 .. Len(entry[e].view) : root[i] = entry[e].view[i]
        /\ Len(entry[e].view) \in Nat
    BY <2>2, <2>v
  <2>4. archive' = root /\ entry' = [entry EXCEPT ![e].view = root, ![e].at = at]
    BY <1>3, <2>1, <2>2 DEF Write
  <2>5. /\ entry' \in [Engines -> Marks] /\ entry'[e].at = at /\ entry'[e].epoch = entry[e].epoch
        /\ entry'[e].view = root /\ \A y \in Engines \ {e} : entry'[y] = entry[y]
    <3>1. entry[e] \in Marks /\ at \in EntryStates
      BY EntryFields DEF Types, EntryStates
    <3>2. PICK t \in Marks : t = [entry[e] EXCEPT !.view = root, !.at = at]
      BY <3>1 DEF Marks
    <3>3. t.at = at /\ t.view = root /\ t.epoch = entry[e].epoch
      BY <3>1, <3>2 DEF Marks
    <3>4. entry' = [entry EXCEPT ![e] = t]
      BY <2>4, <3>2 DEF Types
    <3> QED BY <3>3, <3>4 DEF Types
  <2>6. Owns(e, entry[e].epoch) /\ durable.epoch >= 1
    BY <1>3, Owned DEF Holds, Fenced, Owns
  <2>7. Src' = Src /\ Tgt' = Tgt /\ Src \in Engines /\ Src # default /\ Tgt \in Engines /\ Tgt = default
    BY <1>1, SameEngines, TwoEngines DEF Types, Tgt
  <2>8. x.epoch = durable.epoch /\ x.what = what
    BY <2>1, <2>6 DEF Owns
  <2>9. Types'
    BY <1>1, <2>4, <2>5 DEF Types
  <2>10. Fenced'
    BY <1>1, <2>5, <2>6 DEF Fenced, Entitled, Owns, DurableToken
  <2>11. Copied'
    BY <1>1, <2>4, <2>5, <2>6 DEF Copied, Owns
  <2>12. Relied'
    BY <1>1, <2>5, <2>7 DEF Relied, Before, After, Owns, Entitled, DurableToken, Reported
  <2>13. what = End => Over'
    BY <2>3, <2>4, <2>8 DEF Over, Last
  <2>14. Moving'
    <3>1. ASSUME host.at = "transfer", durable.held
          PROVE  /\ entry'[Tgt].at = "none"
                 /\ entry'[Src].at \in Copies => entry'[Src].view = archive'
      <4>1. e = Src
        BY <2>6, <3>1 DEF Relied, Before, Owns
      <4> QED BY <2>4, <2>5, <2>7, <3>1, <4>1 DEF Moving
    <3>2. ASSUME host.at \in After, durable.held
          PROVE  /\ entry'[Tgt].at \in {"none", "running", "ended"}
                 /\ entry'[Tgt].at = "running" => entry'[Tgt].view = archive' /\ entry'[Tgt].epoch = host.epoch + 1
                 /\ entry'[Src].at \in Copies => /\ Reaches(entry[Src].view, durable.epoch)'
                                                 /\ Strayed(Tgt)'
      <4>1. e = Tgt
        BY <2>6, <3>2 DEF Relied, Owns
      <4>2. entry[Tgt].at = "running" /\ entry[Tgt].view = archive /\ entry[Tgt].epoch = host.epoch + 1
        BY <1>1, <3>2, <4>1 DEF Moving
      <4>3. entry'[Src] = entry[Src] /\ entry[Src].view \in Seq(Written)
        BY <2>5, <2>7, <4>1, EntryFields DEF Types
      <4>4. ASSUME entry[Src].at \in Copies PROVE Reaches(entry[Src].view, durable.epoch)'
        <5>1. Reaches(entry[Src].view, durable.epoch)
          BY <3>2, <4>4 DEF Moving
        <5>2. /\ Len(archive') = Len(archive) + 1 /\ archive'[Len(archive) + 1].epoch = durable.epoch
              /\ \A i \in 1 .. Len(archive) : archive'[i] = archive[i]
              /\ Len(archive) \in Nat
          BY <2>3, <2>4, <2>8, <4>1, <4>2
        <5>3. PICK v \in Seq(Written) : v = entry[Src].view
          BY <4>3
        <5>4. (entry[Src].view)' = v /\ Len(v) \in Nat /\ durable' = durable
          BY <1>1, <2>7, <4>3, <5>3
        <5>5. /\ Len(v) <= Len(archive) /\ \A i \in 1 .. Len(v) : archive[i] = v[i]
              /\ \A i \in Len(v) + 1 .. Len(archive) : archive[i].epoch = durable.epoch
          BY <5>1, <5>3 DEF Reaches
        <5>6. Len(v) <= Len(archive')
          BY <5>2, <5>4, <5>5
        <5>7. \A i \in 1 .. Len(v) : archive'[i] = v[i]
          <6>1. \A i \in 1 .. Len(v) : i \in 1 .. Len(archive)
            BY <5>2, <5>4, <5>5
          <6> QED BY <5>2, <5>5, <6>1
        <5>8. \A i \in Len(v) + 1 .. Len(archive') : archive'[i].epoch = durable.epoch
          <6>1. \A i \in Len(v) + 1 .. Len(archive') :
                  i = Len(archive) + 1 \/ (i \in Len(v) + 1 .. Len(archive) /\ i \in 1 .. Len(archive))
            BY <5>2, <5>4, <5>5
          <6> QED BY <5>2, <5>5, <6>1
        <5> QED BY <5>4, <5>6, <5>7, <5>8 DEF Reaches
      <4>5. Strayed(Tgt)' /\ entry'[Tgt].at \in {"running", "ended"}
        BY <2>5, <2>7, <2>13, <4>1, <4>2 DEF Strayed
      <4> QED BY <2>4, <2>5, <4>1, <4>2, <4>3, <4>4, <4>5
    <3> QED BY <1>1, <2>7, <3>1, <3>2 DEF Moving
  <2>15. Smooth'
    BY <1>1, <2>5, <2>6, <2>7 DEF Smooth, Serves, Settled, SrcParked, Owns, DurableToken, Relied, Before, After, Tidy, Moving
  <2> QED BY <2>9, <2>10, <2>11, <2>12, <2>14, <2>15
<1> QED BY <1>2, <1>3

LEMMA ReleaseKeeps ==
  ASSUME IInv, NEW e \in Engines, Release(e)
  PROVE  IInv'
<1> USE DEF IInv
<1>1. /\ entry[e].at \in {"claimed", "ended"} /\ Holds(e)
      /\ durable' = [durable EXCEPT !.held = FALSE] /\ tracked' = NoToken /\ lease' = None
      /\ entry' = [entry EXCEPT ![e] = NoEntry]
      /\ UNCHANGED <<default, process, archive, late, host, faults>>
  BY DEF Release, Others, processVars
<1>2. /\ durable' \in [engine : Engines \cup {None}, epoch : Nat, held : BOOLEAN]
      /\ ~durable'.held /\ durable'.epoch = durable.epoch
  BY <1>1 DEF Types
<1>3. /\ entry' \in [Engines -> Marks] /\ entry'[e] = NoEntry
      /\ \A x \in Engines \ {e} : entry'[x] = entry[x]
  BY <1>1, NoEntryFields DEF Types
<1>4. Src' = Src /\ Tgt' = Tgt /\ Src \in Engines /\ None \notin Engines
  BY <1>1, SameEngines, TwoEngines DEF Types
<1>5. Types'
  BY <1>1, <1>2, <1>3 DEF Types, NoToken, Token
<1>6. Fenced'
  BY <1>1, <1>2, <1>3, NoEntryFields DEF Fenced, Entitled, Owns, Types
<1>7. Copied' /\ Moving' /\ Smooth'
  BY <1>1, <1>2 DEF Copied, Moving, Smooth
<1>8. Relied'
  BY <1>1, <1>2, <1>3, <1>4, NoEntryFields DEF Relied, Entitled, Owns, Reported
<1> QED BY <1>5, <1>6, <1>7, <1>8

LEMMA ClaimKeeps ==
  ASSUME IInv, NEW e \in Engines, Claim(e)
  PROVE  IInv'
<1> USE DEF IInv
<1>1. /\ e = default /\ durable.epoch = 0
      /\ lease' = e /\ durable' = Owner(e, 1) /\ tracked' = Token(e, 1)
      /\ \/ entry' = [entry EXCEPT ![e].at = "claimed", ![e].epoch = 1] /\ UNCHANGED faults
         \/ faults' = faults + 1 /\ UNCHANGED entry
      /\ UNCHANGED <<default, process, archive, late, host>>
  BY DEF Claim, processVars
<1>2. ~durable.held /\ archive = <<>> /\ \A x \in Engines : entry[x] = NoEntry
  BY <1>1 DEF Fenced, Types
<1>3. durable'.engine = e /\ durable'.epoch = 1 /\ durable'.held /\ tracked' = DurableToken'
  BY <1>1 DEF Owner, Token, DurableToken
<1>4. /\ entry' \in [Engines -> Marks] /\ \A x \in Engines \ {e} : entry'[x] = NoEntry
      /\ entry'[e] = NoEntry \/ (/\ entry'[e].at = "claimed" /\ entry'[e].epoch = 1 /\ entry'[e].view = <<>>
                                 /\ faults' = faults)
      /\ faults' = 0 => entry'[e].at = "claimed" /\ faults = 0
  <2>1. CASE entry' = [entry EXCEPT ![e].at = "claimed", ![e].epoch = 1] /\ UNCHANGED faults
    <3>1. PICK t \in Marks : t = [NoEntry EXCEPT !.at = "claimed", !.epoch = 1]
      BY NoEntryFields DEF Marks, EntryStates
    <3>2. t.at = "claimed" /\ t.epoch = 1 /\ t.view = <<>>
      BY <3>1, NoEntryFields DEF Marks
    <3>3. entry' = [entry EXCEPT ![e] = t]
      BY <1>2, <2>1, <3>1 DEF Types
    <3>4. entry' \in [Engines -> Marks] /\ entry'[e] = t /\ \A x \in Engines \ {e} : entry'[x] = entry[x]
      BY <3>3 DEF Types
    <3> QED BY <1>2, <2>1, <3>2, <3>4
  <2>2. CASE faults' = faults + 1 /\ UNCHANGED entry
    BY <1>2, <2>2 DEF Types
  <2> QED BY <1>1, <2>1, <2>2
<1>5. Src' = Src /\ Tgt' = Tgt /\ Src \in Engines /\ None \notin Engines /\ Src # default
  BY <1>1, SameEngines, TwoEngines DEF Types
<1>6. Types'
  <2>1. faults' \in Nat
    BY <1>1 DEF Types
  <2>2. durable' \in [engine : Engines \cup {None}, epoch : Nat, held : BOOLEAN]
    BY <1>1 DEF Owner
  <2>3. tracked' \in [engine : Engines \cup {None}, epoch : Nat]
    BY <1>1 DEF Token
  <2> QED BY <1>1, <1>4, <2>1, <2>2, <2>3 DEF Types
<1>7. Fenced'
  BY <1>1, <1>3, <1>4, NoEntryFields DEF Fenced, Entitled, Owns, Types, Commands
<1>8. Copied'
  BY <1>1, <1>2, <1>3, <1>4, NoEntryFields DEF Copied, Copies
<1>9. host.at \notin Before \cup After \cup {"drop", "undo", "resume"}
  BY <1>1 DEF Relied
<1>10. Relied' /\ Moving'
  BY <1>1, <1>3, <1>4, <1>5, <1>9, NoEntryFields DEF Relied, Moving, Before, After, Reported
<1>11. Smooth'
  <2>1. SUFFICES ASSUME faults' = 0 PROVE Smooth'
    BY DEF Smooth
  <2>2. faults = 0 /\ late = {} /\ host.at \in Tidy
    BY <1>4, <1>9, <2>1 DEF Smooth, Before, After, Tidy, Types, Passes
  <2>3. Serves(Settled)'
    BY <1>3, <1>4, <2>1, NoEntryFields DEF Serves, Settled
  <2>4. host.at \notin {"prepare", "pause", "parking", "discard", "drained", "transfer", "drop", "undo", "resume", "activate", "rollback"}
    BY <1>9 DEF Before, After
  <2> QED BY <1>1, <2>2, <2>3, <2>4 DEF Smooth, After
<1> QED BY <1>6, <1>7, <1>8, <1>10, <1>11

-----------------------------------------------------------------------------
(* Calls of the Host and their handlers.                                   *)

LEMMA MessageIs ==
  ASSUME NEW op \in {"activate", "resume", "complete", "discard"}, NEW e \in Engines,
         NEW n \in Nat, NEW from \in Nat
  PROVE  /\ Msg(op, e, n, from) \in Commands
         /\ Msg(op, e, n, from).op = op /\ Msg(op, e, n, from).engine = e
         /\ Msg(op, e, n, from).epoch = n /\ Msg(op, e, n, from).from = from
BY DEF Msg, Commands

\* What a handler leaves of the worker of its Engine.
Activated(m) ==
  /\ m.op = "activate" /\ CanActivate(m.engine, m.epoch)
  /\ entry'[m.engine] = [at |-> "running", epoch |-> m.epoch, view |-> archive]
Resumed(m) ==
  /\ m.op = "resume" /\ CanResume(m.engine, m.epoch, m.from)
  /\ entry'[m.engine].at = "running" /\ entry'[m.engine].epoch = m.epoch
  /\ entry'[m.engine].view = entry[m.engine].view
Completed(m) ==
  m.op = "complete" /\ CanComplete(m.engine, m.epoch) /\ entry'[m.engine] = NoEntry
Untouched(m) ==
  /\ entry'[m.engine] = entry[m.engine]
  /\ m.op \in {"activate", "resume", "complete"} => ~Accepts(m)

LEMMA HandleIs ==
  ASSUME Types, NEW m \in Commands, Handle(m)
  PROVE  /\ entry' \in [Engines -> Marks]
         /\ \A x \in Engines \ {m.engine} : entry'[x] = entry[x]
         /\ Activated(m) \/ Resumed(m) \/ Completed(m) \/ Untouched(m)
<1>1. m.engine \in Engines /\ m.epoch \in Nat /\ entry[m.engine] \in Marks /\ entry \in [Engines -> Marks]
  BY DEF Types, Commands
<1>2. CASE m.op = "activate" /\ CanActivate(m.engine, m.epoch)
           /\ entry' = [entry EXCEPT ![m.engine] = [at |-> "running", epoch |-> m.epoch, view |-> archive]]
  <2>1. PICK t \in Marks : t = [at |-> "running", epoch |-> m.epoch, view |-> archive]
    BY <1>1 DEF Marks, EntryStates, Types
  <2>2. entry' = [entry EXCEPT ![m.engine] = t]
    BY <1>2, <2>1
  <2>3. entry' \in [Engines -> Marks] /\ entry'[m.engine] = t /\ \A x \in Engines \ {m.engine} : entry'[x] = entry[x]
    BY <1>1, <2>2
  <2> QED BY <1>2, <2>1, <2>3 DEF Activated
<1>3. CASE m.op = "resume" /\ CanResume(m.engine, m.epoch, m.from)
           /\ entry' = [entry EXCEPT ![m.engine].at = "running", ![m.engine].epoch = m.epoch]
  <2>1. PICK t \in Marks : t = [entry[m.engine] EXCEPT !.at = "running", !.epoch = m.epoch]
    BY <1>1 DEF Marks, EntryStates
  <2>2. t.at = "running" /\ t.epoch = m.epoch /\ t.view = entry[m.engine].view
    BY <1>1, <2>1 DEF Marks
  <2>3. entry' = [entry EXCEPT ![m.engine] = t]
    BY <1>1, <1>3, <2>1
  <2>4. entry' \in [Engines -> Marks] /\ entry'[m.engine] = t /\ \A x \in Engines \ {m.engine} : entry'[x] = entry[x]
    BY <1>1, <2>3
  <2> QED BY <1>3, <2>2, <2>4 DEF Resumed
<1>4. CASE m.op = "complete" /\ CanComplete(m.engine, m.epoch) /\ entry' = [entry EXCEPT ![m.engine] = NoEntry]
  BY <1>1, <1>4, NoEntryFields DEF Completed
<1>5. CASE UNCHANGED entry /\ (m.op \in {"activate", "resume", "complete"} => ~Accepts(m))
  BY <1>1, <1>5 DEF Untouched
<1>6. CASE Accepts(m) /\ Carry(m)
  BY <1>2, <1>3, <1>4, <1>5, <1>6 DEF Accepts, Carry
<1>7. CASE ~Accepts(m) /\ Refuse(m)
  BY <1>5, <1>7 DEF Refuse
<1> QED BY <1>6, <1>7 DEF Handle

\* Only the owner's Engine gets a worker, and its copy is the root.
LEMMA HandledKeeps ==
  ASSUME IInv, NEW m \in Commands, Handle(m),
         Starting(m) => m.epoch <= durable.epoch /\ Entitled(m.engine, m.epoch),
         UNCHANGED <<default, process, lease, durable, tracked, archive>>,
         host' \in Passes, faults' \in Nat, late' \subseteq late
  PROVE  Types' /\ Fenced' /\ Copied' /\ Src' = Src /\ Tgt' = Tgt
<1> USE DEF IInv
<1>1. /\ entry' \in [Engines -> Marks] /\ m.engine \in Engines /\ m.epoch \in Nat
      /\ \A x \in Engines \ {m.engine} : entry'[x] = entry[x]
      /\ Activated(m) \/ Resumed(m) \/ Completed(m) \/ Untouched(m)
  BY HandleIs DEF Commands
<1>2. Src' = Src /\ Tgt' = Tgt
  BY SameEngines
<1>3. Types'
  BY <1>1 DEF Types
<1>4. Activated(m) \/ Resumed(m) => Owns(m.engine, m.epoch) /\ Starting(m)
  BY Owned DEF Activated, Resumed, CanActivate, CanResume, Starting
<1>5. durable' = durable /\ durable.epoch \in Nat
  BY DEF Types
<1>6. /\ entry'[m.engine].epoch <= durable.epoch /\ Entitled(m.engine, entry'[m.engine].epoch)
      /\ durable.epoch = 0 => entry'[m.engine] = NoEntry
  <2>1. CASE Activated(m) \/ Resumed(m)
    <3>1. entry'[m.engine].epoch = m.epoch
      BY <2>1 DEF Activated, Resumed
    <3> QED BY <1>4, <1>5, <2>1, <3>1 DEF Fenced, Owns
  <2>2. CASE Completed(m)
    BY <1>5, <2>2, NoEntryFields DEF Completed, Fenced, Entitled, Owns
  <2>3. CASE Untouched(m)
    BY <1>1, <2>3 DEF Untouched, Fenced
  <2> QED BY <1>1, <2>1, <2>2, <2>3
<1>7. Fenced'
  BY <1>1, <1>5, <1>6 DEF Fenced, Entitled, Owns, DurableToken
<1>8. Copied'
  <2>1. SUFFICES ASSUME durable.held, entry'[durable.engine].at \in Copies
                 PROVE  \/ entry'[durable.engine].view = archive
                        \/ /\ Reaches(entry[durable.engine].view, durable.epoch - 1)'
                           /\ \A o \in Engines \ {durable.engine} : Strayed(o)'
    BY <1>5 DEF Copied
  <2>2. durable.engine \in Engines
    BY <2>1 DEF Fenced
  <2>3. CASE Activated(m)
    BY <1>4, <2>3 DEF Activated, Owns
  <2>4. CASE ~Activated(m)
    <3>1. entry[durable.engine].at \in Copies /\ entry'[durable.engine].view = entry[durable.engine].view
      BY <1>1, <1>4, <2>1, <2>2, <2>4, NoEntryFields DEF Resumed, Completed, Untouched, CanResume, Copies
    <3>2. \A o \in Engines \ {durable.engine} : Strayed(o) => Strayed(o)'
      <4>1. TAKE o \in Engines \ {durable.engine}
      <4>2. entry'[o] = entry[o] \/ entry[o].at = "parked"
        BY <1>1, <1>4, <2>4 DEF Resumed, Completed, Untouched, CanComplete, Owns
      <4> QED BY <4>2 DEF Strayed, Over
    <3>3. Reaches(entry[durable.engine].view, durable.epoch - 1) => Reaches(entry[durable.engine].view, durable.epoch - 1)'
      BY <1>5, <3>1 DEF Reaches
    <3> QED BY <2>1, <3>1, <3>2, <3>3 DEF Copied
  <2> QED BY <2>3, <2>4
<1> QED BY <1>2, <1>3, <1>7, <1>8

\* A handler on the way that nobody waits for any more.
LEMMA LateCallKeeps ==
  ASSUME IInv, NEW m \in late, LateCall(m)
  PROVE  IInv'
<1> USE DEF IInv
<1>1. /\ Handle(m) /\ m \in Commands /\ late' \subseteq late
      /\ UNCHANGED <<default, process, lease, durable, tracked, archive, host, faults>>
  BY DEF LateCall, processVars, authorityVars, Types
<1>2. Starting(m) => m.epoch <= durable.epoch /\ Entitled(m.engine, m.epoch)
  BY DEF Fenced
<1>3. Types' /\ Fenced' /\ Copied' /\ Src' = Src /\ Tgt' = Tgt
  <2>1. host' \in Passes /\ faults' \in Nat
    BY <1>1 DEF Types
  <2> QED BY <1>1, <1>2, <2>1, HandledKeeps
<1>4. /\ entry' \in [Engines -> Marks] /\ m.engine \in Engines /\ m.epoch \in Nat
      /\ \A x \in Engines \ {m.engine} : entry'[x] = entry[x]
      /\ Activated(m) \/ Resumed(m) \/ Completed(m) \/ Untouched(m)
  BY <1>1, HandleIs DEF Commands
<1>5. Activated(m) \/ Resumed(m) => Owns(m.engine, m.epoch) /\ lease = m.engine
  BY <1>2, Owned DEF Activated, Resumed, CanActivate, CanResume, Starting, Entitled
<1>6. Src \in Engines /\ Src # default /\ Tgt = default /\ Engines = {Tgt, Src}
  BY TwoEngines DEF Types, Tgt
<1>7. Relied'
  <2>1. host.at \in {"count", "recheck", "stop"} => entry'[Src].at # "claimed"
    BY <1>4, <1>6, NoEntryFields DEF Relied, Activated, Resumed, Completed, Untouched
  <2>2. host.at = "stop" => ~Reported(Src)'
    BY <1>3, <1>4, <1>5, <1>6, NoEntryFields DEF Relied, Activated, Resumed, Completed, Untouched, Reported
  <2> QED BY <1>1, <1>3, <2>1, <2>2 DEF Relied, Before, After, Owns, Entitled, DurableToken
<1>8. Moving'
  <2>1. ASSUME host.at = "transfer", durable.held
        PROVE  /\ entry'[Tgt].at = "none"
               /\ entry'[Src].at \in Copies => entry'[Src].view = archive
    <3>1. durable.engine = Src
      BY <2>1 DEF Relied, Before, Owns
    <3>2. entry'[Tgt].at = "none"
      BY <1>4, <1>5, <1>6, <2>1, <3>1, NoEntryFields DEF Moving, Resumed, Completed, Untouched, Owns
    <3>3. entry'[Src].at \in Copies => entry'[Src].view = archive
      BY <1>4, <1>6, <2>1, NoEntryFields DEF Moving, Activated, Resumed, Completed, Untouched, CanResume, Copies
    <3> QED BY <3>2, <3>3
  <2>2. ASSUME host.at \in After, durable.held
        PROVE  /\ entry'[Tgt].at \in {"none", "running", "ended"}
               /\ entry'[Tgt].at = "running" => entry'[Tgt].view = archive /\ entry'[Tgt].epoch = host.epoch + 1
               /\ entry'[Src].at \in Copies => /\ entry'[Src] = entry[Src]
                                               /\ Strayed(Tgt) => Strayed(Tgt)'
    <3>1. Owns(Tgt, host.epoch + 1) /\ durable.engine = Tgt
      BY <2>2 DEF Relied, Owns
    <3>2. entry'[Tgt] = entry[Tgt] \/ (Activated(m) /\ m.engine = Tgt)
      BY <1>4, <1>6, <2>2 DEF Moving, Resumed, Completed, Untouched, CanResume, CanComplete
    <3>3. entry'[Src] = entry[Src] \/ entry'[Src].at = "none"
      BY <1>4, <1>5, <1>6, <3>1, NoEntryFields DEF Completed, Untouched, Owns
    <3>4. Activated(m) => m.epoch = host.epoch + 1
      BY <1>5, <3>1 DEF Owns
    <3>5. CASE entry'[Tgt] = entry[Tgt]
      BY <1>1, <1>3, <2>2, <3>3, <3>5 DEF Moving, Strayed, Over, Copies
    <3>6. CASE Activated(m) /\ m.engine = Tgt
      BY <1>1, <1>3, <3>3, <3>4, <3>6 DEF Activated, Strayed, Copies
    <3> QED BY <3>2, <3>5, <3>6
  <2>3. host.at \in After /\ durable.held /\ entry'[Src].at \in Copies =>
          /\ Reaches(entry[Src].view, durable.epoch)'
          /\ entry'[Src].view = archive \/ Strayed(Tgt)'
    BY <1>1, <1>3, <2>2 DEF Moving, Reaches
  <2> QED BY <1>1, <1>3, <2>1, <2>2, <2>3 DEF Moving
<1>9. Smooth'
  BY <1>1 DEF Smooth
<1> QED BY <1>3, <1>7, <1>8, <1>9

LEMMA CallIs ==
  ASSUME Types, NEW m \in Commands, NEW success \in HostSteps, NEW failure \in HostSteps,
         Call(m, success, failure)
  PROVE  /\ host' \in Passes /\ host'.at \in {success, failure}
         /\ host'.epoch = host.epoch /\ host'.paused = host.paused
         /\ faults' \in Nat /\ (faults' = 0 => faults = 0)
         /\ \/ Handle(m) /\ late' = late
            \/ entry' = entry /\ late' \in {late, late \cup {m}}
         /\ faults' = 0 =>
              /\ late' = late /\ Handle(m)
              /\ host'.at = IF Accepts(m) THEN success ELSE failure
<1>1. CASE Accepts(m) /\ Carry(m) /\ NoFault /\ Goto(success) /\ UNCHANGED late
  BY <1>1, HostGoes, NoFaultIs DEF Handle
<1>2. CASE ~Accepts(m) /\ Refuse(m) /\ NoFault /\ Goto(failure) /\ UNCHANGED late
  BY <1>2, HostGoes, NoFaultIs DEF Handle
<1>3. CASE Handle(m) /\ Fault /\ Goto(failure) /\ UNCHANGED late
  BY <1>3, HostGoes, FaultIs
<1>4. CASE UNCHANGED engineVars /\ Fault /\ Goto(failure) /\ (UNCHANGED late \/ late' = late \cup {m})
  BY <1>4, HostGoes, FaultIs DEF engineVars
<1> QED BY <1>1, <1>2, <1>3, <1>4 DEF Call

LEMMA CalledKeeps ==
  ASSUME IInv, NEW m \in Commands,
         Starting(m) => m.epoch <= durable.epoch /\ Entitled(m.engine, m.epoch),
         \/ Handle(m) /\ late' = late
         \/ entry' = entry /\ late' \in {late, late \cup {m}},
         UNCHANGED <<default, process, lease, durable, tracked, archive>>,
         host' \in Passes, faults' \in Nat
  PROVE  /\ Types' /\ Fenced' /\ Copied' /\ Src' = Src /\ Tgt' = Tgt
         /\ \A x \in Engines \ {m.engine} : entry'[x] = entry[x]
         /\ Activated(m) \/ Resumed(m) \/ Completed(m) \/ entry'[m.engine] = entry[m.engine]
<1> USE DEF IInv
<1>1. CASE Handle(m) /\ late' = late
  <2>1. Types' /\ Fenced' /\ Copied' /\ Src' = Src /\ Tgt' = Tgt
    BY <1>1, HandledKeeps
  <2> QED BY <1>1, <2>1, HandleIs DEF Untouched
<1>2. CASE entry' = entry /\ late' \in {late, late \cup {m}}
  <2>1. Src' = Src /\ Tgt' = Tgt
    BY SameEngines
  <2>2. Types'
    BY <1>2 DEF Types
  <2>3. Fenced'
    BY <1>2 DEF Fenced, Entitled, Owns, DurableToken
  <2>4. Copied'
    BY <1>2 DEF Copied, Reaches, Strayed, Over
  <2> QED BY <1>2, <2>1, <2>2, <2>3, <2>4
<1> QED BY <1>1, <1>2

LEMMA DiscardKeeps ==
  ASSUME IInv, Discard
  PROVE  IInv'
<1> USE DEF IInv
<1>1. /\ UNCHANGED <<default, process, lease, durable, tracked, archive>>
      /\ host.at \in {"discard", "drop", "restored"}
  BY DEF Discard, At, processVars, authorityVars
<1>2. Src \in Engines /\ Src # default /\ Tgt = default /\ Tgt \in Engines /\ Engines = {Tgt, Src}
  BY TwoEngines DEF Types, Tgt
<1>3. PICK m \in Commands : m = Msg("discard", Tgt, 0, 0)
  BY <1>2, MessageIs
<1>4. m.op = "discard" /\ m.engine = Tgt /\ ~Starting(m)
  BY <1>2, <1>3, MessageIs DEF Starting
<1>5. PICK success \in HostSteps, failure \in HostSteps :
        /\ Call(m, success, failure)
        /\ \/ host.at = "discard" /\ success = "drained" /\ failure = "drop"
           \/ host.at = "drop" /\ success = (IF host.paused THEN "undo" ELSE "retire") /\ failure = success
           \/ host.at = "restored" /\ success = "retire" /\ failure = "retire"
  BY <1>3 DEF Discard, At, HostSteps
<1>6. /\ host' \in Passes /\ host'.at \in {success, failure}
      /\ host'.epoch = host.epoch /\ host'.paused = host.paused
      /\ faults' \in Nat /\ (faults' = 0 => faults = 0)
      /\ \/ Handle(m) /\ late' = late
         \/ entry' = entry /\ late' \in {late, late \cup {m}}
      /\ faults' = 0 => /\ late' = late
                        /\ host'.at = IF Accepts(m) THEN success ELSE failure
  BY <1>5, CallIs
<1>7. /\ Types' /\ Fenced' /\ Copied' /\ Src' = Src /\ Tgt' = Tgt
      /\ \A x \in Engines \ {m.engine} : entry'[x] = entry[x]
      /\ Activated(m) \/ Resumed(m) \/ Completed(m) \/ entry'[m.engine] = entry[m.engine]
  BY <1>1, <1>4, <1>6, CalledKeeps
<1>8. \A x \in Engines : entry'[x] = entry[x]
  BY <1>4, <1>7 DEF Activated, Resumed, Completed
<1>9. Relied'
  BY <1>1, <1>5, <1>6, <1>7 DEF Relied, Before, After, Owns
<1>10. Moving'
  BY <1>5, <1>6 DEF Moving, After
<1>11. Smooth'
  BY <1>1, <1>2, <1>5, <1>6, <1>7, <1>8 DEF Smooth, Serves, Tidy, HostSteps, After, SrcParked, Owns, Fenced
<1> QED BY <1>7, <1>9, <1>10, <1>11

LEMMA ActivateKeeps ==
  ASSUME IInv, Activate
  PROVE  IInv'
<1> USE DEF IInv
<1>1. UNCHANGED <<default, process, lease, durable, tracked, archive>> /\ host.at = "activate"
  BY DEF Activate, At, processVars, authorityVars
<1>2. /\ Src \in Engines /\ Src # default /\ Tgt = default /\ Tgt \in Engines /\ Engines = {Tgt, Src}
      /\ host.epoch \in Nat /\ durable.epoch \in Nat
  BY TwoEngines DEF Types, Tgt, Passes
<1>3. PICK m \in Commands : m = Msg("activate", Tgt, host.epoch + 1, 0)
  BY <1>2, MessageIs
<1>4. m.op = "activate" /\ m.engine = Tgt /\ m.epoch = host.epoch + 1
  BY <1>2, <1>3, MessageIs
<1>5. Call(m, "detach", "rollback")
  BY <1>3 DEF Activate
<1>6. /\ host' \in Passes /\ host'.at \in {"detach", "rollback"}
      /\ host'.epoch = host.epoch /\ host'.paused = host.paused
      /\ faults' \in Nat /\ (faults' = 0 => faults = 0)
      /\ \/ Handle(m) /\ late' = late
         \/ entry' = entry /\ late' \in {late, late \cup {m}}
      /\ faults' = 0 => /\ late' = late /\ Handle(m)
                        /\ host'.at = IF Accepts(m) THEN "detach" ELSE "rollback"
  BY <1>5, CallIs DEF HostSteps
<1>7. m.epoch <= durable.epoch /\ Entitled(m.engine, m.epoch)
      /\ (durable.held => Owns(Tgt, host.epoch + 1))
  BY <1>1, <1>4 DEF Relied, After
<1>8. /\ Types' /\ Fenced' /\ Copied' /\ Src' = Src /\ Tgt' = Tgt
      /\ \A x \in Engines \ {m.engine} : entry'[x] = entry[x]
      /\ Activated(m) \/ Resumed(m) \/ Completed(m) \/ entry'[m.engine] = entry[m.engine]
  BY <1>1, <1>6, <1>7, CalledKeeps
<1>9. entry'[Src] = entry[Src] /\ (Activated(m) \/ entry'[Tgt] = entry[Tgt])
  BY <1>2, <1>4, <1>8 DEF Resumed, Completed
<1>10. Relied'
  BY <1>1, <1>4, <1>6, <1>7, <1>8 DEF Relied, Before, After, Owns
<1>11. Moving'
  <2>1. SUFFICES ASSUME durable.held
                 PROVE  /\ entry'[Tgt].at \in {"none", "running", "ended"}
                        /\ entry'[Tgt].at = "running" =>
                             entry'[Tgt].view = archive /\ entry'[Tgt].epoch = host.epoch + 1
                        /\ entry'[Src].at \in Copies => /\ Reaches(entry[Src].view, durable.epoch)'
                                                        /\ entry'[Src].view = archive \/ Strayed(Tgt)'
    BY <1>1, <1>6, <1>8 DEF Moving, After
  <2>2. Reaches(entry[Src].view, durable.epoch) => Reaches(entry[Src].view, durable.epoch)'
    BY <1>1, <1>8, <1>9 DEF Reaches
  <2>3. CASE Activated(m)
    BY <1>1, <1>4, <1>8, <1>9, <2>1, <2>2, <2>3 DEF Activated, Moving, After, Strayed
  <2>4. CASE entry'[Tgt] = entry[Tgt]
    BY <1>1, <1>8, <1>9, <2>1, <2>2, <2>4 DEF Moving, After, Strayed, Over
  <2> QED BY <1>9, <2>3, <2>4
<1>12. Smooth'
  <2>1. SUFFICES ASSUME faults' = 0 PROVE Smooth'
    BY DEF Smooth
  <2>2. faults = 0 /\ late' = {} /\ (durable.held => SrcParked /\ tracked = DurableToken /\ lease = Tgt)
    BY <1>1, <1>6, <2>1 DEF Smooth, After
  <2>3. SrcParked => SrcParked'
    BY <1>6, <1>8, <1>9 DEF SrcParked
  <2>4. CASE Accepts(m)
    <3>1. Activated(m)
      <4>1. Handle(m)
        BY <1>6, <2>1
      <4>2. Activated(m) \/ Resumed(m) \/ Completed(m) \/ Untouched(m)
        BY <4>1, HandleIs
      <4> QED BY <1>4, <2>4, <4>2 DEF Untouched, Resumed, Completed
    <3>2. host'.at = "detach"
      BY <1>6, <2>1, <2>4
    <3>3. durable.held => Serves(Settled)'
      BY <1>1, <1>4, <1>7, <3>1 DEF Activated, Serves, Settled, Owns
    <3> QED BY <1>1, <2>2, <3>2, <3>3 DEF Smooth, After
  <2>5. CASE ~Accepts(m)
    <3>1. host'.at = "rollback"
      BY <1>6, <2>1, <2>5
    <3> QED BY <1>1, <1>8, <2>2, <2>3, <3>1 DEF Smooth, After, Tidy, DurableToken
  <2> QED BY <2>4, <2>5
<1> QED BY <1>8, <1>10, <1>11, <1>12

LEMMA DetachKeeps ==
  ASSUME IInv, Detach
  PROVE  IInv'
<1> USE DEF IInv
<1>1. UNCHANGED <<default, process, lease, durable, tracked, archive>> /\ host.at = "detach"
  BY DEF Detach, At, processVars, authorityVars
<1>2. Src \in Engines /\ host.epoch \in Nat
  BY TwoEngines DEF Types, Passes
<1>3. PICK m \in Commands : m = Msg("complete", Src, host.epoch, 0)
  BY <1>2, MessageIs
<1>4. m.op = "complete" /\ m.engine = Src /\ ~Starting(m)
  BY <1>2, <1>3, MessageIs DEF Starting
<1>5. Call(m, "retire", "retire")
  BY <1>3 DEF Detach
<1>6. /\ host' \in Passes /\ host'.at = "retire"
      /\ faults' \in Nat /\ (faults' = 0 => faults = 0)
      /\ \/ Handle(m) /\ late' = late
         \/ entry' = entry /\ late' \in {late, late \cup {m}}
      /\ faults' = 0 => late' = late
  <2>1. "retire" \in HostSteps /\ Types
    BY DEF HostSteps
  <2> QED BY <1>5, <2>1, CallIs
<1>7. /\ Types' /\ Fenced' /\ Copied' /\ Src' = Src /\ Tgt' = Tgt
      /\ \A x \in Engines \ {m.engine} : entry'[x] = entry[x]
      /\ Activated(m) \/ Resumed(m) \/ Completed(m) \/ entry'[m.engine] = entry[m.engine]
  BY <1>1, <1>4, <1>6, CalledKeeps
<1>8. \A x \in Engines : entry'[x] = entry[x] \/ entry[x].at = "parked"
  BY <1>4, <1>7 DEF Activated, Resumed, Completed, CanComplete
<1>9. Relied' /\ Moving'
  BY <1>6 DEF Relied, Moving, Before, After
<1>10. Smooth'
  <2>1. SUFFICES ASSUME faults' = 0 PROVE Smooth'
    BY DEF Smooth
  <2>2. faults = 0 /\ late' = {} /\ (durable.held => Serves(Settled))
    BY <1>1, <1>6, <2>1 DEF Smooth, Tidy, HostSteps, After
  <2>3. durable.held => Serves(Settled)'
    BY <1>1, <1>8, <2>2 DEF Serves, Settled, Fenced
  <2> QED BY <1>1, <1>6, <2>2, <2>3 DEF Smooth, After
<1> QED BY <1>7, <1>9, <1>10

LEMMA ResumeKeeps ==
  ASSUME IInv, Resume
  PROVE  IInv'
<1> USE DEF IInv
<1>1. UNCHANGED <<default, process, lease, durable, tracked, archive>> /\ host.at = "resume"
  BY DEF Resume, At, processVars, authorityVars
<1>2. Src \in Engines /\ host.epoch \in Nat /\ durable.epoch \in Nat
  BY TwoEngines DEF Types, Passes
<1>3. PICK m \in Commands : m = Msg("resume", Src, host.epoch + 2, host.epoch)
  BY <1>2, MessageIs
<1>4. m.op = "resume" /\ m.engine = Src /\ m.epoch = host.epoch + 2 /\ m.from = host.epoch
  BY <1>2, <1>3, MessageIs
<1>5. Call(m, "restored", "retire")
  BY <1>3 DEF Resume
<1>6. /\ host' \in Passes /\ host'.at \in {"restored", "retire"}
      /\ faults' \in Nat /\ (faults' = 0 => faults = 0)
      /\ \/ Handle(m) /\ late' = late
         \/ entry' = entry /\ late' \in {late, late \cup {m}}
      /\ faults' = 0 => late' = late /\ Handle(m)
  <2>1. {"restored", "retire"} \subseteq HostSteps /\ Types
    BY DEF HostSteps
  <2> QED BY <1>5, <2>1, CallIs
<1>7. m.epoch <= durable.epoch /\ Entitled(m.engine, m.epoch)
  <2>1. host.epoch + 2 <= durable.epoch /\ Entitled(Src, host.epoch + 2)
    BY <1>1 DEF Relied
  <2> QED BY <1>4, <2>1 DEF Entitled
<1>8. /\ Types' /\ Fenced' /\ Copied' /\ Src' = Src /\ Tgt' = Tgt
      /\ \A x \in Engines \ {m.engine} : entry'[x] = entry[x]
  BY <1>1, <1>6, <1>7, CalledKeeps
<1>9. Relied' /\ Moving'
  BY <1>6 DEF Relied, Moving, Before, After
<1>10. Smooth'
  <2>1. SUFFICES ASSUME faults' = 0 PROVE Smooth'
    BY DEF Smooth
  <2>2. faults = 0 /\ late' = {} /\ (durable.held => SrcParked /\ Owns(Src, host.epoch + 2))
    BY <1>1, <1>6, <2>1 DEF Smooth
  <2>3. durable.held => Serves(Settled)'
    <3>1. SUFFICES ASSUME durable.held PROVE Serves(Settled)'
      OBVIOUS
    <3>2. Accepts(m)
      BY <1>4, <2>2, <3>1, Owned DEF Accepts, CanResume, SrcParked
    <3>3. Activated(m) \/ Resumed(m) \/ Completed(m) \/ Untouched(m)
      BY <1>6, <2>1, HandleIs
    <3>4. Resumed(m)
      BY <1>4, <3>2, <3>3 DEF Activated, Completed, Untouched
    <3> QED BY <1>1, <1>4, <2>2, <3>1, <3>4 DEF Resumed, Serves, Settled, Owns
  <2> QED BY <1>1, <1>6, <2>2, <2>3 DEF Smooth, After
<1> QED BY <1>8, <1>9, <1>10

LEMMA UndoKeeps ==
  ASSUME IInv, Undo
  PROVE  IInv'
<1> USE DEF IInv
<1>1. UNCHANGED <<default, process, lease, durable, tracked, archive>> /\ host.at = "undo"
  BY DEF Undo, At, processVars, authorityVars
<1>2. Src \in Engines /\ host.epoch \in Nat /\ durable.epoch \in Nat
  BY TwoEngines DEF Types, Passes
<1>3. CASE tracked = DurableToken /\ durable.held /\ durable.engine = Src
  <2>1. PICK m \in Commands : m = Msg("resume", Src, durable.epoch, host.epoch)
    BY <1>2, MessageIs
  <2>2. m.op = "resume" /\ m.engine = Src /\ m.epoch = durable.epoch /\ m.from = host.epoch
    BY <1>2, <2>1, MessageIs
  <2>3. Call(m, "retire", "retire")
    BY <1>3, <2>1 DEF Undo
  <2>4. /\ host' \in Passes /\ host'.at = "retire"
        /\ faults' \in Nat /\ (faults' = 0 => faults = 0)
        /\ \/ Handle(m) /\ late' = late
           \/ entry' = entry /\ late' \in {late, late \cup {m}}
        /\ faults' = 0 => late' = late /\ Handle(m)
    <3>1. "retire" \in HostSteps /\ Types
      BY DEF HostSteps
    <3> QED BY <2>3, <3>1, CallIs
  <2>5. m.epoch <= durable.epoch /\ Entitled(m.engine, m.epoch)
    <3>1. lease = Src
      BY <1>1, <1>3 DEF Relied
    <3> QED BY <1>2, <1>3, <2>2, <3>1 DEF Entitled
  <2>6. /\ Types' /\ Fenced' /\ Copied' /\ Src' = Src /\ Tgt' = Tgt
        /\ \A x \in Engines \ {m.engine} : entry'[x] = entry[x]
    BY <1>1, <2>4, <2>5, CalledKeeps
  <2>7. Relied' /\ Moving'
    BY <2>4 DEF Relied, Moving, Before, After
  <2>8. Smooth'
    <3>1. SUFFICES ASSUME faults' = 0 PROVE Smooth'
      BY DEF Smooth
    <3>2. faults = 0 /\ late' = {} /\ SrcParked /\ Owns(Src, host.epoch)
      BY <1>1, <1>3, <2>4, <3>1 DEF Smooth
    <3>3. Accepts(m)
      BY <2>2, <3>2, Owned DEF Accepts, CanResume, SrcParked, Owns
    <3>4. Activated(m) \/ Resumed(m) \/ Completed(m) \/ Untouched(m)
      BY <2>4, <3>1, HandleIs
    <3>5. Resumed(m)
      BY <2>2, <3>3, <3>4 DEF Activated, Completed, Untouched
    <3>6. Serves(Settled)'
      BY <1>1, <2>2, <3>2, <3>5 DEF Resumed, Serves, Settled, Owns
    <3> QED BY <1>1, <2>4, <3>2, <3>6 DEF Smooth, After
  <2> QED BY <2>6, <2>7, <2>8
<1>4. CASE ~(tracked = DurableToken /\ durable.held /\ durable.engine = Src)
  <2>1. HostOnly /\ Goto("retire") /\ NoFault
    BY <1>4 DEF Undo, HostOnly
  <2>2. host' \in Passes /\ host'.at = "retire" /\ faults' = faults /\ faults' \in Nat
    BY <2>1, HostGoes, NoFaultIs DEF HostSteps
  <2>3. Types' /\ Fenced' /\ Copied' /\ Src' = Src /\ Tgt' = Tgt
        /\ UNCHANGED <<default, lease, durable, tracked, entry, archive, late>>
    BY <2>1, <2>2, HostMoves
  <2>4. Relied' /\ Moving'
    BY <2>2 DEF Relied, Moving, Before, After
  <2>5. faults = 0 => ~durable.held
    <3>1. SUFFICES ASSUME faults = 0, durable.held PROVE FALSE
      OBVIOUS
    <3>2. SrcParked /\ Owns(Src, host.epoch)
      BY <1>1, <3>1 DEF Smooth
    <3> QED BY <1>2, <1>4, <3>2 DEF SrcParked, Owns, Fenced, Entitled
  <2>6. Smooth'
    BY <2>2, <2>3, <2>5 DEF Smooth, After
  <2> QED BY <2>3, <2>4, <2>6
<1> QED BY <1>3, <1>4

LEMMA ReadOneKeeps ==
  ASSUME IInv, NEW e \in Engines, ReadOne(e)
  PROVE  IInv'
<1> USE DEF IInv
<1>1. UNCHANGED <<default, process, lease, durable, tracked, archive, late>> /\ host.at = "read"
  BY DEF ReadOne, At, processVars, authorityVars
<1>2. entry[e] \in Marks /\ entry[e].epoch \in Nat
  <2>1. entry[e] \in Marks
    BY DEF Types
  <2> QED BY <2>1, EntryFields
<1>3. PICK m \in Commands : m = Msg("complete", e, entry[e].epoch, 0)
  BY <1>2, MessageIs
<1>4. m.op = "complete" /\ m.engine = e /\ ~Starting(m)
  BY <1>2, <1>3, MessageIs DEF Starting
<1>5. host' \in Passes /\ host'.at = "read"
  BY <1>1 DEF ReadOne, Types, Passes
<1>6. faults' \in Nat /\ (faults' = 0 => faults = 0) /\ (Handle(m) \/ entry' = entry)
  BY <1>3, NoFaultIs, FaultIs DEF ReadOne, engineVars
<1>7. /\ Types' /\ Fenced' /\ Copied' /\ Src' = Src /\ Tgt' = Tgt
      /\ \A x \in Engines \ {m.engine} : entry'[x] = entry[x]
      /\ Activated(m) \/ Resumed(m) \/ Completed(m) \/ entry'[m.engine] = entry[m.engine]
  BY <1>1, <1>4, <1>5, <1>6, CalledKeeps
<1>8. \A x \in Engines : entry'[x] = entry[x] \/ entry[x].at = "parked"
  BY <1>4, <1>7 DEF Activated, Resumed, Completed, CanComplete
<1>9. Relied' /\ Moving'
  BY <1>5 DEF Relied, Moving, Before, After
<1>10. Smooth'
  <2>1. SUFFICES ASSUME faults' = 0 PROVE Smooth'
    BY DEF Smooth
  <2>2. faults = 0 /\ late' = {} /\ (durable.held => Serves(Settled))
    BY <1>1, <1>6, <2>1 DEF Smooth, Tidy, HostSteps, After
  <2>3. durable.held => Serves(Settled)'
    BY <1>1, <1>8, <2>2 DEF Serves, Settled, Fenced
  <2> QED BY <1>1, <1>5, <2>2, <2>3 DEF Smooth, After
<1> QED BY <1>7, <1>9, <1>10

-----------------------------------------------------------------------------
(* The pass: the lease, the preparation of a handover, the pause.          *)

LEMMA ReconcileKeeps ==
  ASSUME IInv, Reconcile
  PROVE  IInv'
<1> USE DEF IInv
<1>1. UNCHANGED <<default, process, durable, tracked, entry, archive, late>> /\ host.at = "reconcile"
  BY DEF Reconcile, At, processVars, engineVars
<1>2. /\ host' \in Passes /\ host'.at \in {"check", "idle"} /\ ~host'.paused
      /\ faults' \in Nat /\ (faults' = 0 => faults = 0)
  BY IdleFields, NoFaultIs, FaultIs DEF Reconcile, Abandon, Idle, Passes, HostSteps
<1>3. Protected \subseteq Engines \cup {None} /\ host.seen \subseteq Engines
  BY DEF Protected, Types, Passes
<1>4. lease' \in Engines \cup {None}
  <2>1. CASE lease' = IF host.seen \cup Protected # {} THEN CHOOSE e \in host.seen \cup Protected : TRUE
                      ELSE IF lease # None /\ ~dormant[lease] THEN None ELSE lease
    BY <1>3, <2>1 DEF Types
  <2>2. CASE lease' = lease
    BY <2>2 DEF Types
  <2> QED BY <2>1, <2>2 DEF Reconcile
<1>5. ASSUME NEW e \in Engines, tracked = DurableToken, durable.engine = e, lease = e
      PROVE  lease' = e
  <2>1. e \in Protected /\ e # None
    BY <1>5, TwoEngines DEF Protected, DurableToken, NoToken, Token, Types
  <2>2. CASE lease' = lease
    BY <1>5, <2>2
  <2>3. CASE /\ host.seen \cup Protected \subseteq {lease}
             /\ lease' = IF host.seen \cup Protected # {} THEN CHOOSE x \in host.seen \cup Protected : TRUE
                         ELSE IF lease # None /\ ~dormant[lease] THEN None ELSE lease
    <3>1. host.seen \cup Protected = {e}
      BY <1>5, <2>1, <2>3
    <3> QED BY <2>3, <3>1
  <2> QED BY <1>5, <2>1, <2>2, <2>3 DEF Reconcile
<1>6. Src' = Src /\ Tgt' = Tgt
  BY <1>1, SameEngines
<1>7. Types'
  BY <1>1, <1>2, <1>4 DEF Types
<1>8. \A e \in Engines : \A n : Entitled(e, n) => Entitled(e, n)'
  BY <1>1, <1>5 DEF Entitled, Owns, DurableToken
<1>9. Fenced'
  <2>1. \A m \in late : m.engine \in Engines
    BY DEF Types, Commands
  <2>2. ASSUME NEW e \in Engines PROVE Entitled(e, entry[e].epoch)'
    <3>1. PICK n : n = entry[e].epoch
      OBVIOUS
    <3>2. Entitled(e, n)'
      BY <1>8, <3>1 DEF Fenced
    <3> QED BY <1>1, <3>1, <3>2
  <2>3. ASSUME NEW m \in late, Starting(m) PROVE Entitled(m.engine, m.epoch)'
    BY <1>8, <2>1, <2>3 DEF Fenced
  <2> QED BY <1>1, <2>2, <2>3 DEF Fenced, Starting
<1>10. Copied'
  BY <1>1 DEF Copied, Reaches, Strayed, Over
<1>11. Relied' /\ Moving'
  BY <1>2 DEF Relied, Moving, Before, After
<1>12. Smooth'
  BY <1>1, <1>2 DEF Smooth, Serves, Tidy, HostSteps, After
<1> QED BY <1>7, <1>9, <1>10, <1>11, <1>12

LEMMA PrepareMoves ==
  ASSUME IInv, NEW success \in HostSteps, PrepareWith(success)
  PROVE  /\ UNCHANGED <<default, process, lease, durable, tracked, entry, archive, late>>
         /\ host' \in Passes /\ host'.epoch = host.epoch /\ host'.paused = host.paused
         /\ host'.at = "drop" \/ (host'.at = success /\ Ready)
         /\ faults' \in Nat /\ (faults' = 0 => faults = 0)
<1> USE DEF IInv
<1>1. UNCHANGED <<default, process, lease, durable, tracked, entry, archive, late>>
  BY DEF PrepareWith, processVars, authorityVars
<1>2. PICK found \in Candidates :
        /\ found => Ready
        /\ \/ NoFault /\ Goto(IF found THEN success ELSE "drop")
           \/ Fault /\ Goto("drop")
  BY DEF PrepareWith
<1>3. Goto("drop") \/ (Goto(success) /\ Ready)
  BY <1>2 DEF Candidates
<1>4. faults' \in Nat /\ (faults' = 0 => faults = 0)
  BY <1>2, NoFaultIs, FaultIs
<1>5. "drop" \in HostSteps
  BY DEF HostSteps
<1> QED BY <1>1, <1>3, <1>4, <1>5, HostGoes

LEMMA PrepareKeeps ==
  ASSUME IInv, At("prepare"), PrepareWith("pause")
  PROVE  IInv'
<1> USE DEF IInv
<1>1. /\ UNCHANGED <<default, process, lease, durable, tracked, entry, archive, late>>
      /\ host' \in Passes /\ host'.epoch = host.epoch /\ host'.paused = host.paused
      /\ host'.at \in {"drop", "pause"}
      /\ faults' \in Nat /\ (faults' = 0 => faults = 0)
  BY PrepareMoves DEF HostSteps
<1>2. Types' /\ Fenced' /\ Copied' /\ Src' = Src /\ Tgt' = Tgt
  BY <1>1, HostGoesOn
<1>3. Relied' /\ Moving'
  BY <1>1, <1>2 DEF Relied, Moving, Before, After, Owns, At
<1>4. Smooth'
  BY <1>1, <1>2 DEF Smooth, Serves, Tidy, HostSteps, After, At
<1> QED BY <1>2, <1>3, <1>4

\* The root was not over when the target was ready, and its worker was gone: the
\* source is behind of nothing.
LEMMA PrepareDrainedKeeps ==
  ASSUME IInv, PrepareDrained
  PROVE  IInv'
<1> USE DEF IInv
<1>1. /\ UNCHANGED <<default, process, lease, durable, tracked, entry, archive, late>>
      /\ host' \in Passes /\ host'.epoch = host.epoch /\ host'.paused = host.paused
      /\ host'.at = "drop" \/ (host'.at = "transfer" /\ Ready)
      /\ faults' \in Nat /\ (faults' = 0 => faults = 0)
  BY PrepareMoves DEF PrepareDrained, HostSteps
<1>2. Types' /\ Fenced' /\ Copied' /\ Src' = Src /\ Tgt' = Tgt
  BY <1>1, HostGoesOn
<1>3. host.at = "drained"
  BY DEF PrepareDrained, At
<1>4. Relied'
  BY <1>1, <1>2, <1>3 DEF Relied, Before, After, Owns
<1>5. Moving'
  <2>1. SUFFICES ASSUME host'.at = "transfer", durable.held
                 PROVE  entry[Tgt].at = "none" /\ (entry[Src].at \in Copies => entry[Src].view = archive)
    BY <1>1, <1>2 DEF Moving, After
  <2>2. entry[Tgt].at = "none" /\ ~Over
    BY <1>1, <2>1 DEF Ready
  <2>3. durable.engine = Src /\ Tgt \in Engines \ {Src}
    BY <1>3, <2>1, TwoEngines DEF Relied, Before, Owns, Tgt, Types
  <2>4. ~Strayed(Tgt)
    BY <2>2 DEF Strayed
  <2> QED BY <2>1, <2>2, <2>3, <2>4 DEF Copied
<1>6. Smooth'
  BY <1>1, <1>2, <1>3 DEF Smooth, Serves, SrcParked, Tidy, HostSteps, After, Owns
<1> QED BY <1>2, <1>4, <1>5, <1>6

LEMMA AskPauseKeeps ==
  ASSUME IInv, AskPause
  PROVE  IInv'
<1> USE DEF IInv
<1>1. /\ UNCHANGED <<default, process, lease, durable, tracked, archive, late>>
      /\ host.at = "pause" /\ faults' = faults /\ faults' \in Nat
  BY NoFaultIs DEF AskPause, At, processVars, authorityVars
<1>2. Src \in Engines /\ Src # default /\ Tgt = default
  BY TwoEngines DEF Types, Tgt
<1>3. (durable.held => Owns(Src, host.epoch)) /\ (faults = 0 => ~host.paused)
  BY <1>1 DEF Relied, Before, Smooth
<1>4. CASE entry[Src].epoch = host.epoch /\ entry[Src].at = "running" /\ Goto("parking") /\ SetEntry(Src, "asked")
  <2>1. host' \in Passes /\ host'.at = "parking" /\ host'.epoch = host.epoch /\ host'.paused = host.paused
    BY <1>4, HostGoes DEF HostSteps
  <2>2. PICK e \in Engines : e = Src
    BY <1>2
  <2>3. /\ Types' /\ Fenced' /\ Src' = Src /\ Tgt' = Tgt
        /\ entry'[e].at = "asked" /\ entry'[e].epoch = entry[e].epoch
        /\ entry'[e].view = entry[e].view /\ \A x \in Engines \ {e} : entry'[x] = entry[x]
    BY <1>1, <1>4, <2>1, <2>2, WorkerAndHostMove, EntryStateNames
  <2>4. Copied'
    BY <1>1, <1>3, <1>4, <2>2, <2>3 DEF Copied, Copies, Reaches, Strayed, Over, Owns
  <2>5. Relied' /\ Moving'
    BY <1>1, <2>1, <2>3 DEF Relied, Moving, Before, After, Owns
  <2>6. Smooth'
    BY <1>1, <1>3, <1>4, <2>1, <2>2, <2>3 DEF Smooth, Serves, After, Owns, Tidy
  <2> QED BY <2>3, <2>4, <2>5, <2>6
<1>5. CASE /\ UNCHANGED entry /\ ~(entry[Src].epoch = host.epoch /\ entry[Src].at = "running")
           /\ Goto(IF entry[Src].epoch = host.epoch /\ entry[Src].at = "parked" THEN "parking" ELSE "drop")
  <2>1. PICK step \in {"parking", "drop"} :
          Goto(step) /\ (step = "parking" => entry[Src].at = "parked")
    BY <1>5
  <2>2. host' \in Passes /\ host'.at = step /\ host'.epoch = host.epoch /\ host'.paused = host.paused
    BY <2>1, HostGoes DEF HostSteps
  <2>3. Types' /\ Fenced' /\ Copied' /\ Src' = Src /\ Tgt' = Tgt
    BY <1>1, <1>5, <2>2, HostGoesOn
  <2>4. Relied' /\ Moving'
    BY <1>1, <2>1, <2>2, <2>3 DEF Relied, Moving, Before, After, Owns
  <2>5. Smooth'
    BY <1>1, <1>3, <1>5, <2>1, <2>2, <2>3 DEF Smooth, Serves, Settled, After, Owns, Tidy, HostSteps
  <2> QED BY <2>3, <2>4, <2>5
<1> QED BY <1>4, <1>5 DEF AskPause

LEMMA AwaitPauseKeeps ==
  ASSUME IInv, AwaitPause
  PROVE  IInv'
<1> USE DEF IInv
<1>1. UNCHANGED <<default, process, lease, durable, tracked, archive, late>> /\ host.at = "parking"
  BY DEF AwaitPause, At, processVars, authorityVars
<1>2. Src \in Engines /\ Src # default /\ Tgt = default
  BY TwoEngines DEF Types, Tgt
<1>3. (durable.held => Owns(Src, host.epoch)) /\ (faults = 0 => ~host.paused)
  BY <1>1 DEF Relied, Before, Smooth
<1>4. CASE entry[Src].at = "parked" /\ NoFault /\ UNCHANGED entry
           /\ host' = [host EXCEPT !.at = "discard", !.paused = TRUE]
  <2>1. host' \in Passes /\ host'.at = "discard" /\ host'.epoch = host.epoch /\ host'.paused
    BY <1>4 DEF Types, Passes, HostSteps
  <2>2. faults' = faults /\ faults' \in Nat
    BY <1>4, NoFaultIs
  <2>3. Types' /\ Fenced' /\ Copied' /\ Src' = Src /\ Tgt' = Tgt
    BY <1>1, <1>4, <2>1, <2>2, HostGoesOn
  <2>4. Relied' /\ Moving'
    BY <1>1, <2>1, <2>3 DEF Relied, Moving, Before, After, Owns
  <2>5. Smooth'
    BY <1>1, <1>3, <1>4, <2>1, <2>2, <2>3 DEF Smooth, Serves, SrcParked, After, Owns, Tidy
  <2> QED BY <2>3, <2>4, <2>5
<1>5. CASE entry[Src].at \notin {"asked", "parked"} /\ NoFault /\ UNCHANGED entry /\ Goto("drop")
  <2>1. host' \in Passes /\ host'.at = "drop" /\ host'.epoch = host.epoch /\ host'.paused = host.paused
    BY <1>5, HostGoes DEF HostSteps
  <2>2. faults' = faults /\ faults' \in Nat
    BY <1>5, NoFaultIs
  <2>3. Types' /\ Fenced' /\ Copied' /\ Src' = Src /\ Tgt' = Tgt
    BY <1>1, <1>5, <2>1, <2>2, HostGoesOn
  <2>4. Relied' /\ Moving'
    BY <1>1, <2>1, <2>3 DEF Relied, Moving, Before, After, Owns
  <2>5. Smooth'
    BY <1>1, <1>3, <1>5, <2>1, <2>2, <2>3 DEF Smooth, Serves, Settled, After, Owns, Tidy
  <2> QED BY <2>3, <2>4, <2>5
<1>6. CASE entry[Src].at = "asked" /\ Fault /\ SetEntry(Src, "running") /\ Goto("drop")
  <2>1. host' \in Passes /\ host'.at = "drop" /\ faults' \in Nat /\ faults' # 0
    BY <1>6, HostGoes, FaultIs DEF HostSteps
  <2>2. PICK e \in Engines : e = Src
    BY <1>2
  <2>3. /\ Types' /\ Fenced' /\ Src' = Src /\ Tgt' = Tgt
        /\ entry'[e].at = "running" /\ entry'[e].epoch = entry[e].epoch
        /\ entry'[e].view = entry[e].view /\ \A x \in Engines \ {e} : entry'[x] = entry[x]
    BY <1>1, <1>6, <2>1, <2>2, WorkerAndHostMove, EntryStateNames
  <2>4. Copied'
    BY <1>1, <1>3, <1>6, <2>2, <2>3 DEF Copied, Copies, Reaches, Strayed, Over, Owns
  <2>5. Relied' /\ Moving' /\ Smooth'
    BY <1>1, <2>1, <2>3 DEF Relied, Moving, Smooth, Before, After
  <2> QED BY <2>3, <2>4, <2>5
<1>7. CASE Fault /\ UNCHANGED entry /\ Goto("drop")
  <2>1. host' \in Passes /\ host'.at = "drop" /\ faults' \in Nat /\ faults' # 0
    BY <1>7, HostGoes, FaultIs DEF HostSteps
  <2>2. Types' /\ Fenced' /\ Copied' /\ Src' = Src /\ Tgt' = Tgt
    BY <1>1, <1>7, <2>1, HostGoesOn
  <2>3. Relied' /\ Moving' /\ Smooth'
    BY <1>1, <2>1, <2>2 DEF Relied, Moving, Smooth, Before, After
  <2> QED BY <2>2, <2>3
<1> QED BY <1>4, <1>5, <1>6, <1>7 DEF AwaitPause

-----------------------------------------------------------------------------
(* The owner moves.                                                        *)

\* Nobody holds a token that was just issued.
LEMMA NewOwner ==
  ASSUME IInv, durable.epoch >= 1, NEW e \in Engines, NEW n \in Nat, n > durable.epoch,
         durable' = Owner(e, n), UNCHANGED <<default, process, entry, archive, late>>,
         lease' \in Engines \cup {None},
         tracked' \in [engine : Engines \cup {None}, epoch : Nat],
         host' \in Passes, faults' \in Nat
  PROVE  /\ Types' /\ Fenced' /\ Src' = Src /\ Tgt' = Tgt
         /\ durable'.engine = e /\ durable'.epoch = n /\ durable'.held
<1> USE DEF IInv
<1>1. durable'.engine = e /\ durable'.epoch = n /\ durable'.held
  BY DEF Owner
<1>2. durable' \in [engine : Engines \cup {None}, epoch : Nat, held : BOOLEAN]
  BY DEF Owner
<1>3. Src' = Src /\ Tgt' = Tgt
  BY SameEngines
<1>4. Types'
  BY <1>2 DEF Types
<1>5. durable.epoch \in Nat /\ n # 0
  BY DEF Types
<1>6. ASSUME NEW x \in Engines PROVE entry[x].epoch < n /\ entry[x].epoch \in Nat
  <2>1. entry[x] \in Marks
    BY DEF Types
  <2> QED BY <1>5, <2>1, EntryFields DEF Fenced
<1>7. ASSUME NEW m \in late, Starting(m) PROVE m.epoch < n /\ m.epoch \in Nat
  BY <1>5, <1>7 DEF Fenced, Types, Commands
<1>8. Fenced'
  BY <1>1, <1>5, <1>6, <1>7 DEF Fenced, Entitled, Owns, Starting
<1> QED BY <1>1, <1>3, <1>4, <1>8

LEMMA TransferOwnerKeeps ==
  ASSUME IInv, TransferOwner
  PROVE  IInv'
<1> USE DEF IInv
<1>1. UNCHANGED <<default, process, entry, archive, late>> /\ host.at = "transfer"
  BY DEF TransferOwner, At, processVars, engineVars
<1>2. /\ Src \in Engines /\ Src # default /\ Tgt = default /\ Tgt \in Engines /\ Engines = {Tgt, Src}
      /\ host.epoch \in Nat /\ durable.epoch \in Nat /\ durable.epoch >= 1
  BY <1>1, TwoEngines DEF Types, Tgt, Passes, Relied, Before
<1>m. MayTransfer(Src, host.epoch) => Owns(Src, host.epoch) /\ lease = Src
  BY Owned DEF MayTransfer
<1>3. PICK n \in Nat, src \in Engines, dst \in Engines : n = host.epoch /\ src = Src /\ dst = Tgt
  BY <1>2
<1>4. n + 1 \in Nat /\ n + 2 \in Nat /\ Token(dst, n + 1).epoch = n + 1
      /\ Token(dst, n + 1) \in [engine : Engines \cup {None}, epoch : Nat]
      /\ Token(src, n + 2) \in [engine : Engines \cup {None}, epoch : Nat]
  BY DEF Token
<1>5. CASE /\ MayTransfer(Src, host.epoch) /\ NoFault /\ Goto("activate")
           /\ durable' = Owner(dst, n + 1) /\ tracked' = Token(dst, n + 1) /\ lease' = dst
  <2>1. host' \in Passes /\ host'.at = "activate" /\ host'.epoch = host.epoch
    BY <1>5, HostGoes DEF HostSteps
  <2>2. faults' = faults /\ faults' \in Nat
    BY <1>5, NoFaultIs
  <2>3. durable.held /\ durable.epoch = n /\ durable.engine = Src
    BY <1>m, <1>3, <1>5 DEF Owns
  <2>4. /\ Types' /\ Fenced' /\ Src' = Src /\ Tgt' = Tgt
        /\ durable'.engine = dst /\ durable'.epoch = n + 1 /\ durable'.held
    BY <1>1, <1>2, <1>4, <1>5, <2>1, <2>2, <2>3, NewOwner
  <2>5. entry[Tgt].at = "none" /\ (entry[Src].at \in Copies => entry[Src].view = archive)
    BY <1>1, <2>3 DEF Moving
  <2>6. Copied'
    BY <1>1, <1>3, <2>4, <2>5 DEF Copied, Copies
  <2>7. tracked' = DurableToken'
    BY <1>5, <2>4 DEF Token, DurableToken
  <2>8. Relied'
    BY <1>2, <1>3, <1>5, <2>1, <2>4, <2>7 DEF Relied, Before, After, Owns, Entitled
  <2>9. Moving'
    <3>1. Reaches(archive, n + 1)
      BY DEF Reaches, Types
    <3>2. entry[Src].at \in Copies => Reaches(entry[Src].view, durable.epoch)'
      BY <1>1, <2>4, <2>5, <3>1 DEF Reaches
    <3> QED BY <1>1, <2>1, <2>4, <2>5, <3>2 DEF Moving
  <2>10. Smooth'
    BY <1>1, <1>3, <1>5, <2>1, <2>2, <2>3, <2>4, <2>7 DEF Smooth, SrcParked, Tidy, After
  <2> QED BY <2>4, <2>6, <2>8, <2>9, <2>10
<1>6. CASE ~MayTransfer(Src, host.epoch) /\ NoFault /\ Goto("drop") /\ UNCHANGED authorityVars
  <2>1. host' \in Passes /\ host'.at = "drop" /\ host'.epoch = host.epoch /\ host'.paused = host.paused
    BY <1>6, HostGoes DEF HostSteps
  <2>2. faults' = faults /\ faults' \in Nat /\ UNCHANGED <<lease, durable, tracked>>
    BY <1>6, NoFaultIs DEF authorityVars
  <2>3. Types' /\ Fenced' /\ Copied' /\ Src' = Src /\ Tgt' = Tgt
    BY <1>1, <2>1, <2>2, HostGoesOn
  <2>4. Relied' /\ Moving'
    BY <1>1, <2>1, <2>2, <2>3 DEF Relied, Moving, Before, After, Owns
  <2>5. Smooth'
    BY <1>1, <2>1, <2>2, <2>3 DEF Smooth, SrcParked, Owns, Tidy, After
  <2> QED BY <2>3, <2>4, <2>5
<1>7. ASSUME MayTransfer(Src, host.epoch), Fault, Goto("drop"), lease' = lease,
             tracked' \in {tracked, Token(dst, n + 1), Token(src, n + 2)},
             durable' \in {durable, Owner(dst, n + 1), Owner(src, n + 2)},
             durable' = durable => tracked' = tracked
      PROVE  IInv'
  <2>1. host' \in Passes /\ host'.at = "drop" /\ faults' \in Nat /\ faults' # 0
    BY <1>7, HostGoes, FaultIs DEF HostSteps
  <2>2. durable.held /\ durable.epoch = n /\ durable.engine = Src /\ lease = Src
    BY <1>m, <1>3, <1>7 DEF Owns
  <2>3. entry[Tgt].at = "none" /\ (entry[Src].at \in Copies => entry[Src].view = archive)
    BY <1>1, <2>2 DEF Moving
  <2>4. lease' \in Engines \cup {None} /\ tracked' \in [engine : Engines \cup {None}, epoch : Nat]
    BY <1>4, <1>7 DEF Types
  <2>5. Types' /\ Fenced' /\ Src' = Src /\ Tgt' = Tgt /\ Copied' /\ durable'.epoch >= 1
    <3>1. CASE durable' = durable
      <4>1. Types' /\ Fenced' /\ Copied' /\ Src' = Src /\ Tgt' = Tgt
        BY <1>1, <1>7, <2>1, <3>1, HostGoesOn
      <4> QED BY <1>2, <3>1, <4>1
    <3>2. CASE durable' = Owner(dst, n + 1)
      <4>1. /\ Types' /\ Fenced' /\ Src' = Src /\ Tgt' = Tgt
            /\ durable'.engine = dst /\ durable'.epoch = n + 1 /\ durable'.held
        BY <1>1, <1>2, <1>4, <2>1, <2>2, <2>4, <3>2, NewOwner
      <4>2. Copied'
        BY <1>1, <1>3, <2>3, <4>1 DEF Copied, Copies
      <4> QED BY <4>1, <4>2
    <3>3. CASE durable' = Owner(src, n + 2)
      <4>1. /\ Types' /\ Fenced' /\ Src' = Src /\ Tgt' = Tgt
            /\ durable'.engine = src /\ durable'.epoch = n + 2 /\ durable'.held
        BY <1>1, <1>2, <1>4, <2>1, <2>2, <2>4, <3>3, NewOwner
      <4>2. Copied'
        BY <1>1, <1>3, <2>3, <4>1 DEF Copied, Copies
      <4> QED BY <4>1, <4>2
    <3> QED BY <1>7, <3>1, <3>2, <3>3
  <2>6. Relied' /\ Moving' /\ Smooth'
    BY <1>7, <2>1, <2>2, <2>5 DEF Relied, Moving, Smooth, Before, After
  <2> QED BY <2>5, <2>6
<1>8. Faults(2) => faults' \in Nat /\ faults' # 0
  BY FaultsAre
<1>9. CASE MayTransfer(Src, host.epoch) /\ Faults(2) /\ Goto("drop")
           /\ durable' = Owner(dst, n + 1) /\ tracked' = Token(dst, n + 1) /\ lease' = lease
  <2>1. host' \in Passes /\ host'.at = "drop" /\ faults' \in Nat /\ faults' # 0
    BY <1>8, <1>9, HostGoes DEF HostSteps
  <2>2. durable.held /\ durable.epoch = n /\ durable.engine = Src /\ lease = Src
    BY <1>m, <1>3, <1>9 DEF Owns
  <2>3. lease' \in Engines \cup {None} /\ tracked' \in [engine : Engines \cup {None}, epoch : Nat]
    BY <1>4, <1>9 DEF Types
  <2>4. /\ Types' /\ Fenced' /\ Src' = Src /\ Tgt' = Tgt
        /\ durable'.engine = dst /\ durable'.epoch = n + 1 /\ durable'.held
    BY <1>1, <1>2, <1>4, <1>9, <2>1, <2>2, <2>3, NewOwner
  <2>5. Copied'
    BY <1>1, <1>3, <2>2, <2>4 DEF Copied, Copies, Moving
  <2>6. Relied' /\ Moving' /\ Smooth'
    BY <1>2, <1>9, <2>1, <2>2, <2>4 DEF Relied, Moving, Smooth, Before, After
  <2> QED BY <2>4, <2>5, <2>6
<1>10. Transfer(src, n, dst, "activate", "drop")
  BY <1>3 DEF TransferOwner
<1>11. CASE /\ MayTransfer(src, n) /\ Fault /\ Goto("drop")
            /\ durable' \in {durable, Owner(dst, n + 1)} /\ UNCHANGED <<tracked, lease>>
  BY <1>3, <1>7, <1>11
<1>12. CASE /\ MayTransfer(src, n) /\ Fault /\ Goto("drop")
            /\ durable' = Owner(src, n + 2) /\ tracked' = Token(src, n + 2) /\ UNCHANGED lease
  <2>1. durable' # durable
    BY <1>m, <1>3, <1>12 DEF Owner, Owns
  <2> QED BY <1>3, <1>7, <1>12, <2>1
<1> QED BY <1>3, <1>5, <1>6, <1>9, <1>10, <1>11, <1>12 DEF Transfer

LEMMA RollbackOwnerKeeps ==
  ASSUME IInv, RollbackOwner
  PROVE  IInv'
<1> USE DEF IInv
<1>1. UNCHANGED <<default, process, entry, archive, late>> /\ host.at = "rollback"
  BY DEF RollbackOwner, At, processVars, engineVars
<1>2. /\ Src \in Engines /\ Src # default /\ Tgt = default /\ Tgt \in Engines /\ Engines = {Tgt, Src}
      /\ host.epoch \in Nat /\ durable.epoch \in Nat /\ durable.epoch >= 1
      /\ durable.held => Owns(Tgt, host.epoch + 1)
  BY <1>1, TwoEngines DEF Types, Tgt, Passes, Relied, After
<1>3. PICK n \in Nat, src \in Engines, dst \in Engines : n = host.epoch + 1 /\ src = Tgt /\ dst = Src
  BY <1>2
<1>m. MayTransfer(src, n) => durable.held /\ durable.epoch = n /\ durable.engine = Tgt
  BY <1>3, Owned DEF MayTransfer, Owns
<1>4. /\ n + 1 \in Nat /\ n + 2 \in Nat
      /\ Token(dst, n + 1) \in [engine : Engines \cup {None}, epoch : Nat]
      /\ Token(src, n + 2) \in [engine : Engines \cup {None}, epoch : Nat]
  BY DEF Token
\* The source's copy is behind what the target wrote, and by no more.
<1>5. ASSUME durable.held, durable.epoch = n, durable' = Owner(dst, n + 1),
             lease' \in Engines \cup {None},
             tracked' \in [engine : Engines \cup {None}, epoch : Nat],
             host' \in Passes, faults' \in Nat
      PROVE  /\ Types' /\ Fenced' /\ Copied' /\ Src' = Src /\ Tgt' = Tgt
             /\ durable'.engine = dst /\ durable'.epoch = n + 1 /\ durable'.held
  <2>1. /\ Types' /\ Fenced' /\ Src' = Src /\ Tgt' = Tgt
        /\ durable'.engine = dst /\ durable'.epoch = n + 1 /\ durable'.held
    BY <1>1, <1>2, <1>4, <1>5, NewOwner
  <2>2. entry[Src].at \in Copies => /\ Reaches(entry[Src].view, durable.epoch)
                                    /\ entry[Src].view = archive \/ Strayed(Tgt)
    BY <1>1, <1>5 DEF Moving, After
  <2>3. Copied'
    <3>1. SUFFICES ASSUME entry[Src].at \in Copies, entry[Src].view # archive
                   PROVE  /\ Reaches(entry[durable.engine].view, durable.epoch - 1)'
                          /\ \A o \in Engines \ {Src} : Strayed(o)'
      BY <1>1, <1>3, <2>1 DEF Copied
    <3>2. durable'.epoch - 1 = durable.epoch
      BY <1>2, <1>5, <2>1
    <3>3. Reaches(entry[durable.engine].view, durable.epoch - 1)'
      BY <1>1, <1>3, <2>1, <2>2, <3>1, <3>2 DEF Reaches
    <3>4. ASSUME NEW o \in Engines \ {Src} PROVE Strayed(o)'
      BY <1>1, <1>2, <2>2, <3>1, <3>4 DEF Strayed, Over
    <3> QED BY <3>3, <3>4
  <2> QED BY <2>1, <2>3
<1>6. CASE /\ MayTransfer(src, n) /\ NoFault /\ Goto("resume")
           /\ durable' = Owner(dst, n + 1) /\ tracked' = Token(dst, n + 1) /\ lease' = dst
  <2>1. host' \in Passes /\ host'.at = "resume" /\ host'.epoch = host.epoch
    BY <1>6, HostGoes DEF HostSteps
  <2>2. faults' = faults /\ faults' \in Nat
    BY <1>6, NoFaultIs
  <2>3. /\ Types' /\ Fenced' /\ Copied' /\ Src' = Src /\ Tgt' = Tgt
        /\ durable'.engine = dst /\ durable'.epoch = n + 1 /\ durable'.held
    BY <1>m, <1>4, <1>5, <1>6, <2>1, <2>2
  <2>4. tracked' = DurableToken' /\ n + 1 = host.epoch + 2
    BY <1>2, <1>3, <1>6, <2>3 DEF Token, DurableToken
  <2>5. Relied'
    BY <1>2, <1>3, <1>6, <2>1, <2>3, <2>4 DEF Relied, Before, After, Owns, Entitled
  <2>6. Moving'
    BY <2>1 DEF Moving, After
  <2>7. Smooth'
    BY <1>m, <1>1, <1>3, <1>6, <2>1, <2>2, <2>3, <2>4 DEF Smooth, SrcParked, Owns, Tidy, After
  <2> QED BY <2>3, <2>5, <2>6, <2>7
<1>7. CASE ~MayTransfer(src, n) /\ NoFault /\ Goto("retire") /\ UNCHANGED authorityVars
  <2>1. host' \in Passes /\ host'.at = "retire"
    BY <1>7, HostGoes DEF HostSteps
  <2>2. faults' = faults /\ faults' \in Nat /\ UNCHANGED <<lease, durable, tracked>>
    BY <1>7, NoFaultIs DEF authorityVars
  <2>3. Types' /\ Fenced' /\ Copied' /\ Src' = Src /\ Tgt' = Tgt
    BY <1>1, <2>1, <2>2, HostGoesOn
  <2>4. Relied' /\ Moving'
    BY <2>1 DEF Relied, Moving, Before, After
  <2>5. faults = 0 => ~durable.held
    <3>1. SUFFICES ASSUME faults = 0, durable.held PROVE FALSE
      OBVIOUS
    <3>2. Owns(Tgt, n) /\ tracked = DurableToken /\ lease = Tgt
      BY <1>1, <1>2, <1>3, <3>1 DEF Smooth, After
    <3>3. OwnedBy(src, n) /\ tracked = Token(src, n) /\ lease = src
      BY <1>3, <3>2, Owned DEF Owns, DurableToken, Token
    <3> QED BY <1>7, <3>3 DEF MayTransfer
  <2>6. Smooth'
    BY <1>1, <2>1, <2>2, <2>5 DEF Smooth, After
  <2> QED BY <2>3, <2>4, <2>6
<1>8. ASSUME host' \in Passes, host'.at = "retire", faults' \in Nat, faults' # 0,
             Types' /\ Fenced' /\ Copied'
      PROVE  IInv'
  BY <1>8 DEF Relied, Moving, Smooth, Before, After
<1>9. (Fault \/ Faults(2)) /\ Goto("retire") =>
        host' \in Passes /\ host'.at = "retire" /\ faults' \in Nat /\ faults' # 0
  BY HostGoes, FaultIs, FaultsAre DEF HostSteps
<1>10. CASE /\ MayTransfer(src, n) /\ Fault /\ Goto("retire")
            /\ durable' \in {durable, Owner(dst, n + 1)} /\ UNCHANGED <<tracked, lease>>
  <2>1. lease' \in Engines \cup {None} /\ tracked' \in [engine : Engines \cup {None}, epoch : Nat]
    BY <1>10 DEF Types
  <2>2. CASE durable' = durable
    BY <1>1, <1>8, <1>9, <1>10, <2>2, HostGoesOn
  <2>3. CASE durable' = Owner(dst, n + 1)
    BY <1>m, <1>5, <1>8, <1>9, <1>10, <2>1, <2>3
  <2> QED BY <1>10, <2>2, <2>3
<1>11. CASE /\ MayTransfer(src, n) /\ Fault /\ Goto("retire")
            /\ durable' = Owner(src, n + 2) /\ tracked' = Token(src, n + 2) /\ UNCHANGED lease
  <2>1. lease' \in Engines \cup {None}
    BY <1>11 DEF Types
  <2>2. /\ Types' /\ Fenced' /\ Src' = Src /\ Tgt' = Tgt
        /\ durable'.engine = src /\ durable'.epoch = n + 2 /\ durable'.held
    BY <1>m, <1>1, <1>2, <1>4, <1>9, <1>11, <2>1, NewOwner
  <2>3. Copied'
    BY <1>m, <1>1, <1>3, <1>11, <2>2 DEF Copied, Copies, Moving, After
  <2> QED BY <1>8, <1>9, <1>11, <2>2, <2>3
<1>12. CASE /\ MayTransfer(src, n) /\ Faults(2) /\ Goto("retire")
            /\ durable' = Owner(dst, n + 1) /\ tracked' = Token(dst, n + 1) /\ UNCHANGED lease
  <2>1. lease' \in Engines \cup {None}
    BY <1>12 DEF Types
  <2> QED BY <1>m, <1>4, <1>5, <1>8, <1>9, <1>12, <2>1
<1>13. Transfer(src, n, dst, "resume", "retire")
  BY <1>3 DEF RollbackOwner
<1> QED BY <1>6, <1>7, <1>10, <1>11, <1>12, <1>13 DEF Transfer

-----------------------------------------------------------------------------
(* Retirement, and what comes between two passes.                          *)

LEMMA BeginDrainKeeps ==
  ASSUME IInv, BeginDrain
  PROVE  IInv'
<1> USE DEF IInv
<1>1. /\ UNCHANGED <<default, process, lease, durable, tracked, entry, archive, late>>
      /\ host.at = "drain" /\ entry[Src].at # "claimed" /\ lease # Src
  BY DEF BeginDrain, At, authorityVars, engineVars, Relied
<1>2. host' \in Passes /\ host'.at \in {"count", "idle"} /\ faults' \in Nat /\ (faults' = 0 => faults = 0)
  BY HostGoes, IdleFields, NoFaultIs, FaultIs DEF BeginDrain, Abandon, HostSteps
<1>3. Types' /\ Fenced' /\ Copied' /\ Src' = Src /\ Tgt' = Tgt
  BY <1>1, <1>2, HostGoesOn
<1>4. Relied' /\ Moving'
  BY <1>1, <1>2, <1>3 DEF Relied, Moving, Before, After
<1>5. Smooth'
  BY <1>1, <1>2 DEF Smooth, Serves, Tidy, HostSteps, After
<1> QED BY <1>3, <1>4, <1>5

LEMMA MarkDormantKeeps ==
  ASSUME IInv, MarkDormant
  PROVE  IInv'
<1> USE DEF IInv
<1>1. UNCHANGED <<default, process, lease, durable, tracked, entry, archive, late>> /\ host.at = "dormant"
  BY DEF MarkDormant, At, authorityVars, engineVars
<1>2. host' \in Passes /\ host'.at = "idle" /\ faults' \in Nat /\ (faults' = 0 => faults = 0)
  BY IdleFields, NoFaultIs, FaultIs DEF MarkDormant, Abandon
<1>3. Types' /\ Fenced' /\ Copied' /\ Src' = Src /\ Tgt' = Tgt
  BY <1>1, <1>2, HostGoesOn
<1>4. Relied' /\ Moving'
  BY <1>2 DEF Relied, Moving, Before, After
<1>5. Smooth'
  BY <1>1, <1>2 DEF Smooth, Serves, Tidy, HostSteps, After
<1> QED BY <1>3, <1>4, <1>5

\* Where the lease is gone and no Recording is reported, no worker owns anything.
LEMMA StopEngineKeeps ==
  ASSUME IInv, StopEngine
  PROVE  IInv'
<1> USE DEF IInv
<1>1. /\ UNCHANGED <<default, lease, durable, tracked, archive>> /\ host.at = "stop"
      /\ process' = [process EXCEPT ![Src] = "stopped"]
      /\ entry' = [entry EXCEPT ![Src] = NoEntry]
      /\ late' \subseteq late
  BY DEF StopEngine, At, authorityVars
<1>2. host' \in Passes /\ host'.at = "dormant" /\ faults' = faults /\ faults' \in Nat
  BY HostGoes, NoFaultIs DEF StopEngine, HostSteps
<1>3. lease # Src /\ ~Reported(Src) /\ Src \in Engines
  BY <1>1, TwoEngines DEF Relied, Types
<1>4. /\ entry' \in [Engines -> Marks] /\ entry'[Src] = NoEntry
      /\ \A x \in Engines \ {Src} : entry'[x] = entry[x]
      /\ process' \in [Engines -> {"running", "stopped"}]
  BY <1>1, <1>3, NoEntryFields DEF Types
<1>5. Types'
  BY <1>1, <1>2, <1>4 DEF Types
<1>6. Fenced'
  BY <1>1, <1>3, <1>4, NoEntryFields DEF Fenced, Entitled, Owns, DurableToken, Types
<1>7. Copied'
  <2>1. SUFFICES ASSUME durable.held, entry'[durable.engine].at \in Copies
                 PROVE  \/ entry'[durable.engine].view = archive
                        \/ /\ Reaches(entry[durable.engine].view, durable.epoch - 1)'
                           /\ \A o \in Engines \ {durable.engine} : Strayed(o)'
    BY <1>1 DEF Copied
  <2>2. durable.engine \in Engines /\ durable.engine # Src /\ entry'[durable.engine] = entry[durable.engine]
    BY <1>4, <2>1, NoEntryFields DEF Fenced, Copies
  <2>3. ASSUME NEW o \in Engines \ {durable.engine}, Strayed(o) PROVE Strayed(o)'
    BY <1>1, <1>3, <1>4, <2>2, <2>3 DEF Strayed, Over, Reported
  <2>4. Reaches(entry[durable.engine].view, durable.epoch - 1) => Reaches(entry[durable.engine].view, durable.epoch - 1)'
    BY <1>1, <2>2 DEF Reaches
  <2> QED BY <2>1, <2>2, <2>3, <2>4 DEF Copied
<1>8. Relied' /\ Moving'
  BY <1>2 DEF Relied, Moving, Before, After
<1>9. Smooth'
  <2>1. SUFFICES ASSUME faults = 0, durable.held PROVE Serves(Settled)'
    BY <1>1, <1>2 DEF Smooth, After
  <2>2. Serves(Settled) /\ durable.engine \in Engines
    BY <1>1, <2>1 DEF Smooth, Fenced, Tidy, HostSteps, After
  <2>3. durable.engine # Src
    BY <1>3, <2>1, <2>2 DEF Serves, Fenced, Entitled, Owns
  <2> QED BY <1>1, <1>4, <2>2, <2>3 DEF Serves
<1> QED BY <1>5, <1>6, <1>7, <1>8, <1>9

LEMMA SwitchKeeps ==
  ASSUME IInv, NEW e \in Engines, Switch(e)
  PROVE  IInv'
<1> USE DEF IInv
<1>1. /\ UNCHANGED <<lease, durable, tracked, entry, archive, late, host>> /\ host.at = "idle"
      /\ default' = e /\ process' = [process EXCEPT ![e] = "running"]
      /\ faults' = faults /\ faults' \in Nat
  BY NoFaultIs DEF Switch, At, authorityVars, engineVars
<1>2. Types'
  BY <1>1 DEF Types
<1>3. Fenced'
  BY <1>1 DEF Fenced, Entitled, Owns, DurableToken
<1>4. Copied'
  BY <1>1 DEF Copied, Reaches, Strayed, Over
<1>5. Relied' /\ Moving'
  BY <1>1 DEF Relied, Moving, Before, After
<1>6. Smooth'
  BY <1>1 DEF Smooth, Serves, Tidy, HostSteps, After
<1> QED BY <1>2, <1>3, <1>4, <1>5, <1>6

-----------------------------------------------------------------------------
(* The invariant and what follows from it.                                 *)

LEMMA InitIInv == Init => IInv
<1> SUFFICES ASSUME Init PROVE IInv
  OBVIOUS
<1>1. /\ ~durable.held /\ durable.epoch = 0 /\ archive = <<>> /\ late = {} /\ faults = 0
      /\ host \in Passes /\ host.at = "idle" /\ ~host.paused
      /\ \A e \in Engines : entry[e] = NoEntry
  BY IdleFields DEF Init
<1>2. Types
  <2>1. process \in [Engines -> {"running", "stopped"}] /\ entry \in [Engines -> Marks]
    BY NoEntryFields DEF Init
  <2>2. tracked \in [engine : Engines \cup {None}, epoch : Nat]
    BY DEF Init, NoToken, Token
  <2> QED BY <1>1, <2>1, <2>2 DEF Init, Types
<1>3. Fenced
  BY <1>1, NoEntryFields DEF Fenced, Entitled, Owns
<1>4. Copied /\ Relied /\ Moving /\ Smooth
  BY <1>1 DEF Copied, Relied, Moving, Smooth, Before, After
<1> QED BY <1>2, <1>3, <1>4 DEF IInv

LEMMA StepKeepsIInv == IInv /\ [Next]_vars => IInv'
<1> SUFFICES ASSUME IInv, [Next]_vars PROVE IInv'
  OBVIOUS
<1>1. ASSUME NEW e \in Engines, Worker(e) PROVE IInv'
  <2>1. CASE Claim(e)
    BY <2>1, ClaimKeeps
  <2>2. CASE StartWorker(e)
    BY <2>2, StartWorkerKeeps
  <2>3. CASE Release(e)
    BY <2>3, ReleaseKeeps
  <2>4. CASE Commit(e)
    <3>1. Write(e, Segment, entry[e].at)
      BY <2>4 DEF Commit
    <3>2. PICK at : at = entry[e].at
      OBVIOUS
    <3>3. Write(e, Segment, at)
      BY <3>1, <3>2
    <3> QED BY <3>2, <3>3, WriteKeeps
  <2>5. CASE Finish(e)
    BY <2>5, WriteKeeps DEF Finish
  <2>6. CASE Park(e)
    BY <2>6, ParkKeeps
  <2> QED BY <1>1, <2>1, <2>2, <2>3, <2>4, <2>5, <2>6 DEF Worker
<1>2. ASSUME NEW e \in Engines, Switch(e) PROVE IInv'
  BY <1>2, SwitchKeeps
<1>3. ASSUME NEW m \in late, LateCall(m) PROVE IInv'
  BY <1>3, LateCallKeeps
<1>4. ASSUME NEW e \in Engines, ReadOne(e) PROVE IInv'
  BY <1>4, ReadOneKeeps
<1>5. CASE Prepare
  BY <1>5, PrepareKeeps, NeedsDrainKeeps DEF Prepare
<1>6. CASE Pass
  BY <1>4, <1>5, <1>6, ReadingKeeps, ReconcileKeeps, CheckKeeps, AskPauseKeeps, AwaitPauseKeeps,
     DiscardKeeps, PrepareDrainedKeeps, TransferOwnerKeeps, ActivateKeeps, DetachKeeps,
     RollbackOwnerKeeps, ResumeKeeps, UndoKeeps, RetireKeeps, BeginDrainKeeps, ProveKeeps,
     StopEngineKeeps, MarkDormantKeeps DEF Pass
<1>7. CASE UNCHANGED vars
  <2>1. UNCHANGED <<default, process, lease, durable, tracked, entry, archive, late, host, faults>>
    BY <1>7 DEF vars
  <2>2. Src' = Src /\ Tgt' = Tgt
    BY <2>1, SameEngines
  <2>3. Types' /\ Fenced' /\ Copied'
    BY <2>1, HostGoesOn DEF IInv, Types
  <2>4. Relied' /\ Moving' /\ Smooth'
    BY <2>1, <2>2 DEF IInv, Relied, Moving, Smooth, Serves, SrcParked, Owns, Entitled, DurableToken,
                      Reported, Reaches, Strayed, Over, After
  <2> QED BY <2>3, <2>4 DEF IInv
<1> QED BY <1>1, <1>2, <1>3, <1>6, <1>7 DEF Next

THEOREM Inductive == Spec => []IInv
<1>1. Init => IInv
  BY InitIInv
<1>2. IInv /\ [Next]_vars => IInv'
  BY StepKeepsIInv
<1> QED BY <1>1, <1>2, PTL DEF Spec

\* A worker that may commit is on the Engine the retirement lease names, whichever
\* calls were lost and whichever writes of the authority failed.
THEOREM WritersAreLeased == Spec => []WriterIsLeased
<1>1. IInv => WriterIsLeased
  <2>1. SUFFICES ASSUME IInv, NEW e \in Engines, Writes(e) PROVE lease = e
    BY DEF WriterIsLeased
  <2>2. Owns(e, entry[e].epoch)
    BY <2>1, Owned DEF Writes, Holds, IInv
  <2> QED BY <2>1, <2>2 DEF IInv, Fenced, Entitled
<1> QED BY <1>1, Inductive, PTL

\* Where nothing fails, a pass leaves the owner with a worker that records under
\* the durable token, or that has just ended.
THEOREM NothingStrands == Spec => []NoFaultStrands
<1>1. IInv => NoFaultStrands
  <2>1. SUFFICES ASSUME IInv, host.at = "idle", faults = 0, durable.held
                 PROVE  Holds(durable.engine) /\ entry[durable.engine].at \in {"claimed", "running", "ended"}
    BY DEF NoFaultStrands, At
  <2>2. Serves(Settled)
    BY <2>1 DEF IInv, Smooth, Tidy, HostSteps, After
  <2>3. Owns(durable.engine, entry[durable.engine].epoch)
    BY <2>1, <2>2 DEF Serves, Owns
  <2> QED BY <2>1, <2>2, <2>3, Owned DEF Holds, Serves, Settled, IInv
<1> QED BY <1>1, Inductive, PTL

\* The Host never stops an Engine under a worker that may commit, or under a start
\* that was admitted.
THEOREM EnginesAreKept == Spec => EngineIsKept
<1> DEFINE Kept == \A e \in Engines : process[e] = "running" /\ process'[e] = "stopped" =>
                     ~(entry[e].at \in {"claimed", "running", "asked", "parked"} /\ Holds(e))
<1>1. IInv /\ [Next]_vars => [Kept]_vars
  <2>1. SUFFICES ASSUME IInv, Next, NEW e \in Engines, process[e] = "running", process'[e] = "stopped",
                        Holds(e)
                 PROVE  FALSE
    BY DEF vars
  <2>2. process' # process
    BY <2>1
  <2>3. CASE StopEngine
    <3>1. lease # Src /\ Src \in Engines
      BY <2>1, <2>3, TwoEngines DEF IInv, Relied, StopEngine, At, Types
    <3>2. e = Src
      BY <2>1, <2>3, <3>1 DEF StopEngine, IInv, Types
    <3>3. Owns(e, entry[e].epoch)
      BY <2>1, Owned DEF Holds, IInv
    <3> QED BY <2>1, <3>1, <3>2, <3>3 DEF IInv, Fenced, Entitled
  <2>4. ASSUME NEW x \in Engines, Switch(x) PROVE FALSE
    BY <2>1, <2>4 DEF Switch, IInv, Types
  <2>5. Next => StopEngine \/ (\E x \in Engines : Switch(x)) \/ UNCHANGED process
    BY DEF Next, Pass, Worker, BeginPass, ReadFails, ReadAll, Reconcile, ReadOne, Check, Prepare, NeedsDrain,
           PrepareWith, AskPause, AwaitPause, Discard, PrepareDrained, TransferOwner, Activate, Detach,
           RollbackOwner, Resume, Undo, Retire, BeginDrain, Prove, MarkDormant, Claim, StartWorker,
           Release, Commit, Finish, Write, Park, LateCall, HostOnly, Others, processVars
  <2> QED BY <2>1, <2>2, <2>3, <2>4, <2>5
<1> QED BY <1>1, Inductive, PTL DEF Spec, EngineIsKept

\* A write of the archive root keeps all of it but what a target wrote before its
\* activation was rolled back.
THEOREM RootIsKept == Spec => OnlyRolledBackIsLost
<1> DEFINE Kept == \A i \in DOMAIN archive : Remains(i) \/ archive[i].epoch = LastEpoch(archive') - 1
<1>1. IInv /\ [Next]_vars => [Kept]_vars
  <2>1. SUFFICES ASSUME IInv, Next PROVE Kept
    BY DEF vars
  <2>2. archive \in Seq(Written)
    BY <2>1 DEF IInv, Types
  <2>3. CASE UNCHANGED archive
    BY <2>2, <2>3 DEF Remains
  <2>4. ASSUME NEW e \in Engines, NEW what \in {Segment, End}, NEW at, Write(e, what, at) PROVE Kept
    <3>1. CASE ~Holds(e)
      BY <2>3, <2>4, <3>1 DEF Write
    <3>2. CASE Holds(e)
      <4>1. entry[e] \in Marks /\ durable.epoch \in Nat
        BY <2>1 DEF IInv, Types
      <4>2. PICK x \in Written : x = [what |-> what, epoch |-> entry[e].epoch]
        BY <4>1, EntryFields DEF Written
      <4>3. PICK v \in Seq(Written) : v = entry[e].view
        BY <4>1, EntryFields
      <4>4. archive' = Append(v, x) /\ entry[e].at \in Copies
        BY <2>4, <3>2, <4>2, <4>3 DEF Write, Copies
      <4>5. Owns(e, entry[e].epoch)
        BY <2>1, <3>2, Owned DEF Holds, IInv
      <4>6. durable.held /\ durable.engine = e /\ x.epoch = durable.epoch
        BY <4>2, <4>5 DEF Owns
      <4>7. /\ Len(archive') = Len(v) + 1 /\ Len(v) \in Nat /\ archive'[Len(archive')] = x /\ archive' # <<>>
            /\ \A i \in 1 .. Len(v) : archive'[i] = v[i]
        BY <4>4
      <4>8. LastEpoch(archive') = durable.epoch
        BY <4>6, <4>7 DEF LastEpoch, Last
      <4>9. v = archive \/ Reaches(v, durable.epoch - 1)
        BY <2>1, <4>3, <4>4, <4>6 DEF IInv, Copied
      <4>10. CASE v = archive
        BY <2>2, <4>7, <4>10 DEF Remains
      <4>11. CASE Reaches(v, durable.epoch - 1)
        <5>1. SUFFICES ASSUME NEW i \in DOMAIN archive PROVE Remains(i) \/ archive[i].epoch = durable.epoch - 1
          BY <4>8
        <5>2. i \in 1 .. Len(archive) /\ Len(archive) \in Nat
          BY <2>2
        <5>3. i \in 1 .. Len(v) \/ i \in Len(v) + 1 .. Len(archive)
          BY <4>7, <5>2
        <5>4. CASE i \in 1 .. Len(v)
          BY <4>7, <4>11, <5>4 DEF Reaches, Remains
        <5>5. CASE i \in Len(v) + 1 .. Len(archive)
          BY <4>11, <5>5 DEF Reaches
        <5> QED BY <5>3, <5>4, <5>5
      <4> QED BY <4>9, <4>10, <4>11
    <3> QED BY <3>1, <3>2
  <2>5. ASSUME NEW e \in Engines, Worker(e) PROVE Kept
    <3>1. CASE Commit(e)
      <4>1. Write(e, Segment, entry[e].at)
        BY <3>1 DEF Commit
      <4>2. PICK at : at = entry[e].at
        OBVIOUS
      <4>3. Write(e, Segment, at)
        BY <4>1, <4>2
      <4> QED BY <2>4, <4>3
    <3>2. CASE Finish(e)
      BY <2>4, <3>2 DEF Finish
    <3>3. CASE UNCHANGED archive
      BY <2>3, <3>3
    <3> QED BY <2>5, <3>1, <3>2, <3>3 DEF Worker, Claim, StartWorker, Release, Park
  <2>6. Next => UNCHANGED archive \/ \E e \in Engines : Worker(e)
    BY DEF Next, Pass, BeginPass, ReadFails, ReadAll, Reconcile, ReadOne, Check, Prepare, NeedsDrain,
           PrepareWith, AskPause, AwaitPause, Discard, PrepareDrained, TransferOwner, Activate, Detach,
           RollbackOwner, Resume, Undo, Retire, BeginDrain, Prove, StopEngine, MarkDormant,
           LateCall, Switch, HostOnly
  <2> QED BY <2>1, <2>3, <2>5, <2>6
<1> QED BY <1>1, Inductive, PTL DEF Spec, OnlyRolledBackIsLost
=============================================================================
