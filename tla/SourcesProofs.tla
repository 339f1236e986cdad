--------------------------- MODULE SourcesProofs ---------------------------
(***************************************************************************)
(* Theorems about how broadcasts are found and recorded: the Watch that    *)
(* starts a Recording of each (Watch), and the adapter that looks at their *)
(* sources (Adapters).                                                     *)
(*                                                                         *)
(* They hold for any set of workflows, any number of Recordings and        *)
(* broadcasts, and any number of faults, crashes and changes by a user.    *)
(***************************************************************************)
EXTENDS Adapters, MCWatch, FiniteSetTheorems, TLAPS

-----------------------------------------------------------------------------
(* Watch.                                                                  *)

\* The fields that the proofs look at.
IsRuntime(x) == {"active", "pending", "digest", "live", "suppressed", "suppDigest", "outcome"} \subseteq DOMAIN x
IsCheck(x) == {"pc", "base", "id", "digest", "session"} \subseteq DOMAIN x /\ IsRuntime(x.base)
IsScan(x) == {"kind", "base", "seen"} \subseteq DOMAIN x /\ IsRuntime(x.base)
IsRecord(x) ==
  /\ {"state", "session", "known", "notified"} \subseteq DOMAIN x
  /\ x.state \in {"none", "recording", "gone"} \cup Terminal

WatchShape ==
  /\ IsRuntime(rt) /\ IsCheck(chk) /\ IsScan(rc)
  /\ DOMAIN recs = Ids /\ \A id \in Ids : IsRecord(recs[id])

\* The Recording was started and does not record any more.
Ended(id) == recs[id].state \in Terminal \cup {"gone"}

\* The Recording records or may be about to, and the Watch did not give up its start.
Records(id) == id \notin abandoned /\ (id \in calls \/ recs[id].state = "recording")

\* A start has an id of its own, which the Engine does not know before the call.
StartsAreNew ==
  /\ fresh \in Nat \ {0} /\ calls \cup notices \subseteq Ids
  /\ \A id \in Ids : id >= fresh => id \notin calls /\ ~Started(id)
  /\ \A id \in calls : recs[id].state = "none"
  /\ \A id \in notices : Ended(id)
  /\ chk.pc \in {"claimed", "start"} => chk.id \in Ids /\ claimed = chk.id
  /\ chk.pc = "claimed" => chk.id < fresh /\ chk.id \notin calls /\ ~Started(chk.id)
  /\ svc \in {"down", "recovering"} => chk.pc \in {"none", "queued"}

Unborn ==
  def = "new" => /\ calls = {} /\ \A id \in Ids : ~Started(id)
                 /\ chk.pc \notin {"claim", "claimed", "start"}

\* What records is the active or the pending Recording of the Runtime, and one of
\* the two is none: so it is one, and it stays so when the Watch is deleted.
LinksAgree ==
  /\ \A i, j \in Ids : Records(i) /\ Records(j) => i = j
  /\ Exists => /\ rt.active = 0 \/ rt.pending = 0
               /\ rt.pending \in {0} \cup Ids
               /\ rt.active # 0 => rt.active \in Ids /\ Started(rt.active)
               /\ \A id \in Ids : Records(id) => id \in {rt.active, rt.pending}
               /\ chk.pc = "start" => rt.pending = chk.id

\* What the link reconciliation saw at an end has ended since.
SnapshotAgrees ==
  rc.kind = "links" =>
    /\ rc.base.pending = 0 /\ rc.base.active \in Ids /\ Started(rc.base.active)
    /\ rc.seen = "recording" \/ Ended(rc.base.active)

Calm == "stale" \notin harm
WatchInv == WatchShape /\ StartsAreNew /\ Unborn /\ (Calm => LinksAgree /\ SnapshotAgrees)

Form(r, a, p) == IsRuntime(r) /\ r.active = a /\ r.pending = p

LEMMA NewForms == Form(NewRuntime, 0, 0) /\ IsCheck(NoCheck) /\ IsScan(NoScan) /\ IsRecord(NoRecording)
                  /\ NoCheck.pc = "none" /\ NoScan.kind = "none" /\ NoRecording.state = "none"
                  /\ \A p : Form([NewRuntime EXCEPT !.pending = p], 0, p)
<1>1. NewRuntime.active = 0 /\ NewRuntime.pending = 0 /\ IsRuntime(NewRuntime)
  BY DEF NewRuntime, IsRuntime
<1>5. ASSUME NEW p PROVE Form([NewRuntime EXCEPT !.pending = p], 0, p)
  BY DEF NewRuntime, IsRuntime, Form
<1>2. /\ IsRecord(NoRecording) /\ NoRecording.state = "none"
  BY DEF NoRecording, IsRecord
<1>3. IsScan(NoScan) /\ NoScan.kind = "none"
  BY <1>1 DEF NoScan, IsScan
<1>4. IsCheck(NoCheck) /\ NoCheck.pc = "none"
  BY <1>1 DEF NoCheck, IsCheck
<1> QED BY <1>1, <1>2, <1>3, <1>4, <1>5 DEF Form

LEMMA RuntimeForms ==
  ASSUME NEW r, IsRuntime(r)
  PROVE  /\ Form(r, r.active, r.pending) /\ Form(Idle(r), r.active, r.pending)
         /\ Form(Unpend(r), r.active, 0) /\ Form(Unlink(r), 0, r.pending) /\ Form([r EXCEPT !.pending = 0], r.active, 0)
         /\ \A s : Form([Unlink(r) EXCEPT !.outcome = s], 0, r.pending)
         /\ \A p : Form([r EXCEPT !.starting = TRUE, !.pending = p], r.active, p)
         /\ \A a : Form([Unpend(r) EXCEPT !.active = a, !.outcome = "none"], a, 0)
         /\ \A d : Form([Unlink(r) EXCEPT !.pending = 0, !.suppressed = TRUE, !.suppDigest = d, !.outcome = "stopped"], 0, 0)
<1>1. Form(r, r.active, r.pending) /\ Form(Idle(r), r.active, r.pending)
  BY DEF IsRuntime, Form, Idle
<1>2. Form(Unpend(r), r.active, 0) /\ Form([r EXCEPT !.pending = 0], r.active, 0)
  BY DEF IsRuntime, Form, Unpend
<1>3. Form(Unlink(r), 0, r.pending)
  BY DEF IsRuntime, Form, Unlink
<1>4. ASSUME NEW s PROVE Form([Unlink(r) EXCEPT !.outcome = s], 0, r.pending)
  BY DEF IsRuntime, Form, Unlink
<1>5. ASSUME NEW p PROVE Form([r EXCEPT !.starting = TRUE, !.pending = p], r.active, p)
  BY DEF IsRuntime, Form
<1>6. ASSUME NEW a PROVE Form([Unpend(r) EXCEPT !.active = a, !.outcome = "none"], a, 0)
  BY DEF IsRuntime, Form, Unpend
<1>7. ASSUME NEW d
      PROVE  Form([Unlink(r) EXCEPT !.pending = 0, !.suppressed = TRUE, !.suppDigest = d, !.outcome = "stopped"], 0, 0)
  BY DEF IsRuntime, Form, Unlink
<1> QED BY <1>1, <1>2, <1>3, <1>4, <1>5, <1>6, <1>7

LEMMA ObservedForms ==
  ASSUME NEW r, IsRuntime(r), NEW d
  PROVE  Form(Observed(r, d), r.active, r.pending) /\ Form(Unsuppress(r), r.active, r.pending)
<1>1. Form(Unsuppress(r), r.active, r.pending)
  BY DEF IsRuntime, Form, Unsuppress
<1>2. PICK e, b : Observed(r, d) = [r EXCEPT !.digest = e, !.live = TRUE]
                  \/ Observed(r, d) = [r EXCEPT !.digest = e, !.live = TRUE, !.suppressed = FALSE, !.suppDigest = 0,
                                                !.outcome = "none"]
  <2> DEFINE e == IF d = 0 THEN r.digest ELSE d
  <2>1. Observed(r, d) = IF d # 0 /\ r.digest # 0 /\ d # r.digest
                       THEN [[r EXCEPT !.digest = e, !.live = TRUE] EXCEPT !.suppressed = FALSE, !.suppDigest = 0, !.outcome = "none"]
                       ELSE [r EXCEPT !.digest = e, !.live = TRUE]
    BY DEF Observed
  <2> QED BY <2>1 DEF IsRuntime
<1>3. Form(Observed(r, d), r.active, r.pending)
  BY <1>2 DEF IsRuntime, Form
<1> QED BY <1>1, <1>3

\* What the answer of the Engine makes of the pending start and of the active link.
LEMMA ResolvedForms ==
  ASSUME NEW r, IsRuntime(r), NEW seen
  PROVE  /\ seen = "error" => Form(Resolved(r, seen), r.active, r.pending)
         /\ seen = "recording" => Form(Resolved(r, seen), r.pending, 0)
         /\ seen \in Terminal => Form(Resolved(r, seen), 0, 0)
         /\ seen \notin {"error", "recording"} \cup Terminal => Form(Resolved(r, seen), r.active, 0)
         /\ IsRuntime(Resolved(r, seen))
<1>0. seen \in Terminal => seen \notin {"error", "recording"}
  BY DEF Terminal
<1>1. ASSUME NEW a PROVE Form([Unpend(r) EXCEPT !.active = a], a, 0)
  BY DEF IsRuntime, Form, Unpend
<1>2. ASSUME NEW s PROVE Form([Unpend(r) EXCEPT !.active = 0, !.outcome = s], 0, 0)
  BY DEF IsRuntime, Form, Unpend
<1>3. Form(Idle(r), r.active, r.pending) /\ Form(Unpend(r), r.active, 0)
  BY RuntimeForms
<1>4. CASE seen = "error"
  BY <1>0, <1>3, <1>4 DEF Resolved, Form
<1>5. CASE seen = "recording"
  BY <1>0, <1>1, <1>5 DEF Resolved, Form
<1>6. CASE seen \in Terminal
  BY <1>0, <1>2, <1>6 DEF Resolved, Form
<1>7. CASE seen \notin {"error", "recording"} \cup Terminal
  BY <1>3, <1>7 DEF Resolved, Form
<1> QED BY <1>4, <1>5, <1>6, <1>7

LEMMA RelinkedForms ==
  ASSUME NEW r, IsRuntime(r), NEW seen
  PROVE  /\ r.active = 0 \/ seen \in {"recording", "error"} => Form(Relinked(r, seen), r.active, r.pending)
         /\ ~(r.active = 0 \/ seen \in {"recording", "error"}) => Form(Relinked(r, seen), 0, r.pending)
<1>1. /\ Form(Idle(r), r.active, r.pending) /\ Form(Unlink(r), 0, r.pending)
      /\ \A s : Form([Unlink(r) EXCEPT !.outcome = s], 0, r.pending)
  BY RuntimeForms
<1>2. CASE r.active = 0 \/ seen \in {"recording", "error"}
  <2>1. seen \in Terminal => Form(Idle(r), r.active, r.pending) /\ Form([Unlink(r) EXCEPT !.outcome = seen], r.active, r.pending)
    BY <1>1, <1>2 DEF Terminal
  <2>2. Relinked(r, seen) = Idle(r) \/ (seen \in Terminal /\ Relinked(r, seen) = [Unlink(r) EXCEPT !.outcome = seen])
    BY <1>2 DEF Relinked
  <2> QED BY <1>1, <1>2, <2>1, <2>2
<1>3. CASE ~(r.active = 0 \/ seen \in {"recording", "error"})
  <2>1. Relinked(r, seen) = Unlink(r) \/ Relinked(r, seen) = [Unlink(r) EXCEPT !.outcome = seen]
    BY <1>3 DEF Relinked
  <2> QED BY <1>1, <1>3, <2>1
<1> QED BY <1>2, <1>3

LEMMA WatchStarts ==
  ASSUME WatchInit
  PROVE  WatchInv
<1>1. WatchShape
  BY NewForms DEF WatchInit, WatchShape, Form
<1>2. StartsAreNew /\ Unborn
  BY NewForms DEF WatchInit, StartsAreNew, Unborn, Started, Ended
<1>3. LinksAgree /\ SnapshotAgrees
  BY NewForms DEF WatchInit, LinksAgree, SnapshotAgrees, Records, Exists
<1> QED BY <1>1, <1>2, <1>3 DEF WatchInv

-----------------------------------------------------------------------------
(* The steps that leave the Engine alone. *)

\* What the step may do to the links of a Watch that there is: the pending one
\* becomes the active one or is given up, the active one is given up; and what
\* records stays linked.
Moves ==
  /\ rt'.pending \in {0, rt.pending}
  /\ \/ rt'.active \in {0, rt.active}
     \/ rt'.active = rt.pending /\ rt'.pending = 0 /\ rt.pending \in Ids /\ Started(rt.pending)
  /\ \A id \in Ids : Records(id)' /\ id \in {rt.active, rt.pending} => id \in {rt'.active, rt'.pending}
  /\ chk'.pc = "start" => chk.pc = "start" /\ chk'.id = chk.id /\ rt'.pending = rt.pending

\* What the step may do to the job of the Watch.
JobGoesOn ==
  /\ chk'.pc \in {"claimed", "start"} => chk'.pc = chk.pc /\ chk'.id = chk.id /\ claimed' = claimed
  /\ chk'.pc = "claim" => def # "new"
  /\ svc' \in {"down", "recovering"} => chk'.pc \in {"none", "queued"}

LEMMA QuietKeeps ==
  ASSUME WatchInv, UNCHANGED <<calls, fresh>>, abandoned \subseteq abandoned', harm \subseteq harm', notices' \subseteq notices,
         DOMAIN recs' = Ids, \A id \in Ids : IsRecord(recs'[id]) /\ recs'[id].state = recs[id].state,
         def' = def \/ (def # "new" /\ def' # "new" /\ (Exists' => Exists)),
         IsRuntime(rt'), IsCheck(chk'), IsScan(rc'), JobGoesOn,
         rc' = rc \/ rc'.kind # "links" \/ (Calm /\ LinksAgree => SnapshotAgrees'),
         Calm' /\ Exists' /\ LinksAgree /\ SnapshotAgrees => Moves
  PROVE  WatchInv'
<1>1. WatchShape'
  BY DEF WatchInv, WatchShape
<1>2. calls \subseteq Ids /\ notices \subseteq Ids
  BY DEF WatchInv, StartsAreNew
<1>3. /\ \A id \in Ids : (Started(id)' <=> Started(id)) /\ (Ended(id)' <=> Ended(id))
      /\ \A id \in Ids : Records(id)' => Records(id)
  BY DEF Started, Ended, Records, Terminal
<1>4. StartsAreNew'
  <2>1. \A id \in Ids : id >= fresh' => id \notin calls' /\ ~Started(id)'
    BY <1>3 DEF WatchInv, StartsAreNew
  <2>2. (\A id \in calls' : recs'[id].state = "none") /\ \A id \in notices' : Ended(id)'
    BY <1>2, <1>3 DEF WatchInv, StartsAreNew
  <2>3. /\ chk'.pc \in {"claimed", "start"} => chk'.id \in Ids /\ claimed' = chk'.id
        /\ chk'.pc = "claimed" => chk'.id < fresh' /\ chk'.id \notin calls' /\ recs'[chk'.id].state = "none"
    BY DEF WatchInv, StartsAreNew, JobGoesOn, Started
  <2>4. fresh' \in Nat \ {0} /\ calls' \cup notices' \subseteq Ids
    BY <1>2 DEF WatchInv, StartsAreNew
  <2>5. svc' \in {"down", "recovering"} => chk'.pc \in {"none", "queued"}
    BY DEF JobGoesOn
  <2> QED BY <2>1, <2>2, <2>3, <2>4, <2>5 DEF StartsAreNew, Started
<1>5. Unborn'
  BY <1>3 DEF WatchInv, Unborn, JobGoesOn
<1>6. ASSUME Calm' PROVE LinksAgree' /\ SnapshotAgrees'
  <2>1. Calm /\ LinksAgree /\ SnapshotAgrees
    BY <1>6 DEF WatchInv, Calm
  <2>2. Exists' => Exists
    BY DEF Exists
  <2>3. \A i, j \in Ids : Records(i)' /\ Records(j)' => i = j
    BY <1>3, <2>1 DEF LinksAgree
  <2>4. ASSUME Exists'
        PROVE  /\ rt'.active = 0 \/ rt'.pending = 0
               /\ rt'.pending \in {0} \cup Ids
               /\ rt'.active # 0 => rt'.active \in Ids /\ recs'[rt'.active].state # "none"
               /\ \A id \in Ids : Records(id)' => id \in {rt'.active, rt'.pending}
               /\ chk'.pc = "start" => rt'.pending = chk'.id
    <3>1. Moves /\ Exists
      BY <1>6, <2>1, <2>2, <2>4
    <3>2. \A id \in Ids : Records(id)' => id \in {rt.active, rt.pending}
      BY <1>3, <2>1, <3>1 DEF LinksAgree
    <3>3. (rt'.active = 0 \/ rt'.pending = 0) /\ rt'.pending \in {0} \cup Ids
      BY <2>1, <3>1 DEF LinksAgree, Moves
    <3>4. ASSUME rt'.active # 0 PROVE rt'.active \in Ids /\ Started(rt'.active)
      BY <2>1, <3>1, <3>4 DEF LinksAgree, Moves
    <3>5. chk'.pc = "start" => rt'.pending = chk'.id
      BY <2>1, <3>1 DEF LinksAgree, Moves
    <3> QED BY <1>3, <3>1, <3>2, <3>3, <3>4, <3>5 DEF Moves, Started
  <2>5. LinksAgree'
    BY <2>3, <2>4 DEF LinksAgree, Started
  <2>6. SnapshotAgrees'
    BY <1>3, <2>1 DEF SnapshotAgrees, Started, Ended
  <2> QED BY <2>5, <2>6
<1> QED BY <1>1, <1>4, <1>5, <1>6 DEF WatchInv

\* The records of the Engine as they are.
LEMMA RecordsStay ==
  ASSUME WatchInv, UNCHANGED recs
  PROVE  DOMAIN recs' = Ids /\ \A id \in Ids : IsRecord(recs'[id]) /\ recs'[id].state = recs[id].state
BY DEF WatchInv, WatchShape

LEMMA CancelForm ==
  ASSUME NEW c, IsCheck(c), NEW b
  PROVE  IsCheck([c EXCEPT !.cancel = b]) /\ [c EXCEPT !.cancel = b].pc = c.pc /\ [c EXCEPT !.cancel = b].id = c.id
BY DEF IsCheck

LEMMA StepForm ==
  ASSUME NEW c, IsCheck(c), NEW p
  PROVE  IsCheck([c EXCEPT !.pc = p]) /\ [c EXCEPT !.pc = p].pc = p
BY DEF IsCheck

\* The links as they are.
LEMMA StillLinked ==
  ASSUME UNCHANGED rt, chk'.pc = "start" => chk.pc = "start" /\ chk'.id = chk.id
  PROVE  Moves
BY DEF Moves

\* What neither starts nor links anything.
LEMMA IdleStepKeeps ==
  ASSUME WatchInv,
         \/ ManualCheck \/ ScheduleDue \/ FailQueued \/ Pause \/ Resume \/ CheckCancelled \/ ClaimRefused \/ Run
         \/ CloseService \/ Closed \/ Crash \/ BroadcastStarts \/ BroadcastEnds \/ UNCHANGED watchVars
  PROVE  WatchInv'
<1> USE DEF service, engine, others, world, ghosts
<1>1. UNCHANGED <<def, rt, calls, recs, fresh, abandoned, harm>> /\ notices' \subseteq notices
  BY DEF ManualCheck, ScheduleDue, Enqueue, FailQueued, Pause, Resume, CheckCancelled, ClaimRefused,
       Run, CloseService, Closed, Crash,
         BroadcastStarts, BroadcastEnds, watchVars, FinishJob
<1>2. IsCheck(chk) /\ IsRuntime(rt) /\ IsScan(rc)
  BY DEF WatchInv, WatchShape
<1>3. rc' = rc \/ (IsScan(rc') /\ rc'.kind # "links")
  <2>1. CASE Run
    <3>1. rc' = [kind |-> "recover", base |-> rt, seen |-> "none"]
      BY <2>1 DEF Run, Loaded
    <3> QED BY <1>2, <3>1 DEF IsScan
  <2>2. CASE Crash
    BY <2>2, NewForms DEF Crash
  <2> QED BY <2>1, <2>2 DEF ManualCheck, ScheduleDue, Enqueue, FailQueued, Pause, Resume,
               CheckCancelled, ClaimRefused, CloseService, Closed,
          BroadcastStarts, BroadcastEnds, watchVars, FinishJob
<1>4. IsCheck(chk') /\ JobGoesOn
  <2>1. CASE ManualCheck \/ ScheduleDue
    <3>1. chk' = [NoCheck EXCEPT !.pc = "queued"]
      BY <2>1 DEF ManualCheck, ScheduleDue, Enqueue
    <3>2. IsCheck(chk') /\ chk'.pc = "queued"
      BY <3>1, NewForms, StepForm
    <3> QED BY <3>2 DEF JobGoesOn
  <2>2. CASE FailQueued \/ CheckCancelled \/ ClaimRefused \/ Crash
    <3>1. chk' = NoCheck
      BY <2>2 DEF FailQueued, CheckCancelled, ClaimRefused, Crash, FinishJob
    <3>2. IsCheck(chk') /\ chk'.pc = "none"
      BY <3>1, NewForms
    <3> QED BY <3>2 DEF JobGoesOn
  <2>3. CASE Pause \/ CloseService
    <3>1. \E b : chk' = [chk EXCEPT !.cancel = b]
      BY <2>3 DEF Pause, CloseService
    <3>2. IsCheck(chk') /\ chk'.pc = chk.pc /\ chk'.id = chk.id
      BY <1>2, <3>1, CancelForm
    <3>3. claimed' = claimed /\ (svc' = svc \/ svc' = "closing")
      BY <2>3 DEF Pause, CloseService
    <3>4. def # "new" \/ chk.pc # "claim"
      BY DEF WatchInv, Unborn
    <3> QED BY <3>2, <3>3, <3>4 DEF JobGoesOn, WatchInv, StartsAreNew
  <2>4. CASE Resume \/ BroadcastStarts \/ BroadcastEnds \/ UNCHANGED watchVars
    <3>1. UNCHANGED <<chk, claimed, svc>>
      BY <2>4 DEF Resume, BroadcastStarts, BroadcastEnds, watchVars
    <3>2. def # "new" \/ chk.pc # "claim"
      BY DEF WatchInv, Unborn
    <3> QED BY <1>2, <3>1, <3>2 DEF JobGoesOn, WatchInv, StartsAreNew
  <2>5. CASE Run
    <3>1. UNCHANGED <<chk, claimed>> /\ svc = "down"
      BY <2>5 DEF Run
    <3>2. chk.pc \in {"none", "queued"}
      BY <3>1 DEF WatchInv, StartsAreNew
    <3> QED BY <1>2, <3>1, <3>2 DEF JobGoesOn
  <2>6. CASE Closed
    <3>1. chk' = chk /\ chk.pc = "none"
      BY <2>6 DEF Closed
    <3> QED BY <1>2, <3>1 DEF JobGoesOn
  <2> QED BY <2>1, <2>2, <2>3, <2>4, <2>5, <2>6
<1>5. chk'.pc = "start" => chk.pc = "start" /\ chk'.id = chk.id
  BY <1>4 DEF JobGoesOn
<1>6. Moves
  BY <1>1, <1>5, StillLinked
<1> QED BY <1>1, <1>2, <1>3, <1>4, <1>6, RecordsStay, QuietKeeps

LEMMA JobEnds ==
  ASSUME FinishJob
  PROVE  IsCheck(chk') /\ JobGoesOn /\ chk'.pc = "none"
<1>1. IsCheck(chk') /\ chk'.pc = "none"
  BY NewForms DEF FinishJob
<1> QED BY <1>1 DEF JobGoesOn

LEMMA JobStays ==
  ASSUME WatchInv, UNCHANGED <<claimed, svc>>, chk' = chk \/ \E b : chk' = [chk EXCEPT !.cancel = b]
  PROVE  IsCheck(chk') /\ JobGoesOn /\ chk'.pc = chk.pc /\ chk'.id = chk.id
<1>1. IsCheck(chk)
  BY DEF WatchInv, WatchShape
<1>2. IsCheck(chk') /\ chk'.pc = chk.pc /\ chk'.id = chk.id
  <2>1. CASE chk' = chk
    BY <1>1, <2>1
  <2>2. ASSUME NEW b, chk' = [chk EXCEPT !.cancel = b]
        PROVE  IsCheck(chk') /\ chk'.pc = chk.pc /\ chk'.id = chk.id
    BY <1>1, <2>2, CancelForm
  <2> QED BY <2>1, <2>2
<1>3. chk.pc = "claim" => def # "new"
  BY DEF WatchInv, Unborn
<1> QED BY <1>2, <1>3 DEF JobGoesOn, WatchInv, StartsAreNew

LEMMA SaveForm ==
  ASSUME NEW new, SaveRuntime(new)
  PROVE  rt' \in {new, rt} /\ (~Exists => rt' = rt)
BY DEF SaveRuntime

\* A step of the Runtime's other fields.
LEMMA SameLinksMove ==
  ASSUME IsRuntime(rt), NEW new, Form(new, rt.active, rt.pending), rt' \in {new, rt},
         chk'.pc = "start" => chk.pc = "start" /\ chk'.id = chk.id
  PROVE  IsRuntime(rt') /\ Moves
<1>1. IsRuntime(rt') /\ rt'.active = rt.active /\ rt'.pending = rt.pending
  BY DEF Form
<1> QED BY <1>1 DEF Moves

LEMMA TakeJobKeeps ==
  ASSUME WatchInv, TakeJob
  PROVE  WatchInv'
<1> USE DEF service, engine, others, world, ghosts
<1>1. UNCHANGED <<def, calls, recs, fresh, abandoned, harm, notices, rc, svc, claimed>> /\ svc = "up" /\ chk.pc = "queued"
  BY DEF TakeJob
<1>2. IsCheck(chk) /\ IsRuntime(rt) /\ IsScan(rc)
  BY DEF WatchInv, WatchShape
<1>3. rt' \in {Idle(rt), rt}
  BY DEF TakeJob
<1>4. IsCheck(chk') /\ chk'.pc \in {"none", "reconcile", "ask"}
  <2>1. CASE chk' = [chk EXCEPT !.pc = "reconcile", !.base = rt]
    <3>1. DOMAIN chk' = DOMAIN chk /\ chk'.pc = "reconcile" /\ chk'.base = rt
      BY <1>2, <2>1 DEF IsCheck
    <3> QED BY <1>2, <3>1 DEF IsCheck
  <2>2. CASE chk' = [chk EXCEPT !.pc = "ask"]
    BY <1>2, <2>2, StepForm
  <2>3. CASE FinishJob
    BY <2>3, JobEnds
  <2> QED BY <2>1, <2>2, <2>3 DEF TakeJob
<1>5. JobGoesOn
  BY <1>1, <1>4 DEF JobGoesOn
<1>6. Form(Idle(rt), rt.active, rt.pending)
  BY <1>2, RuntimeForms
<1>7. IsRuntime(rt') /\ Moves
  BY <1>2, <1>3, <1>4, <1>6, SameLinksMove
<1> QED BY <1>1, <1>2, <1>4, <1>5, <1>7, RecordsStay, QuietKeeps

LEMMA SeesLiveKeeps ==
  ASSUME WatchInv, NEW d, SeesLive(d)
  PROVE  WatchInv'
<1> USE DEF service, engine, others, world, ghosts
<1>1. UNCHANGED <<def, calls, recs, fresh, abandoned, harm, notices, rc, svc, claimed>> /\ chk.pc = "ask"
  BY DEF SeesLive
<1>2. IsCheck(chk) /\ IsRuntime(rt) /\ IsScan(rc) /\ (svc \notin {"down", "recovering"})
  BY <1>1 DEF WatchInv, WatchShape, StartsAreNew
<1>3. /\ Form(Observed(rt, d), rt.active, rt.pending)
      /\ Form(Unsuppress(Observed(rt, d)), rt.active, rt.pending)
      /\ Form(Idle(Observed(rt, d)), rt.active, rt.pending)
      /\ Form(Idle(Unsuppress(Observed(rt, d))), rt.active, rt.pending)
  <2>1. Form(Observed(rt, d), rt.active, rt.pending)
    BY <1>2, ObservedForms
  <2>2. PICK o : o = Observed(rt, d)
    OBVIOUS
  <2>3. Form(Unsuppress(o), rt.active, rt.pending)
    BY <2>1, <2>2, ObservedForms DEF Form
  <2>4. \A r : Form(r, rt.active, rt.pending) => Form(Idle(r), rt.active, rt.pending)
    BY RuntimeForms DEF Form
  <2> QED BY <2>1, <2>2, <2>3, <2>4
<1>4. rt' \in {Idle(Observed(rt, d)), Idle(Unsuppress(Observed(rt, d))), rt}
  <2>1. \A r : SaveRuntime(r) => rt' \in {r, rt}
    BY SaveForm
  <2> QED BY <2>1 DEF SeesLive
<1>5. IsCheck(chk') /\ chk'.pc \in {"none", "claim"} /\ (chk'.pc = "claim" => def # "new")
  <2>1. CASE FinishJob
    BY <2>1, JobEnds
  <2>2. CASE def = "on" /\ chk' = [chk EXCEPT !.pc = "claim", !.base = rt, !.digest = d, !.session = air]
    <3> DEFINE next == [chk EXCEPT !.pc = "claim", !.base = rt, !.digest = d, !.session = air]
    <3>1. IsCheck(next) /\ next.pc = "claim"
      BY <1>2 DEF IsCheck
    <3> HIDE DEF next
    <3> QED BY <2>2, <3>1 DEF next
  <2> QED BY <2>1, <2>2 DEF SeesLive
<1>6. JobGoesOn
  BY <1>1, <1>2, <1>5 DEF JobGoesOn
<1>7. IsRuntime(rt') /\ Moves
  BY <1>2, <1>3, <1>4, <1>5, SameLinksMove
<1> QED BY <1>1, <1>2, <1>5, <1>6, <1>7, RecordsStay, QuietKeeps

\* Update and SetEnabled: the source is another one, or the Watch is switched.
LEMMA DefinitionKeeps ==
  ASSUME WatchInv,
         \/ \E changed, enabled \in BOOLEAN : Update(changed, enabled)
         \/ \E enabled \in BOOLEAN : SetEnabled(enabled)
  PROVE  WatchInv'
<1> USE DEF service, engine, others, world, ghosts
<1>1. /\ UNCHANGED <<calls, recs, fresh, abandoned, harm, notices, rc, svc, claimed>> /\ Exists /\ def' \in {"on", "off"}
      /\ chk' = chk \/ \E b : chk' = [chk EXCEPT !.cancel = b]
  BY DEF Update, SetEnabled, UpdateDefinition
<1>2. IsRuntime(rt) /\ IsScan(rc)
  BY DEF WatchInv, WatchShape
<1>3. IsCheck(chk') /\ JobGoesOn /\ chk'.pc = chk.pc /\ chk'.id = chk.id
  BY <1>1, JobStays
<1>4. IsRuntime(rt') /\ Moves
  <2>1. ASSUME NEW changed, NEW enabled, Update(changed, enabled) PROVE IsRuntime(rt') /\ Moves
    <3>1. /\ rt.active = 0 /\ SaveRuntime(IF changed THEN [NewRuntime EXCEPT !.pending = rt.pending] ELSE rt)
      BY <2>1 DEF Update
    <3>2. Form(IF changed THEN [NewRuntime EXCEPT !.pending = rt.pending] ELSE rt, rt.active, rt.pending)
      BY <1>2, <3>1, NewForms, RuntimeForms
    <3> QED BY <1>2, <1>3, <3>1, <3>2, SaveForm, SameLinksMove
  <2>2. ASSUME NEW enabled, SetEnabled(enabled) PROVE IsRuntime(rt') /\ Moves
    <3>1. SaveRuntime(Idle(rt))
      BY <2>2 DEF SetEnabled
    <3>2. Form(Idle(rt), rt.active, rt.pending)
      BY <1>2, RuntimeForms
    <3> QED BY <1>2, <1>3, <3>1, <3>2, SaveForm, SameLinksMove
  <2> QED BY <2>1, <2>2
<1>5. def # "new" /\ def' # "new"
  BY <1>1 DEF Exists
<1> QED BY <1>1, <1>2, <1>3, <1>4, <1>5, RecordsStay, QuietKeeps

\* What a step gives up and the Engine carries out all the same is counted as lost.
LEMMA LostIsCounted ==
  ASSUME NEW x, abandoned' = abandoned \cup Forgotten(x), UNCHANGED <<calls, recs>>, NEW id \in Ids, Records(id)', id = x
  PROVE  id \in {rt'.active, rt'.pending}
<1>1. x # 0 /\ (x \in calls \/ Started(x)) /\ x \notin abandoned'
  BY DEF Ids, Records, Started
<1> QED BY <1>1 DEF Forgotten

LEMMA DeleteKeeps ==
  ASSUME WatchInv, Delete
  PROVE  WatchInv'
<1> USE DEF service, engine, others, world, ghosts
<1>1. /\ UNCHANGED <<calls, recs, fresh, harm, notices, rc, svc, claimed>> /\ Exists /\ def' = "deleted" /\ rt' = NewRuntime
      /\ abandoned \subseteq abandoned' /\ \E b : chk' = [chk EXCEPT !.cancel = b]
  BY DEF Delete, DeleteDefinition
<1>2. IsRuntime(rt') /\ IsScan(rc)
  BY <1>1, NewForms DEF WatchInv, WatchShape, Form
<1>3. IsCheck(chk') /\ JobGoesOn
  BY <1>1, JobStays
<1>4. def # "new" /\ def' # "new" /\ ~Exists'
  BY <1>1 DEF Exists
<1> QED BY <1>1, <1>2, <1>3, <1>4, RecordsStay, QuietKeeps

LEMMA CheckEndsKeeps ==
  ASSUME WatchInv, CheckFails \/ SeesOffline
  PROVE  WatchInv'
<1> USE DEF service, engine, others, world, ghosts
<1>1. UNCHANGED <<def, calls, recs, fresh, harm, notices, rc, svc>> /\ FinishJob /\ abandoned \subseteq abandoned'
  BY DEF CheckFails, SeesOffline, Failed
<1>2. IsRuntime(rt) /\ IsScan(rc) /\ IsCheck(chk') /\ JobGoesOn /\ chk'.pc = "none"
  BY <1>1, JobEnds DEF WatchInv, WatchShape
<1>3. CASE UNCHANGED rt
  BY <1>1, <1>2, <1>3, StillLinked, RecordsStay, QuietKeeps
<1>4. CASE Failed
  <2>1. SaveRuntime(Unpend(rt)) /\ abandoned' = abandoned \cup Forgotten(rt.pending)
    BY <1>4 DEF Failed
  <2>2. rt' \in {Unpend(rt), rt} /\ Form(Unpend(rt), rt.active, 0)
    BY <1>2, <2>1, SaveForm, RuntimeForms
  <2>3. IsRuntime(rt') /\ rt'.active = rt.active /\ rt'.pending \in {0, rt.pending}
    BY <1>2, <2>2 DEF Form
  <2>4. \A id \in Ids : Records(id)' /\ id = rt.pending => id \in {rt'.active, rt'.pending}
    BY <1>1, <2>1, LostIsCounted
  <2>5. Moves
    BY <1>2, <2>3, <2>4 DEF Moves
  <2> QED BY <1>1, <1>2, <2>3, <2>5, RecordsStay, QuietKeeps
<1>5. CASE SeesOffline
  <2>1. SaveRuntime([NewRuntime EXCEPT !.pending = rt.pending]) /\ abandoned' = abandoned \cup Forgotten(rt.active)
    BY <1>5 DEF SeesOffline
  <2>2. rt' \in {[NewRuntime EXCEPT !.pending = rt.pending], rt} /\ Form([NewRuntime EXCEPT !.pending = rt.pending], 0, rt.pending)
    BY <2>1, SaveForm, NewForms
  <2>3. IsRuntime(rt') /\ rt'.active \in {0, rt.active} /\ rt'.pending = rt.pending
    BY <1>2, <2>2 DEF Form
  <2>4. \A id \in Ids : Records(id)' /\ id = rt.active => id \in {rt'.active, rt'.pending}
    BY <1>1, <2>1, LostIsCounted
  <2>5. Moves
    BY <1>2, <2>3, <2>4 DEF Moves
  <2> QED BY <1>1, <1>2, <2>3, <2>5, RecordsStay, QuietKeeps
<1> QED BY <1>3, <1>4, <1>5 DEF CheckFails

-----------------------------------------------------------------------------
(* Starts and links. *)

\* A start that was not called is withdrawn: nothing records under its id.
LEMMA WithdrawnKeeps ==
  ASSUME WatchInv, ClearPendingStart \/ StartRefused \/ RelationFails
  PROVE  WatchInv'
<1> USE DEF service, engine, others, world, ghosts
<1>1. UNCHANGED <<def, calls, recs, fresh, abandoned, harm, notices, rc, svc>> /\ chk.pc = "claimed" /\ FinishJob
  BY DEF ClearPendingStart, StartRefused, RelationFails
<1>2. IsRuntime(rt) /\ IsScan(rc) /\ IsCheck(chk') /\ JobGoesOn /\ chk'.pc = "none"
  BY <1>1, JobEnds DEF WatchInv, WatchShape
<1>3. rt' = rt \/ (rt.pending = chk.id /\ rt' \in {Unpend(rt), [rt EXCEPT !.pending = 0]})
  <2>1. CASE ClearPendingStart \/ StartRefused
    BY <2>1, SaveForm DEF ClearPendingStart, StartRefused
  <2>2. CASE RelationFails
    BY <2>2 DEF RelationFails, MayStart
  <2> QED BY <2>1, <2>2
<1>4. Form(Unpend(rt), rt.active, 0) /\ Form([rt EXCEPT !.pending = 0], rt.active, 0)
  BY <1>2, RuntimeForms
<1>5. IsRuntime(rt') /\ rt'.active = rt.active /\ (rt'.pending = rt.pending \/ (rt'.pending = 0 /\ rt.pending = chk.id))
  BY <1>2, <1>3, <1>4 DEF Form
<1>6. \A id \in Ids : id = chk.id => ~Records(id)'
  BY <1>1 DEF WatchInv, StartsAreNew, Records, Started
<1>7. Moves
  BY <1>2, <1>5, <1>6 DEF Moves
<1> QED BY <1>1, <1>2, <1>5, <1>7, RecordsStay, QuietKeeps

LEMMA CommitStartKeeps ==
  ASSUME WatchInv, CommitStart
  PROVE  WatchInv'
<1> USE DEF service, engine, others, world, ghosts
<1>1. UNCHANGED <<def, calls, recs, fresh, abandoned, harm, notices, rc, svc>> /\ chk.pc = "start" /\ Started(chk.id) /\ FinishJob
  BY DEF CommitStart
<1>2. IsRuntime(rt) /\ IsScan(rc) /\ IsCheck(chk') /\ JobGoesOn /\ chk'.pc = "none" /\ chk.id \in Ids
  BY <1>1, JobEnds DEF WatchInv, WatchShape, StartsAreNew
<1>3. rt' = rt \/ (rt.pending = chk.id /\ rt' = [Unpend(rt) EXCEPT !.active = chk.id, !.outcome = "none"])
  BY SaveForm DEF CommitStart
<1>4. Form([Unpend(rt) EXCEPT !.active = chk.id, !.outcome = "none"], chk.id, 0)
  BY <1>2, RuntimeForms
<1>5. IsRuntime(rt') /\ (rt' = rt \/ (rt'.pending = 0 /\ rt'.active = chk.id /\ rt.pending = chk.id))
  BY <1>2, <1>3, <1>4 DEF Form
<1>6. LinksAgree /\ Exists => Moves
  <2>1. CASE rt' = rt
    BY <1>2, <2>1, StillLinked
  <2>2. CASE rt' # rt
    <3>1. chk.id # 0
      BY <1>2 DEF Ids
    <3>2. ASSUME LinksAgree, Exists PROVE rt.active = 0
      BY <1>5, <2>2, <3>1, <3>2 DEF LinksAgree
    <3>3. \A id \in Ids : id # 0
      BY DEF Ids
    <3> QED BY <1>1, <1>2, <1>5, <2>2, <3>2, <3>3 DEF Moves
  <2> QED BY <2>1, <2>2
<1>7. Exists' => Exists
  BY <1>1 DEF Exists
<1> QED BY <1>1, <1>2, <1>5, <1>6, <1>7, RecordsStay, QuietKeeps

LEMMA StartFailsKeeps ==
  ASSUME WatchInv, StartFails
  PROVE  WatchInv'
<1> USE DEF service, engine, others, world, ghosts
<1>1. /\ UNCHANGED <<def, calls, recs, fresh, notices, rc, svc>> /\ chk.pc = "start" /\ FinishJob
      /\ rt' \in {Unpend(chk.base), Unpend(rt), rt}
      /\ harm' = harm \cup {h \in {"stale"} : rt' = Unpend(chk.base) /\ rt # chk.base}
      /\ abandoned' = abandoned \cup Forgotten(chk.id)
  BY DEF StartFails
<1>2. IsRuntime(rt) /\ IsRuntime(chk.base) /\ IsScan(rc) /\ IsCheck(chk') /\ JobGoesOn /\ chk'.pc = "none"
  BY <1>1, JobEnds DEF WatchInv, WatchShape, IsCheck
<1>3. Form(Unpend(rt), rt.active, 0) /\ Form(Unpend(chk.base), chk.base.active, 0)
  BY <1>2, RuntimeForms
<1>4. IsRuntime(rt')
  BY <1>1, <1>2, <1>3 DEF Form
<1>5. ASSUME Calm', Exists, LinksAgree PROVE Moves
  <2>1. rt' \in {Unpend(rt), rt}
    BY <1>1, <1>5 DEF Calm
  <2>2. rt'.active = rt.active /\ rt'.pending \in {0, rt.pending} /\ rt.pending = chk.id
    BY <1>1, <1>3, <1>5, <2>1 DEF Form, LinksAgree
  <2>3. \A id \in Ids : Records(id)' /\ id = chk.id => id \in {rt'.active, rt'.pending}
    BY <1>1, LostIsCounted
  <2> QED BY <1>2, <2>2, <2>3 DEF Moves
<1>6. Exists' => Exists
  BY <1>1 DEF Exists
<1>7. abandoned \subseteq abandoned' /\ harm \subseteq harm'
  BY <1>1
<1> QED BY <1>1, <1>2, <1>4, <1>5, <1>6, <1>7, RecordsStay, QuietKeeps

\* A save over a Runtime that was read before is one of the Runtime as it is, or
\* it undid another.
LEMMA SaveOverForm ==
  ASSUME NEW base, NEW new, SaveOver(base, new)
  PROVE  rt' \in {rt, new} /\ harm \subseteq harm' /\ (Calm' /\ Exists => rt' = rt \/ (rt = base /\ rt' = new))
BY DEF SaveOver, Calm

\* The links after a reconciliation of the active one: what was seen to have ended
\* does not record.
LEMMA ReconcileMoves ==
  ASSUME IsRuntime(rt), NEW base, IsRuntime(base), NEW seen, Reconcile(base, seen),
         Calm' /\ Exists /\ rt = base /\ seen \notin {"recording", "error"} => \A id \in Ids : id = rt.active => ~Records(id)',
         chk'.pc = "start" => chk.pc = "start" /\ chk'.id = chk.id
  PROVE  IsRuntime(rt') /\ harm \subseteq harm' /\ (Calm' /\ Exists => Moves)
<1> DEFINE new == CASE seen \in {"recording", "error"} -> Idle(base)
                    [] seen \in Terminal -> [Unlink(base) EXCEPT !.outcome = seen]
                    [] OTHER -> Unlink(base)
<1>1. SaveOver(base, new)
  BY DEF Reconcile
<1>2. /\ Form(Idle(base), base.active, base.pending) /\ Form(Unlink(base), 0, base.pending)
      /\ Form([Unlink(base) EXCEPT !.outcome = seen], 0, base.pending)
  BY RuntimeForms
<1>3. /\ seen \in {"recording", "error"} => Form(new, base.active, base.pending)
      /\ seen \notin {"recording", "error"} => Form(new, 0, base.pending)
  <2>1. seen \in Terminal => seen \notin {"recording", "error"}
    BY DEF Terminal
  <2>2. CASE seen \in {"recording", "error"}
    BY <1>2, <2>1, <2>2
  <2>3. CASE seen \notin {"recording", "error"}
    BY <1>2, <2>3
  <2> QED BY <2>2, <2>3
<1> HIDE DEF new
<1>4. rt' \in {rt, new} /\ harm \subseteq harm' /\ (Calm' /\ Exists => rt' = rt \/ (rt = base /\ rt' = new))
  BY <1>1, SaveOverForm
<1>5. IsRuntime(rt')
  BY <1>3, <1>4 DEF Form
<1>6. ASSUME Calm', Exists PROVE Moves
  <2>1. CASE rt' = rt
    BY <2>1, StillLinked
  <2>2. CASE rt = base /\ rt' = new
    BY <1>3, <1>6, <2>2 DEF Form, Moves
  <2> QED BY <1>4, <1>6, <2>1, <2>2
<1> QED BY <1>4, <1>5, <1>6

\* A linked Recording that has a state other than recording does not record.
LEMMA EndedIsOver ==
  ASSUME StartsAreNew, NEW id \in Ids, Ended(id) \/ (Started(id) /\ recs[id].state # "recording")
  PROVE  ~Records(id)
BY DEF StartsAreNew, Ended, Started, Records, Terminal

LEMMA CheckReconcilesKeeps ==
  ASSUME WatchInv, CheckReconciles
  PROVE  WatchInv'
<1> USE DEF service, engine, others, world, ghosts
<1>1. UNCHANGED <<def, calls, recs, fresh, notices, abandoned, rc, svc>> /\ FinishJob
  BY DEF CheckReconciles
<1>2. /\ IsRuntime(rt) /\ IsRuntime(chk.base) /\ IsScan(rc) /\ IsCheck(chk') /\ JobGoesOn /\ chk'.pc = "none"
      /\ StartsAreNew
  BY <1>1, JobEnds DEF WatchInv, WatchShape, IsCheck
<1>3. PICK seen \in {"error", StateOf(chk.base.active)} : Reconcile(chk.base, seen)
  BY DEF CheckReconciles
<1>4. ASSUME LinksAgree, Exists, rt = chk.base, seen \notin {"recording", "error"}, NEW id \in Ids, id = rt.active
      PROVE  ~Records(id)'
  <2>1. id # 0
    BY DEF Ids
  <2>2. Started(id) /\ recs[id].state # "recording"
    BY <1>3, <1>4, <2>1 DEF LinksAgree, StateOf
  <2>3. ~Records(id)
    BY <1>2, <2>2, EndedIsOver
  <2> QED BY <1>1, <2>3 DEF Records
<1>5. ASSUME LinksAgree
      PROVE  IsRuntime(rt') /\ harm \subseteq harm' /\ (Calm' /\ Exists => Moves)
  BY <1>2, <1>3, <1>4, <1>5, ReconcileMoves
<1>6. IsRuntime(rt') /\ harm \subseteq harm'
  <2>1. rt' \in {rt, Idle(chk.base), Unlink(chk.base), [Unlink(chk.base) EXCEPT !.outcome = seen]} /\ harm \subseteq harm'
    BY <1>3, SaveOverForm DEF Reconcile
  <2> QED BY <1>2, <2>1, RuntimeForms DEF Form
<1>7. Exists' => Exists
  BY <1>1 DEF Exists
<1> QED BY <1>1, <1>2, <1>5, <1>6, <1>7, RecordsStay, QuietKeeps

LEMMA LinkSnapshotKeeps ==
  ASSUME WatchInv, LinkSnapshot
  PROVE  WatchInv'
<1> USE DEF service, engine, others, world, ghosts
<1>1. /\ UNCHANGED <<def, rt, calls, recs, fresh, notices, abandoned, harm, svc, claimed, chk>> /\ Exists /\ rt.active # 0 /\ rt.pending = 0
      /\ rc' = [kind |-> "links", base |-> rt, seen |-> StateOf(rt.active)]
  BY DEF LinkSnapshot
<1>2. IsRuntime(rt) /\ IsScan(rc) /\ \A id \in Ids : IsRecord(recs[id])
  BY DEF WatchInv, WatchShape
<1>3. IsCheck(chk') /\ JobGoesOn
  BY <1>1, JobStays
<1>4. IsScan(rc') /\ rc'.kind = "links" /\ rc'.base = rt /\ rc'.seen = StateOf(rt.active)
  BY <1>1, <1>2 DEF IsScan
<1>5. LinksAgree => SnapshotAgrees'
  BY <1>1, <1>2, <1>4 DEF LinksAgree, SnapshotAgrees, StateOf, Started, Ended, IsRecord
<1>6. Moves
  BY <1>1, StillLinked
<1> QED BY <1>1, <1>2, <1>3, <1>4, <1>5, <1>6, RecordsStay, QuietKeeps

LEMMA LinkReconcilesKeeps ==
  ASSUME WatchInv, LinkReconciles
  PROVE  WatchInv'
<1> USE DEF service, engine, others, world, ghosts
<1>1. UNCHANGED <<def, calls, recs, fresh, notices, abandoned, svc, claimed, chk>> /\ rc.kind = "links" /\ rc' = NoScan
  BY DEF LinkReconciles
<1>2. /\ IsRuntime(rt) /\ IsRuntime(rc.base) /\ StartsAreNew
      /\ IsCheck(chk') /\ JobGoesOn /\ chk'.pc = chk.pc /\ chk'.id = chk.id
  BY <1>1, JobStays DEF WatchInv, WatchShape, IsScan
<1>3. IsScan(rc') /\ rc'.kind # "links"
  BY <1>1, NewForms
<1>4. PICK seen \in {"error", rc.seen, StateOf(rc.base.active)} : Reconcile(rc.base, seen)
  BY DEF LinkReconciles
<1>5. ASSUME SnapshotAgrees, rt = rc.base, seen \notin {"recording", "error"}, NEW id \in Ids, id = rt.active
      PROVE  ~Records(id)'
  <2>1. id # 0
    BY DEF Ids
  <2>2. Ended(id) \/ (Started(id) /\ recs[id].state # "recording")
    BY <1>1, <1>4, <1>5, <2>1 DEF SnapshotAgrees, StateOf
  <2>3. ~Records(id)
    BY <1>2, <2>2, EndedIsOver
  <2> QED BY <1>1, <2>3 DEF Records
<1>6. ASSUME SnapshotAgrees
      PROVE  IsRuntime(rt') /\ harm \subseteq harm' /\ (Calm' /\ Exists => Moves)
  BY <1>2, <1>4, <1>5, <1>6, ReconcileMoves
<1>7. IsRuntime(rt') /\ harm \subseteq harm'
  <2>1. rt' \in {rt, Idle(rc.base), Unlink(rc.base), [Unlink(rc.base) EXCEPT !.outcome = seen]} /\ harm \subseteq harm'
    BY <1>4, SaveOverForm DEF Reconcile
  <2> QED BY <1>2, <2>1, RuntimeForms DEF Form
<1>8. Exists' => Exists
  BY <1>1 DEF Exists
<1> QED BY <1>1, <1>2, <1>3, <1>6, <1>7, <1>8, RecordsStay, QuietKeeps

\* What the answer of the Engine about the pending start does to the links.
LEMMA ResolvedMoves ==
  ASSUME WatchInv, IsRuntime(rt), NEW seen \in {"error", StateOf(rt.pending)}, rt.pending # 0,
         NEW r, IsRuntime(r), r.active \in {0, rt.active}, r.pending = rt.pending,
         rt' \in {Resolved(r, seen), rt}, UNCHANGED <<calls, recs>>, abandoned' = abandoned \cup Forgotten(rt.pending),
         LinksAgree, Exists, chk'.pc # "start"
  PROVE  Moves
<1>1. rt.active = 0 /\ \A id \in Ids : id # 0
  BY DEF LinksAgree, Ids
<1>2. /\ seen = "error" => Form(Resolved(r, seen), 0, rt.pending)
      /\ seen = "recording" => Form(Resolved(r, seen), rt.pending, 0)
      /\ seen \notin {"error", "recording"} => Form(Resolved(r, seen), 0, 0)
  BY <1>1, ResolvedForms
<1>3. \A id \in Ids : Records(id)' /\ id = rt.pending => id \in {rt'.active, rt'.pending}
  BY LostIsCounted
<1>4. ASSUME seen = "recording" PROVE rt.pending \in Ids /\ Started(rt.pending)
  <2>1. recs[rt.pending].state = "recording"
    BY <1>4 DEF StateOf
  <2> QED BY <2>1 DEF Started, LinksAgree
<1>5. CASE rt' = rt
  BY <1>5, StillLinked
<1>6. CASE rt' = Resolved(r, seen)
  BY <1>1, <1>2, <1>3, <1>4, <1>6 DEF Form, Moves
<1> QED BY <1>5, <1>6

LEMMA ReconcilePendingKeeps ==
  ASSUME WatchInv, ReconcilePending
  PROVE  WatchInv'
<1> USE DEF service, engine, others, world, ghosts
<1>1. /\ UNCHANGED <<def, calls, recs, fresh, notices, harm, rc, svc, claimed, chk>> /\ Exists /\ rt.pending \notin {0, claimed}
      /\ abandoned' = abandoned \cup Forgotten(rt.pending)
  BY DEF ReconcilePending
<1>2. /\ IsRuntime(rt) /\ IsScan(rc) /\ StartsAreNew
      /\ IsCheck(chk') /\ JobGoesOn /\ chk'.pc = chk.pc /\ chk'.id = chk.id
  BY <1>1, JobStays DEF WatchInv, WatchShape, IsScan
<1>3. PICK seen \in {"error", StateOf(rt.pending)} : SaveRuntime(Resolved(rt, seen))
  BY DEF ReconcilePending
<1>4. rt' \in {Resolved(rt, seen), rt}
  BY <1>3, SaveForm
<1>5. IsRuntime(rt')
  BY <1>2, <1>4, ResolvedForms
<1>6. ASSUME LinksAgree PROVE Moves
  <2>1. chk'.pc # "start"
    BY <1>1, <1>2, <1>6 DEF LinksAgree, StartsAreNew
  <2> QED BY <1>1, <1>2, <1>3, <1>4, <1>6, <2>1, ResolvedMoves
<1> QED BY <1>1, <1>2, <1>5, <1>6, RecordsStay, QuietKeeps

LEMMA RecoverLinksKeeps ==
  ASSUME WatchInv, RecoverLinks
  PROVE  WatchInv'
<1> USE DEF service, engine, others, world, ghosts
<1>1. UNCHANGED <<def, calls, recs, fresh, notices, claimed, chk>> /\ svc = "recovering" /\ svc' = "up" /\ rc' = NoScan
  BY DEF RecoverLinks
<1>2. /\ IsRuntime(rt) /\ IsRuntime(rc.base) /\ StartsAreNew /\ IsCheck(chk) /\ chk.pc \in {"none", "queued"}
  BY <1>1 DEF WatchInv, WatchShape, IsScan, StartsAreNew
<1>3. IsScan(rc') /\ rc'.kind # "links" /\ JobGoesOn
  BY <1>1, <1>2, NewForms DEF JobGoesOn
<1>4. PICK base, seen, seenPending :
        /\ base = rc.base /\ seen \in {"error", StateOf(base.active)} /\ seenPending \in {"error", StateOf(base.pending)}
        /\ LET linked == Relinked(base, seen)
           IN  \/ SaveOver(base, linked) /\ UNCHANGED abandoned /\ (base.pending = 0 \/ linked.active # 0)
               \/ /\ SaveRuntime(Resolved(linked, seenPending)) /\ base.pending # 0 /\ linked.active = 0
                  /\ harm \subseteq harm' /\ (Calm' => rt' = rt \/ rt = base)
                  /\ abandoned' = abandoned \cup Forgotten(base.pending)
  BY DEF RecoverLinks, Calm
<1>5. PICK linked : linked = Relinked(base, seen)
  OBVIOUS
<1>6. /\ IsRuntime(base) /\ IsRuntime(linked) /\ linked.pending = base.pending /\ linked.active \in {0, base.active}
      /\ linked.active = base.active \/ seen \notin {"recording", "error"}
  BY <1>2, <1>4, <1>5, RelinkedForms DEF Form
<1>7. CASE SaveOver(base, linked) /\ UNCHANGED abandoned
  <2>1. rt' \in {rt, linked} /\ harm \subseteq harm' /\ (Calm' /\ Exists => rt' = rt \/ (rt = base /\ rt' = linked))
    BY <1>7, SaveOverForm
  <2>2. ASSUME LinksAgree, Exists, rt = base, seen \notin {"recording", "error"}, NEW id \in Ids, id = rt.active
        PROVE  ~Records(id)'
    <3>1. id # 0
      BY DEF Ids
    <3>2. Started(id) /\ recs[id].state # "recording"
      BY <1>4, <2>2, <3>1 DEF LinksAgree, StateOf
    <3>3. ~Records(id)
      BY <1>2, <3>2, EndedIsOver
    <3> QED BY <1>1, <1>7, <3>3 DEF Records
  <2>3. ASSUME Calm', Exists, LinksAgree PROVE Moves
    <3>1. CASE rt' = rt
      BY <1>1, <3>1, StillLinked
    <3>2. CASE rt = base /\ rt' = linked
      BY <1>1, <1>2, <1>6, <2>2, <2>3, <3>2 DEF Moves
    <3> QED BY <2>1, <2>3, <3>1, <3>2
  <2>4. IsRuntime(rt') /\ (Exists' => Exists) /\ harm \subseteq harm'
    BY <1>1, <1>2, <1>6, <2>1 DEF Exists
  <2> QED BY <1>1, <1>2, <1>3, <1>7, <2>3, <2>4, RecordsStay, QuietKeeps
<1>8. CASE /\ SaveRuntime(Resolved(linked, seenPending)) /\ base.pending # 0 /\ linked.active = 0
           /\ harm \subseteq harm' /\ (Calm' => rt' = rt \/ rt = base)
           /\ abandoned' = abandoned \cup Forgotten(base.pending)
  <2>1. rt' \in {Resolved(linked, seenPending), rt}
    BY <1>8, SaveForm
  <2>2. IsRuntime(rt')
    BY <1>2, <1>6, <2>1, ResolvedForms
  <2>3. ASSUME Calm', Exists, LinksAgree PROVE Moves
    <3>1. CASE rt' = rt
      BY <1>1, <3>1, StillLinked
    <3>2. CASE rt = base
      BY <1>1, <1>2, <1>4, <1>6, <1>8, <2>1, <2>3, <3>2, ResolvedMoves
    <3> QED BY <1>8, <2>3, <3>1, <3>2
  <2>4. (Exists' => Exists) /\ abandoned \subseteq abandoned'
    BY <1>1, <1>8 DEF Exists
  <2> QED BY <1>1, <1>2, <1>3, <1>8, <2>2, <2>3, <2>4, RecordsStay, QuietKeeps
<1> QED BY <1>4, <1>5, <1>7, <1>8

\* A stopped Recording does not record; the Watch forgets its link.
LEMMA NotifyKeeps ==
  ASSUME WatchInv, NEW id \in Ids, NotifyRecordingStopped(id)
  PROVE  WatchInv'
<1> USE DEF service, engine, others, world, ghosts
<1>1. UNCHANGED <<def, calls, fresh, abandoned, harm, rc, svc, claimed, chk>> /\ notices' = notices \ {id} /\ id \in notices
  BY DEF NotifyRecordingStopped
<1>2. /\ IsRuntime(rt) /\ IsScan(rc) /\ StartsAreNew /\ DOMAIN recs = Ids /\ (\A i \in Ids : IsRecord(recs[i]))
      /\ IsCheck(chk') /\ JobGoesOn /\ chk'.pc = chk.pc /\ chk'.id = chk.id
  BY <1>1, JobStays DEF WatchInv, WatchShape
<1>3. DOMAIN recs' = Ids /\ \A i \in Ids : IsRecord(recs'[i]) /\ recs'[i].state = recs[i].state
  <2>1. CASE recs' = recs
    BY <1>2, <2>1
  <2>2. ASSUME NEW b, recs' = [recs EXCEPT ![id].notified = b]
        PROVE  DOMAIN recs' = Ids /\ \A i \in Ids : IsRecord(recs'[i]) /\ recs'[i].state = recs[i].state
    BY <1>2, <2>2 DEF IsRecord
  <2> QED BY <2>1, <2>2 DEF NotifyRecordingStopped
<1>4. rt' = rt \/ (rt.active = id /\ Form(rt', 0, 0))
  <2>1. CASE Exists /\ rt.active = id
    <3> DEFINE new == [Unlink(rt) EXCEPT !.pending = 0, !.suppressed = TRUE, !.suppDigest = rt.digest, !.outcome = "stopped"]
    <3>1. SaveRuntime(new)
      BY <2>1 DEF NotifyRecordingStopped
    <3>2. Form(new, 0, 0)
      BY <1>2 DEF Form, IsRuntime, Unlink
    <3> HIDE DEF new
    <3>3. rt' \in {new, rt}
      BY <3>1, SaveForm
    <3> QED BY <2>1, <3>2, <3>3
  <2>2. CASE ~(Exists /\ rt.active = id)
    BY <2>2 DEF NotifyRecordingStopped
  <2> QED BY <2>1, <2>2
<1>5. IsRuntime(rt')
  BY <1>2, <1>4 DEF Form
<1>6. ~Records(id)'
  <2>1. ~Records(id)
    BY <1>1, <1>2, EndedIsOver DEF StartsAreNew
  <2> QED BY <1>1, <1>3, <2>1 DEF Records
<1>7. ASSUME LinksAgree, Exists PROVE Moves
  <2>1. CASE rt' = rt
    BY <1>2, <2>1, StillLinked
  <2>2. CASE rt' # rt
    <3>1. rt.active = id /\ rt'.active = 0 /\ rt'.pending = 0 /\ id # 0
      BY <1>4, <2>2 DEF Form, Ids
    <3>2. rt.pending = 0
      BY <1>7, <3>1 DEF LinksAgree
    <3> QED BY <1>2, <1>6, <3>1, <3>2 DEF Moves
  <2> QED BY <2>1, <2>2
<1>8. (Exists' => Exists) /\ notices' \subseteq notices
  BY <1>1 DEF Exists
<1> QED BY <1>1, <1>2, <1>3, <1>5, <1>7, <1>8, QuietKeeps

\* The id of a claim is new: nothing records under it, and nothing else is linked.
LEMMA ClaimStartingKeeps ==
  ASSUME WatchInv, ClaimStarting
  PROVE  WatchInv'
<1> USE DEF service, engine, others, world, ghosts
<1> DEFINE new == [Unsuppress(Observed(chk.base, chk.digest)) EXCEPT !.starting = TRUE, !.pending = fresh]
<1>1. /\ UNCHANGED <<def, calls, recs, notices, abandoned, rc, svc>> /\ fresh <= MaxRecordings /\ Claimable
      /\ SaveOver(chk.base, new)
      /\ \/ /\ rt'.pending = fresh /\ chk' = [chk EXCEPT !.pc = "claimed", !.base = NewRuntime, !.id = fresh]
            /\ claimed' = fresh /\ fresh' = fresh + 1
         \/ rt'.pending # fresh /\ FinishJob /\ UNCHANGED <<claimed, fresh>>
  BY DEF ClaimStarting
<1>2. IsRuntime(rt) /\ IsRuntime(chk.base) /\ IsScan(rc) /\ IsCheck(chk) /\ fresh \in Nat \ {0}
  BY DEF WatchInv, WatchShape, StartsAreNew, IsCheck
<1>3. Form(new, chk.base.active, fresh)
  <2>1. Form(Observed(chk.base, chk.digest), chk.base.active, chk.base.pending)
    BY <1>2, ObservedForms
  <2>2. PICK o : o = Observed(chk.base, chk.digest)
    OBVIOUS
  <2>3. Form(Unsuppress(o), chk.base.active, chk.base.pending)
    BY <2>1, <2>2, ObservedForms DEF Form
  <2>4. PICK u : u = Unsuppress(o)
    OBVIOUS
  <2>5. Form([u EXCEPT !.starting = TRUE, !.pending = fresh], chk.base.active, fresh)
    BY <2>3, <2>4 DEF Form, IsRuntime
  <2> QED BY <2>2, <2>4, <2>5
<1> HIDE DEF new
<1>4. rt' \in {rt, new} /\ harm \subseteq harm' /\ (Calm' /\ Exists => rt' = rt \/ (rt = chk.base /\ rt' = new))
  BY <1>1, SaveOverForm
<1>5. rt.active = 0 /\ rt.pending = 0 /\ def = "on"
  BY <1>1 DEF Claimable
<1>6. IsRuntime(rt')
  BY <1>2, <1>3, <1>4 DEF Form
<1>7. /\ IsCheck(chk') /\ fresh' \in Nat \ {0} /\ fresh \in Ids /\ fresh' >= fresh
      /\ \/ chk'.pc = "claimed" /\ chk'.id = fresh /\ claimed' = fresh /\ fresh' = fresh + 1
         \/ chk'.pc = "none"
  <2>1. CASE chk' = [chk EXCEPT !.pc = "claimed", !.base = NewRuntime, !.id = fresh] /\ claimed' = fresh /\ fresh' = fresh + 1
    <3>1. IsCheck(chk') /\ chk'.pc = "claimed" /\ chk'.id = fresh
      BY <1>2, <2>1, NewForms DEF Form, IsCheck
    <3> QED BY WatchAssumption, <1>1, <1>2, <2>1, <3>1 DEF Ids
  <2>2. CASE FinishJob /\ UNCHANGED <<claimed, fresh>>
    BY WatchAssumption, <1>1, <1>2, <2>2, JobEnds DEF Ids
  <2> QED BY <1>1, <2>1, <2>2
<1>8. WatchShape'
  BY <1>1, <1>2, <1>6, <1>7 DEF WatchInv, WatchShape
<1>9. StartsAreNew'
  <2>1. \A id \in Ids : id >= fresh' => id >= fresh
    BY <1>2, <1>7 DEF Ids
  <2>2. svc \notin {"down", "recovering"}
    BY DEF ClaimStarting, WatchInv, StartsAreNew
  <2>3. /\ chk'.pc \in {"claimed", "start"} => chk'.id \in Ids /\ claimed' = chk'.id
        /\ chk'.pc = "claimed" => chk'.id < fresh' /\ chk'.id \notin calls /\ recs[chk'.id].state = "none"
    BY <1>2, <1>7 DEF WatchInv, StartsAreNew, Started
  <2> QED BY <1>1, <1>7, <2>1, <2>2, <2>3 DEF WatchInv, StartsAreNew, Started, Ended
<1>10. Unborn'
  BY <1>1, <1>5 DEF Unborn
<1>11. ASSUME Calm' PROVE LinksAgree' /\ SnapshotAgrees'
  <2>1. LinksAgree /\ SnapshotAgrees /\ Exists
    BY <1>4, <1>5, <1>11 DEF WatchInv, Calm, Exists
  <2>2. rt'.active = 0 /\ rt'.pending \in {0, fresh}
    BY <1>3, <1>4, <1>5, <1>11, <2>1 DEF Form
  <2>3. \A id \in Ids : ~Records(id)'
    BY <1>1, <1>5, <2>1 DEF LinksAgree, Records, Ids
  <2>4. LinksAgree'
    BY <1>7, <2>2, <2>3 DEF LinksAgree
  <2>5. SnapshotAgrees'
    BY <1>1, <2>1 DEF SnapshotAgrees, Started, Ended
  <2> QED BY <2>4, <2>5
<1> QED BY <1>8, <1>9, <1>10, <1>11 DEF WatchInv

\* StartResolved: the call is under way with an id that nothing knew before.
LEMMA StartResolvedKeeps ==
  ASSUME WatchInv, StartResolved
  PROVE  WatchInv'
<1> USE DEF service, engine, others, world, ghosts
<1> DEFINE id == chk.id
<1>0. PICK x : x = chk.id
  OBVIOUS
<1>1. /\ UNCHANGED <<def, rt, rc, fresh, notices, abandoned, harm, svc, claimed>> /\ chk.pc = "claimed"
      /\ def = "on" /\ rt.active = 0 /\ rt.pending = x /\ calls' = calls \cup {x}
      /\ chk' = [chk EXCEPT !.pc = "start", !.base = rt]
      /\ \E s, k : recs' = [recs EXCEPT ![x] = [NoRecording EXCEPT !.session = s, !.known = k]]
  BY <1>0 DEF StartResolved, MayStart
<1>2. /\ IsRuntime(rt) /\ IsScan(rc) /\ IsCheck(chk) /\ DOMAIN recs = Ids /\ (\A i \in Ids : IsRecord(recs[i]))
      /\ x \in Ids /\ claimed = x /\ x < fresh /\ x \notin calls /\ ~Started(x) /\ x # 0
  BY <1>0, <1>1 DEF WatchInv, WatchShape, StartsAreNew, Ids
<1>3. IsCheck(chk') /\ chk'.pc = "start" /\ chk'.id = x
  BY <1>0, <1>1, <1>2 DEF IsCheck
<1>4. /\ DOMAIN recs' = Ids /\ (\A i \in Ids : i # x => recs'[i] = recs[i]) /\ IsRecord(recs'[x]) /\ recs'[x].state = "none"
  BY <1>1, <1>2, NewForms DEF IsRecord, NoRecording
<1>5. WatchShape'
  BY <1>1, <1>2, <1>3, <1>4 DEF WatchInv, WatchShape
<1>6. /\ \A i \in Ids : recs'[i].state = recs[i].state
      /\ \A i \in Ids : Records(i)' => Records(i) \/ i = x
  BY <1>1, <1>2, <1>4 DEF Started, Records
<1>7. StartsAreNew'
  <2>1. \A i \in Ids : i >= fresh' => i \notin calls' /\ ~Started(i)'
    <3> SUFFICES ASSUME NEW i \in Ids, i >= fresh PROVE i # x
      BY <1>1, <1>6 DEF WatchInv, StartsAreNew, Started
    <3> QED BY <1>2 DEF WatchInv, StartsAreNew, Ids
  <2>2. svc \notin {"down", "recovering"}
    BY <1>1 DEF WatchInv, StartsAreNew
  <2>3. \A i \in calls' : recs'[i].state = "none"
    BY <1>1, <1>4, <1>6 DEF WatchInv, StartsAreNew
  <2>4. \A i \in notices' : Ended(i)'
    BY <1>1, <1>6 DEF WatchInv, StartsAreNew, Ended
  <2> QED BY <1>1, <1>2, <1>3, <2>1, <2>2, <2>3, <2>4 DEF WatchInv, StartsAreNew
<1>8. Unborn'
  BY <1>1 DEF Unborn
<1>9. ASSUME Calm' PROVE LinksAgree' /\ SnapshotAgrees'
  <2>1. LinksAgree /\ SnapshotAgrees /\ Exists
    BY <1>1, <1>9 DEF WatchInv, Calm, Exists
  <2>2. \A i \in Ids : ~Records(i)
    BY <1>1, <1>2, <2>1 DEF LinksAgree, Records, Started, Ids
  <2>3. LinksAgree'
    BY <1>1, <1>2, <1>3, <1>6, <2>2 DEF LinksAgree
  <2>4. SnapshotAgrees'
    BY <1>1, <1>6, <2>1 DEF SnapshotAgrees, Started, Ended
  <2> QED BY <2>3, <2>4
<1> QED BY <1>5, <1>7, <1>8, <1>9 DEF WatchInv

LEMMA CreateKeeps ==
  ASSUME WatchInv, Create
  PROVE  WatchInv'
<1> USE DEF service, engine, others, world, ghosts
<1>1. /\ UNCHANGED <<calls, recs, fresh, notices, abandoned, harm, rc, svc, claimed, chk>> /\ def = "new" /\ def' = "on" /\ rt' = NewRuntime
  BY DEF Create, CreateDefinition
<1>2. WatchShape'
  BY <1>1, NewForms DEF WatchInv, WatchShape, Form
<1>3. StartsAreNew'
  BY <1>1 DEF WatchInv, StartsAreNew, Started, Ended
<1>4. Unborn'
  BY <1>1 DEF Unborn
<1>5. \A id \in Ids : ~Records(id)'
  BY <1>1 DEF WatchInv, Unborn, Records, Started
<1>6. chk.pc # "start"
  BY <1>1 DEF WatchInv, Unborn
<1>7. LinksAgree'
  BY <1>1, <1>5, <1>6, NewForms DEF LinksAgree, Form
<1>8. Calm' => SnapshotAgrees'
  BY <1>1 DEF WatchInv, SnapshotAgrees, Calm, Started, Ended
<1> QED BY <1>2, <1>3, <1>4, <1>7, <1>8 DEF WatchInv

\* The Engine carries out a call or refuses it, a Recording ends or is deleted.
LEMMA EngineKeeps ==
  ASSUME WatchInv, NEW id \in Ids,
         EngineStarts(id) \/ EngineRefuses(id) \/ StopRecording(id) \/ EndRecording(id) \/ DeleteRecording(id)
  PROVE  WatchInv'
<1> USE DEF service, engine, others, world, ghosts
<1>1. UNCHANGED <<def, rt, chk, rc, svc, claimed, fresh, abandoned, harm>> /\ calls' \subseteq calls
  BY DEF EngineStarts, EngineRefuses, StopRecording, EndRecording, DeleteRecording
<1>2. /\ DOMAIN recs = Ids /\ (\A i \in Ids : IsRecord(recs[i])) /\ StartsAreNew
  BY DEF WatchInv, WatchShape
<1>3. /\ DOMAIN recs' = Ids /\ (\A i \in Ids : i # id => recs'[i] = recs[i]) /\ IsRecord(recs'[id])
      /\ \/ id \in calls /\ calls' = calls \ {id} /\ recs'[id].state \in {"none", "recording"} /\ notices' = notices
         \/ /\ recs[id].state \in {"recording"} \cup Terminal /\ recs'[id].state \in Terminal \cup {"gone"} /\ calls' = calls
            /\ notices' \subseteq notices \cup {id}
  <2>1. CASE EngineStarts(id)
    <3>1. id \in calls /\ calls' = calls \ {id} /\ recs' = [recs EXCEPT ![id].state = "recording"] /\ notices' = notices
      BY <2>1 DEF EngineStarts
    <3> QED BY <1>2, <3>1 DEF IsRecord
  <2>2. CASE EngineRefuses(id)
    <3>1. id \in calls /\ calls' = calls \ {id} /\ recs' = recs /\ notices' = notices
      BY <2>2 DEF EngineRefuses
    <3> QED BY <1>2, <3>1 DEF StartsAreNew
  <2>3. CASE StopRecording(id)
    <3>1. /\ recs[id].state = "recording" /\ recs' = [recs EXCEPT ![id].state = "stopped"] /\ calls' = calls
          /\ notices' = notices \cup {id}
      BY <2>3 DEF StopRecording
    <3> QED BY <1>2, <3>1 DEF IsRecord, Terminal
  <2>4. CASE EndRecording(id)
    <3>1. PICK s \in {"completed", "interrupted"} : recs' = [recs EXCEPT ![id] = [NoRecording EXCEPT !.state = s]]
      BY <2>4 DEF EndRecording
    <3>2. recs[id].state = "recording" /\ calls' = calls /\ notices' = notices
      BY <2>4 DEF EndRecording
    <3>3. IsRecord([NoRecording EXCEPT !.state = s]) /\ [NoRecording EXCEPT !.state = s].state = s
      BY NewForms DEF IsRecord, Terminal
    <3> QED BY <1>2, <3>1, <3>2, <3>3 DEF Terminal
  <2>5. CASE DeleteRecording(id)
    <3>1. /\ recs[id].state \in Terminal /\ calls' = calls /\ notices' = notices
          /\ recs' = [recs EXCEPT ![id] = [NoRecording EXCEPT !.state = "gone"]]
      BY <2>5 DEF DeleteRecording
    <3>2. IsRecord([NoRecording EXCEPT !.state = "gone"]) /\ [NoRecording EXCEPT !.state = "gone"].state = "gone"
      BY NewForms DEF IsRecord
    <3> QED BY <1>2, <3>1, <3>2
  <2> QED BY <2>1, <2>2, <2>3, <2>4, <2>5
<1>4. WatchShape'
  BY <1>1, <1>3 DEF WatchInv, WatchShape
<1>5. /\ \A i \in Ids : Started(i) => Started(i)'
      /\ \A i \in Ids : Ended(i) => Ended(i)'
      /\ \A i \in Ids : Records(i)' => Records(i)
      /\ \A i \in Ids : i \notin calls /\ ~Started(i) => ~Started(i)'
      /\ \A i \in calls' : recs'[i].state = "none"
  <2>1. id \in calls => recs[id].state = "none"
    BY <1>2 DEF StartsAreNew
  <2>2. \A s \in Terminal \cup {"gone"} : s \notin {"none", "recording"}
    BY DEF Terminal
  <2>3. (Started(id) => Started(id)') /\ (Ended(id) => Ended(id)')
    BY <1>3, <2>1, <2>2 DEF Started, Ended
  <2>4. Records(id)' => Records(id)
    BY <1>1, <1>3, <2>1, <2>2 DEF Records
  <2>5. id \notin calls /\ ~Started(id) => ~Started(id)'
    BY <1>3, <2>2 DEF Started
  <2>6. \A i \in calls' : recs'[i].state = "none"
    BY <1>1, <1>2, <1>3, <2>2 DEF StartsAreNew
  <2>7. \A i \in Ids : i # id => (Started(i)' <=> Started(i)) /\ (Ended(i)' <=> Ended(i)) /\ (Records(i)' => Records(i))
    BY <1>1, <1>3 DEF Started, Ended, Records
  <2> QED BY <2>3, <2>4, <2>5, <2>6, <2>7
<1>6. StartsAreNew'
  <2>1. notices' \subseteq Ids /\ \A i \in notices' : Ended(i)'
    BY <1>2, <1>3, <1>5 DEF StartsAreNew, Ended
  <2>2. \A i \in Ids : i >= fresh => i \notin calls' /\ ~Started(i)'
    BY <1>1, <1>2, <1>5 DEF StartsAreNew
  <2>3. chk.pc = "claimed" => chk.id \notin calls' /\ recs'[chk.id].state = "none"
    BY <1>1, <1>2, <1>5 DEF StartsAreNew, Started
  <2> QED BY <1>1, <1>2, <1>5, <2>1, <2>2, <2>3 DEF StartsAreNew, Started
<1>7. Unborn'
  BY <1>1, <1>5 DEF WatchInv, Unborn
<1>8. ASSUME Calm' PROVE LinksAgree' /\ SnapshotAgrees'
  <2>1. LinksAgree /\ SnapshotAgrees
    BY <1>1, <1>8 DEF WatchInv, Calm
  <2>2. SnapshotAgrees'
    BY <1>1, <1>5, <2>1 DEF SnapshotAgrees, Started, Ended
  <2>3. \A i, j \in Ids : Records(i)' /\ Records(j)' => i = j
    BY <1>5, <2>1 DEF LinksAgree
  <2>4. rt.active # 0 /\ Exists => rt.active \in Ids /\ recs'[rt.active].state # "none"
    BY <1>5, <2>1 DEF LinksAgree, Started
  <2>5. LinksAgree'
    BY <1>1, <1>5, <2>1, <2>3, <2>4 DEF LinksAgree, Exists, Started
  <2> QED BY <2>2, <2>5
<1> QED BY <1>4, <1>6, <1>7, <1>8 DEF WatchInv

LEMMA WatchStep ==
  ASSUME WatchInv, [WatchNext]_watchVars
  PROVE  WatchInv'
<1>1. CASE User
  BY <1>1, CreateKeeps, DeleteKeeps, IdleStepKeeps, DefinitionKeeps, EngineKeeps, NotifyKeeps DEF User
<1>2. CASE Worker
  BY <1>2, TakeJobKeeps, IdleStepKeeps, CheckEndsKeeps, SeesLiveKeeps, ClaimStartingKeeps, WithdrawnKeeps,
       StartResolvedKeeps,
     CommitStartKeeps, StartFailsKeeps, CheckReconcilesKeeps DEF Worker
<1>3. CASE Scheduler
  BY <1>3, IdleStepKeeps, LinkSnapshotKeeps, LinkReconcilesKeeps, ReconcilePendingKeeps DEF Scheduler
<1>4. CASE Lifecycle
  BY <1>4, IdleStepKeeps, RecoverLinksKeeps DEF Lifecycle
<1>5. CASE Outside
  BY <1>5, IdleStepKeeps, EngineKeeps DEF Outside
<1> QED BY <1>1, <1>2, <1>3, <1>4, <1>5, IdleStepKeeps DEF WatchNext

LEMMA WatchCardinality ==
  ASSUME NEW S
  PROVE  Cardinality(S) = Cardinality(S)
BY DEF Cardinality, Cardinality

\* At most one Recording of a Watch records, of those whose start it did not give
\* up, until a save of a Runtime that was read before undoes another: in any order of
\* checks, calls, stops and reconciliations, and over crashes. A call that the Watch
\* gave up and the Engine carries out late adds a Recording that is not counted here.
THEOREM WatchRecordsOnce == WatchSpec => []OneActive
<1>1. WatchInit => WatchInv
  BY WatchStarts
<1>2. WatchInv /\ [WatchNext]_watchVars => WatchInv'
  BY WatchStep
<1>3. WatchInv => OneActive
  <2> SUFFICES ASSUME WatchInv, Calm
               PROVE  Cardinality({id \in Ids \ abandoned : recs[id].state = "recording"}) <= 1
    BY DEF OneActive, Calm
  <2> DEFINE S == {id \in Ids \ abandoned : recs[id].state = "recording"}
  <2>1. \A i, j \in S : i = j
    BY DEF WatchInv, LinksAgree, Records
  <2> HIDE DEF S
  <2>2. CASE S = {}
    BY <2>2, FS_EmptySet, WatchCardinality DEF S
  <2>3. CASE S # {}
    <3>1. PICK i \in S : S = {i}
      BY <2>1, <2>3
    <3>2. Cardinality(S) = 1
      BY <3>1, FS_Singleton, WatchCardinality
    <3> QED BY <3>2 DEF S
  <2> QED BY <2>2, <2>3
<1> QED BY <1>1, <1>2, <1>3, PTL DEF WatchSpec

-----------------------------------------------------------------------------
(* A broadcast that the user stopped.                                      *)

\* The user stopped the Recording, and the Watch knows what it recorded or was told.
Kept(j) == j \notin abandoned /\ recs[j].state = "stopped" /\ (recs[j].known \/ recs[j].notified)

\* The broadcast the Runtime saw last.
Sees(r, b) == r.digest = b /\ r.live

\* It suppresses the broadcast, or has what became of it.
Rests(r, b) ==
  \/ r.suppressed /\ {r.suppDigest, r.digest} \subseteq {0, b}
  \/ r.outcome \in {"completed", "stopped"} /\ Sees(r, b)

\* How the Runtime remembers that the Recording j of the broadcast b was stopped: it
\* still links it, or it rests.
Recalls(r, j, b) ==
  \/ j \in {r.active, r.pending} /\ Sees(r, b)
  \/ r.active = 0 /\ r.pending = 0 /\ Rests(r, b)

\* Broadcasts are numbered, and a check that starts one has seen every earlier one.
Numbered ==
  /\ broadcasts \in Nat /\ air \in {0, broadcasts}
  /\ \A j \in Ids : recs[j].session \in 0 .. broadcasts /\ (recs[j].notified => Ended(j))
  /\ chk.pc \in {"claim", "claimed"} =>
       /\ chk.session \in 1 .. broadcasts /\ chk.digest \in {0, chk.session}
       /\ \A j \in Ids : recs[j].session <= chk.session

\* Nothing keeps the check from starting a Recording, for none was stopped.
Unstopped == \A j \in Ids : Kept(j) => recs[j].session # chk.session

Suppresses(r) == r.suppressed /\ r.suppDigest # 0 => r.suppDigest = r.digest

\* A stopped broadcast that is still on the air is remembered until a check would
\* start it, and the start has an identity that the Runtime knows.
StopsRemembered ==
  /\ Suppresses(rt)
  /\ air # 0 => \A j \in Ids : recs[j].session = air =>
       /\ Records(j) /\ recs[j].known => Sees(rt, air)
       /\ Kept(j) => Recalls(rt, j, air)
  /\ chk.pc = "claim" /\ chk.base.pending = 0 => rt.active = 0 /\ rt.pending = 0 /\ Unstopped
  /\ chk.pc = "claimed" =>
       /\ rt.active = 0 /\ rt.pending = chk.id /\ Unstopped
       /\ chk.digest # 0 => Sees(rt, chk.digest)

\* What the link reconciliation saw at an end is the end there was.
SnapshotIsOld ==
  rc.kind = "links" => rc.seen = "recording" \/ recs[rc.base.active].state \in {rc.seen, "gone"}

StopInv == Numbered /\ (Calm => SnapshotIsOld) /\ (Calm /\ Exists => StopsRemembered)

\* The step of StoppedStaysStopped.
StoppedStay ==
  \A id \in calls' \ calls : \A j \in Ids \ (abandoned \cup {id}) :
    recs[j].state = "stopped" /\ recs[j].session = recs'[id].session
      => ~(recs[j].known \/ recs[j].notified) \/ "stale" \in harm

\* What the Runtimes r and s remember of the broadcast they saw last.
SameMemory(s, r) ==
  s.digest = r.digest /\ s.live = r.live /\ s.suppressed = r.suppressed /\ s.suppDigest = r.suppDigest

LEMMA MemoryForms ==
  ASSUME NEW r, IsRuntime(r)
  PROVE  /\ SameMemory(Idle(r), r) /\ Idle(r).outcome = r.outcome
         /\ SameMemory(Unpend(r), r) /\ Unpend(r).outcome = r.outcome
         /\ SameMemory([r EXCEPT !.pending = 0], r) /\ [r EXCEPT !.pending = 0].outcome = r.outcome
         /\ SameMemory(Unlink(r), r) /\ Unlink(r).outcome = r.outcome
         /\ \A s : SameMemory([Unlink(r) EXCEPT !.outcome = s], r) /\ [Unlink(r) EXCEPT !.outcome = s].outcome = s
         /\ \A a : SameMemory([Unpend(r) EXCEPT !.active = a, !.outcome = "none"], r)
         /\ \A a : /\ SameMemory([Unpend(r) EXCEPT !.active = a], r)
                   /\ [Unpend(r) EXCEPT !.active = a].outcome = r.outcome
         /\ \A s : /\ SameMemory([Unpend(r) EXCEPT !.active = 0, !.outcome = s], r)
                   /\ [Unpend(r) EXCEPT !.active = 0, !.outcome = s].outcome = s
<1>1. SameMemory(Idle(r), r) /\ Idle(r).outcome = r.outcome
  BY DEF IsRuntime, SameMemory, Idle
<1>2. SameMemory(Unpend(r), r) /\ Unpend(r).outcome = r.outcome
  BY DEF IsRuntime, SameMemory, Unpend
<1>3. SameMemory([r EXCEPT !.pending = 0], r) /\ [r EXCEPT !.pending = 0].outcome = r.outcome
  BY DEF IsRuntime, SameMemory
<1>4. SameMemory(Unlink(r), r) /\ Unlink(r).outcome = r.outcome
  BY DEF IsRuntime, SameMemory, Unlink
<1>5. ASSUME NEW s
      PROVE  SameMemory([Unlink(r) EXCEPT !.outcome = s], r) /\ [Unlink(r) EXCEPT !.outcome = s].outcome = s
  BY DEF IsRuntime, SameMemory, Unlink
<1>6. ASSUME NEW a PROVE SameMemory([Unpend(r) EXCEPT !.active = a, !.outcome = "none"], r)
  BY DEF IsRuntime, SameMemory, Unpend
<1>7. ASSUME NEW a
      PROVE  SameMemory([Unpend(r) EXCEPT !.active = a], r) /\ [Unpend(r) EXCEPT !.active = a].outcome = r.outcome
  BY DEF IsRuntime, SameMemory, Unpend
<1>8. ASSUME NEW s
      PROVE  /\ SameMemory([Unpend(r) EXCEPT !.active = 0, !.outcome = s], r)
             /\ [Unpend(r) EXCEPT !.active = 0, !.outcome = s].outcome = s
  BY DEF IsRuntime, SameMemory, Unpend
<1> QED BY <1>1, <1>2, <1>3, <1>4, <1>5, <1>6, <1>7, <1>8

\* The Engine's answers about its links do not change what the Runtime remembers
\* of the broadcast, but for an end that they report.
LEMMA ResolvedMemory ==
  ASSUME NEW r, IsRuntime(r), NEW seen
  PROVE  /\ SameMemory(Resolved(r, seen), r)
         /\ Resolved(r, seen).outcome = IF seen \in Terminal THEN seen ELSE r.outcome
<1>0. seen \in Terminal => seen \notin {"error", "recording"}
  BY DEF Terminal
<1> USE MemoryForms
<1>1. CASE seen = "error"
  BY <1>0, <1>1 DEF Resolved
<1>2. CASE seen = "recording"
  BY <1>0, <1>2 DEF Resolved
<1>3. CASE seen \in Terminal
  <2>1. Resolved(r, seen) = [Unpend(r) EXCEPT !.active = 0, !.outcome = seen]
    BY <1>0, <1>3 DEF Resolved
  <2>2. /\ SameMemory([Unpend(r) EXCEPT !.active = 0, !.outcome = seen], r)
        /\ [Unpend(r) EXCEPT !.active = 0, !.outcome = seen].outcome = seen
    BY DEF IsRuntime, SameMemory, Unpend
  <2> QED BY <1>3, <2>1, <2>2
<1>4. CASE seen \notin {"error", "recording"} \cup Terminal
  BY <1>4 DEF Resolved
<1> QED BY <1>1, <1>2, <1>3, <1>4

LEMMA RelinkedMemory ==
  ASSUME NEW r, IsRuntime(r), NEW seen, r.active = 0 => seen \notin Terminal
  PROVE  /\ SameMemory(Relinked(r, seen), r)
         /\ Relinked(r, seen).outcome = IF seen \in Terminal THEN seen ELSE r.outcome
<1>0. seen \in Terminal => seen \notin {"error", "recording"}
  BY DEF Terminal
<1>1. CASE r.active = 0 \/ seen \in {"recording", "error"}
  <2>1. seen \notin Terminal
    BY <1>0, <1>1
  <2>2. Relinked(r, seen) = Idle(r)
    BY <1>1, <2>1 DEF Relinked
  <2> QED BY <2>1, <2>2, MemoryForms
<1>2. CASE ~(r.active = 0 \/ seen \in {"recording", "error"}) /\ seen \in Terminal
  <2>1. Relinked(r, seen) = [Unlink(r) EXCEPT !.outcome = seen]
    BY <1>2 DEF Relinked
  <2> QED BY <1>2, <2>1 DEF IsRuntime, SameMemory, Unlink
<1>3. CASE ~(r.active = 0 \/ seen \in {"recording", "error"}) /\ seen \notin Terminal
  <2>1. Relinked(r, seen) = Unlink(r)
    BY <1>3 DEF Relinked
  <2> QED BY <1>3, <2>1, MemoryForms
<1> QED BY <1>1, <1>2, <1>3

\* What the step may make of the Runtime: the memory of the broadcast stays, and a
\* link to a stopped Recording is replaced by how it ended.
Remembers ==
  /\ SameMemory(rt', rt)
  /\ rt.active = 0 /\ rt.pending = 0 => rt'.active = 0 /\ rt'.pending = 0 /\ rt'.outcome = rt.outcome
  /\ \A j \in Ids : Kept(j)' /\ j \in {rt.active, rt.pending} =>
       \/ j \in {rt'.active, rt'.pending}
       \/ rt'.active = 0 /\ rt'.pending = 0 /\ rt'.outcome \in {"completed", "stopped"}
  /\ chk'.pc = "claimed" => rt'.active = rt.active /\ rt'.pending = rt.pending

\* What the step may do to a check about to start a Recording.
JobRecalls ==
  chk'.pc \in {"claim", "claimed"} =>
    /\ chk'.pc = chk.pc /\ chk'.id = chk.id /\ chk'.digest = chk.digest /\ chk'.session = chk.session
    /\ chk'.base = chk.base

\* The broadcast goes on, it ends, or there is another one.
AirMoves ==
  \/ broadcasts' = broadcasts /\ air' \in {0, air}
  \/ broadcasts' = broadcasts + 1 /\ air' = broadcasts'

LEMMA NumberedStays ==
  ASSUME Numbered, WatchShape, UNCHANGED recs, AirMoves, JobRecalls
  PROVE  Numbered' /\ (air' # 0 => air' = air \/ \A j \in Ids : recs[j].session # air')
<1>1. \A j \in Ids : recs[j].session \in 0 .. broadcasts /\ (recs[j].notified => Ended(j))
  BY DEF Numbered
<1>2. broadcasts' \in Nat /\ broadcasts' >= broadcasts /\ air' \in {0, broadcasts'} /\ broadcasts \in Nat
  BY DEF Numbered, AirMoves
<1>3. \A j \in Ids : recs'[j].session \in 0 .. broadcasts' /\ (recs'[j].notified => Ended(j)')
  BY <1>1, <1>2 DEF Ended
<1>4. chk'.pc \in {"claim", "claimed"} =>
        /\ chk'.session \in 1 .. broadcasts' /\ chk'.digest \in {0, chk'.session}
        /\ \A j \in Ids : recs'[j].session <= chk'.session
  BY <1>2 DEF Numbered, JobRecalls
<1>5. air' # 0 => air' = air \/ \A j \in Ids : recs[j].session # air'
  BY <1>1, <1>2 DEF AirMoves
<1> QED BY <1>2, <1>3, <1>4, <1>5 DEF Numbered

LEMMA QuietRecalls ==
  ASSUME WatchInv, StopInv, UNCHANGED <<calls, recs>>, AirMoves, abandoned \subseteq abandoned', harm \subseteq harm',
         Exists' => Exists, JobRecalls, rc' = rc \/ rc'.kind # "links" \/ SnapshotIsOld',
         Calm' /\ Exists' /\ LinksAgree /\ SnapshotAgrees =>
           Remembers \/ (Suppresses(rt') /\ air' = 0 /\ chk'.pc \notin {"claim", "claimed"})
  PROVE  StopInv'
<1>1. Numbered' /\ (air' # 0 => air' = air \/ \A j \in Ids : recs[j].session # air')
  BY NumberedStays DEF StopInv, WatchInv
<1>2. \A j \in Ids : (Kept(j)' => Kept(j)) /\ (Records(j)' => Records(j))
  BY DEF Kept, Records
<1>3. ASSUME Calm', Exists' PROVE StopsRemembered'
  <2>1. StopsRemembered /\ LinksAgree /\ SnapshotAgrees
    BY <1>3 DEF StopInv, WatchInv, Calm
  <2>2. CASE Suppresses(rt') /\ air' = 0 /\ chk'.pc \notin {"claim", "claimed"}
    BY <2>2 DEF StopsRemembered, Suppresses
  <2>3. CASE Remembers
    <3>1. Suppresses(rt')
      BY <2>1, <2>3 DEF StopsRemembered, Suppresses, Remembers, SameMemory
    <3>2. ASSUME NEW j \in Ids, air' # 0, recs'[j].session = air'
          PROVE  /\ Records(j)' /\ recs'[j].known => Sees(rt', air')
                 /\ Kept(j)' => Recalls(rt', j, air')
      <4>1. air' = air /\ recs[j].session = air
        BY <1>1, <3>2
      <4>2. \A b : Sees(rt, b) => Sees(rt', b)
        BY <2>3 DEF Remembers, SameMemory, Sees
      <4>3. Records(j)' /\ recs'[j].known => Sees(rt', air')
        BY <1>2, <2>1, <3>2, <4>1, <4>2 DEF StopsRemembered
      <4>4. ASSUME Kept(j)' PROVE Recalls(rt', j, air')
        <5>1. Recalls(rt, j, air)
          BY <1>2, <2>1, <3>2, <4>1, <4>4 DEF StopsRemembered
        <5>2. CASE j \in {rt.active, rt.pending} /\ Sees(rt, air)
          BY <2>3, <4>1, <4>2, <4>4, <5>2 DEF Remembers, Recalls, Rests
        <5>3. CASE rt.active = 0 /\ rt.pending = 0
          BY <2>3, <4>1, <4>2, <5>1, <5>3 DEF Remembers, Recalls, Rests, SameMemory, Ids, Sees
        <5> QED BY <5>1, <5>2, <5>3 DEF Recalls
      <4> QED BY <4>3, <4>4
    <3>3. chk'.pc = "claim" /\ chk'.base.pending = 0 => rt'.active = 0 /\ rt'.pending = 0 /\ Unstopped'
      BY <1>2, <2>1, <2>3 DEF StopsRemembered, Unstopped, JobRecalls, Remembers
    <3>4. chk'.pc = "claimed" => /\ rt'.active = 0 /\ rt'.pending = chk'.id /\ Unstopped'
                                 /\ chk'.digest # 0 => Sees(rt', chk'.digest)
      BY <1>2, <2>1, <2>3 DEF StopsRemembered, Unstopped, JobRecalls, Remembers, SameMemory, Sees
    <3> QED BY <3>1, <3>2, <3>3, <3>4 DEF StopsRemembered, Suppresses
  <2> QED BY <1>3, <2>1, <2>2, <2>3
<1>4. Calm' => SnapshotIsOld'
  <2>1. CASE rc' = rc
    BY <2>1 DEF StopInv, SnapshotIsOld, Calm
  <2>2. CASE rc'.kind # "links"
    BY <2>2 DEF SnapshotIsOld
  <2> QED BY <2>1, <2>2
<1> QED BY <1>1, <1>3, <1>4 DEF StopInv

LEMMA StillRemembers ==
  ASSUME UNCHANGED rt
  PROVE  Remembers
BY DEF Remembers, SameMemory

LEMMA JobStaysOrEnds ==
  ASSUME IsCheck(chk), FinishJob \/ UNCHANGED chk \/ \E b : chk' = [chk EXCEPT !.cancel = b]
  PROVE  JobRecalls
<1>1. CASE FinishJob
  BY <1>1, JobEnds DEF JobRecalls
<1>2. CASE UNCHANGED chk
  BY <1>2 DEF JobRecalls
<1>3. ASSUME NEW b, chk' = [chk EXCEPT !.cancel = b] PROVE JobRecalls
  BY <1>3 DEF IsCheck, JobRecalls
<1> QED BY <1>1, <1>2, <1>3

LEMMA IdleStepRecalls ==
  ASSUME WatchInv, StopInv,
         \/ ManualCheck \/ ScheduleDue \/ FailQueued \/ Pause \/ Resume \/ CheckCancelled \/ ClaimRefused \/ Run
         \/ CloseService \/ Closed \/ Crash \/ BroadcastStarts \/ BroadcastEnds \/ LinkSnapshot \/ UNCHANGED watchVars
  PROVE  StopInv'
<1> USE DEF service, engine, others, world, ghosts
<1>1. UNCHANGED <<def, rt, calls, recs, abandoned, harm>>
  BY DEF ManualCheck, ScheduleDue, Enqueue, FailQueued, Pause, Resume, CheckCancelled, ClaimRefused,
       Run, CloseService, Closed, Crash,
         BroadcastStarts, BroadcastEnds, LinkSnapshot, watchVars, FinishJob
<1>2. IsCheck(chk) /\ IsScan(rc)
  BY DEF WatchInv, WatchShape
<1>3. rc' = rc \/ rc'.kind # "links" \/ SnapshotIsOld'
  <2>1. CASE Run
    BY <2>1 DEF Run, Loaded
  <2>2. CASE Crash
    BY <2>2, NewForms DEF Crash
  <2>3. CASE LinkSnapshot
    <3>1. rc' = [kind |-> "links", base |-> rt, seen |-> StateOf(rt.active)] /\ rt.active # 0
      BY <2>3 DEF LinkSnapshot
    <3>2. rc'.seen = recs[rt.active].state /\ rc'.base = rt
      BY <3>1 DEF StateOf
    <3> QED BY <1>1, <3>2 DEF SnapshotIsOld
  <2> QED BY <2>1, <2>2, <2>3 DEF ManualCheck, ScheduleDue, Enqueue, FailQueued, Pause, Resume,
               CheckCancelled, ClaimRefused,
          CloseService, Closed, BroadcastStarts, BroadcastEnds, watchVars, FinishJob
<1>4. JobRecalls
  <2>1. CASE ManualCheck \/ ScheduleDue
    <3>1. chk' = [NoCheck EXCEPT !.pc = "queued"]
      BY <2>1 DEF ManualCheck, ScheduleDue, Enqueue
    <3>2. chk'.pc = "queued"
      BY <3>1, NewForms, StepForm
    <3> QED BY <3>2 DEF JobRecalls
  <2>2. CASE ~(ManualCheck \/ ScheduleDue)
    <3>1. FinishJob \/ UNCHANGED chk \/ \E b : chk' = [chk EXCEPT !.cancel = b]
      BY <2>2 DEF FailQueued, Pause, Resume, CheckCancelled, ClaimRefused, Run, CloseService, Closed,
           Crash,
         BroadcastStarts, BroadcastEnds, LinkSnapshot, watchVars, FinishJob
    <3> QED BY <1>2, <3>1, JobStaysOrEnds
  <2> QED BY <2>1, <2>2
<1>5. AirMoves
  <2>1. CASE BroadcastStarts
    BY <2>1 DEF BroadcastStarts, AirMoves
  <2>2. CASE BroadcastEnds
    BY <2>2 DEF BroadcastEnds, AirMoves
  <2>3. CASE ~(BroadcastStarts \/ BroadcastEnds)
    <3>1. UNCHANGED <<air, broadcasts>>
      BY <2>3 DEF ManualCheck, ScheduleDue, Enqueue, FailQueued, Pause, Resume, CheckCancelled,
           ClaimRefused, Run, CloseService, Closed, Crash,
         LinkSnapshot, watchVars
    <3> QED BY <3>1 DEF AirMoves
  <2> QED BY <2>1, <2>2, <2>3
<1>6. Exists' => Exists
  BY <1>1 DEF Exists
<1> QED BY <1>1, <1>3, <1>4, <1>5, <1>6, StillRemembers, QuietRecalls

\* A step of the Runtime's other fields.
LEMMA SameMemoryRemembers ==
  ASSUME IsRuntime(rt), NEW new, rt' \in {new, rt}, SameMemory(new, rt), new.outcome = rt.outcome,
         new.active = rt.active, new.pending = rt.pending
  PROVE  Remembers
<1>1. CASE rt' = rt
  BY <1>1, StillRemembers
<1>2. CASE rt' = new
  BY <1>2 DEF Remembers
<1> QED BY <1>1, <1>2

LEMMA AirStays ==
  ASSUME UNCHANGED <<air, broadcasts>>
  PROVE  AirMoves
BY DEF AirMoves

LEMMA TakeJobRecalls ==
  ASSUME WatchInv, StopInv, TakeJob
  PROVE  StopInv'
<1> USE DEF service, engine, others, world, ghosts
<1>1. UNCHANGED <<def, calls, recs, abandoned, harm, rc, air, broadcasts>> /\ rt' \in {Idle(rt), rt}
  BY DEF TakeJob
<1>2. IsCheck(chk) /\ IsRuntime(rt)
  BY DEF WatchInv, WatchShape
<1>3. chk'.pc \in {"none", "reconcile", "ask"}
  <2>1. CASE chk' = [chk EXCEPT !.pc = "reconcile", !.base = rt]
    BY <1>2, <2>1 DEF IsCheck
  <2>2. CASE chk' = [chk EXCEPT !.pc = "ask"]
    BY <1>2, <2>2, StepForm
  <2>3. CASE FinishJob
    BY <2>3, JobEnds
  <2> QED BY <2>1, <2>2, <2>3 DEF TakeJob
<1>4. JobRecalls
  BY <1>3 DEF JobRecalls
<1>5. Remembers
  <2>1. Form(Idle(rt), rt.active, rt.pending) /\ SameMemory(Idle(rt), rt) /\ Idle(rt).outcome = rt.outcome
    BY <1>2, RuntimeForms, MemoryForms
  <2> QED BY <1>1, <1>2, <2>1, SameMemoryRemembers DEF Form
<1>6. Exists' => Exists
  BY <1>1 DEF Exists
<1> QED BY <1>1, <1>4, <1>5, <1>6, AirStays, QuietRecalls

LEMMA NewSuppresses ==
  /\ Suppresses(NewRuntime) /\ NewRuntime.active = 0 /\ NewRuntime.pending = 0
  /\ \A p : Suppresses([NewRuntime EXCEPT !.pending = p])
BY DEF NewRuntime, Suppresses

\* Update and SetEnabled.
LEMMA DefinitionRecalls ==
  ASSUME WatchInv, StopInv,
         \/ \E changed, enabled \in BOOLEAN : Update(changed, enabled)
         \/ \E enabled \in BOOLEAN : SetEnabled(enabled)
  PROVE  StopInv'
<1> USE DEF service, engine, others, world, ghosts
<1>1. UNCHANGED <<calls, recs, abandoned, harm, rc, broadcasts>> /\ Exists /\ (UNCHANGED chk \/ \E b : chk' = [chk EXCEPT !.cancel = b])
  BY DEF Update, SetEnabled
<1>2. IsRuntime(rt) /\ IsCheck(chk) /\ JobRecalls
  BY <1>1, JobStaysOrEnds DEF WatchInv, WatchShape
<1>3. ASSUME NEW changed \in BOOLEAN, NEW enabled, Update(changed, enabled)
      PROVE  AirMoves /\ (Remembers \/ (Suppresses(rt') /\ air' = 0 /\ chk'.pc \notin {"claim", "claimed"}))
  <2>1. /\ SaveRuntime(IF changed THEN [NewRuntime EXCEPT !.pending = rt.pending] ELSE rt)
        /\ air' = (IF changed THEN 0 ELSE air) /\ chk.pc = "none" /\ chk' = chk /\ broadcasts' = broadcasts
    BY <1>3 DEF Update
  <2>2. AirMoves
    BY <2>1 DEF AirMoves
  <2>3. rt' = rt \/ (changed /\ rt' = [NewRuntime EXCEPT !.pending = rt.pending])
    BY <2>1, SaveForm
  <2> QED BY <2>1, <2>2, <2>3, NewSuppresses, StillRemembers
<1>4. ASSUME NEW enabled, SetEnabled(enabled) PROVE AirMoves /\ Remembers
  <2>1. SaveRuntime(Idle(rt)) /\ UNCHANGED <<air, broadcasts>>
    BY <1>4 DEF SetEnabled
  <2>2. rt' \in {Idle(rt), rt}
    BY <2>1, SaveForm
  <2>3. Form(Idle(rt), rt.active, rt.pending) /\ SameMemory(Idle(rt), rt) /\ Idle(rt).outcome = rt.outcome
    BY <1>2, RuntimeForms, MemoryForms
  <2> QED BY <1>2, <2>1, <2>2, <2>3, AirStays, SameMemoryRemembers DEF Form
<1>5. AirMoves /\ (Remembers \/ (Suppresses(rt') /\ air' = 0 /\ chk'.pc \notin {"claim", "claimed"}))
  BY <1>3, <1>4
<1> QED BY <1>1, <1>2, <1>5, QuietRecalls

LEMMA DeleteRecalls ==
  ASSUME WatchInv, StopInv, Delete
  PROVE  StopInv'
<1> USE DEF service, engine, others, world, ghosts
<1>1. /\ UNCHANGED <<calls, recs, harm, rc, air, broadcasts>> /\ def' = "deleted" /\ abandoned \subseteq abandoned'
      /\ \E b : chk' = [chk EXCEPT !.cancel = b]
  BY DEF Delete, DeleteDefinition
<1>2. JobRecalls
  BY <1>1, JobStaysOrEnds DEF WatchInv, WatchShape
<1>3. ~Exists'
  BY <1>1 DEF Exists
<1> QED BY <1>1, <1>2, <1>3, AirStays, QuietRecalls

\* A pending start is given up: the Recording it names was not stopped, or it is lost.
LEMMA UnpendRemembers ==
  ASSUME IsRuntime(rt), rt' \in {Unpend(rt), [rt EXCEPT !.pending = 0], rt}, chk'.pc # "claimed",
         \A j \in Ids : Kept(j)' /\ j = rt.pending => j \in {rt'.active, rt'.pending}
  PROVE  Remembers
<1>1. /\ Form(Unpend(rt), rt.active, 0) /\ Form([rt EXCEPT !.pending = 0], rt.active, 0)
      /\ SameMemory(Unpend(rt), rt) /\ SameMemory([rt EXCEPT !.pending = 0], rt)
      /\ Unpend(rt).outcome = rt.outcome /\ [rt EXCEPT !.pending = 0].outcome = rt.outcome
  BY RuntimeForms, MemoryForms
<1>2. CASE rt' = rt
  BY <1>2, StillRemembers
<1>3. CASE rt' # rt
  <2>1. SameMemory(rt', rt) /\ rt'.outcome = rt.outcome /\ rt'.active = rt.active /\ rt'.pending = 0
    BY <1>1, <1>3 DEF Form
  <2> QED BY <2>1 DEF Remembers
<1> QED BY <1>2, <1>3

LEMMA LostIsNotKept ==
  ASSUME NEW x, abandoned' = abandoned \cup Forgotten(x), UNCHANGED <<calls, recs>>, NEW j \in Ids, Kept(j)', j = x
  PROVE  j \in {rt'.active, rt'.pending}
<1>1. x # 0 /\ Started(x) /\ x \notin abandoned'
  BY DEF Ids, Kept, Started
<1> QED BY <1>1 DEF Forgotten

LEMMA CheckEndsRecalls ==
  ASSUME WatchInv, StopInv, CheckFails \/ SeesOffline
  PROVE  StopInv'
<1> USE DEF service, engine, others, world, ghosts
<1>1. UNCHANGED <<def, calls, recs, harm, rc, air, broadcasts>> /\ FinishJob /\ abandoned \subseteq abandoned'
  BY DEF CheckFails, SeesOffline, Failed
<1>2. IsRuntime(rt) /\ IsCheck(chk) /\ chk'.pc = "none" /\ (Exists' => Exists)
  BY <1>1, JobEnds DEF WatchInv, WatchShape, Exists
<1>3. JobRecalls
  BY <1>1, <1>2, JobStaysOrEnds
<1>4. CASE UNCHANGED rt
  BY <1>1, <1>2, <1>3, <1>4, AirStays, StillRemembers, QuietRecalls
<1>5. CASE Failed
  <2>1. SaveRuntime(Unpend(rt)) /\ abandoned' = abandoned \cup Forgotten(rt.pending)
    BY <1>5 DEF Failed
  <2>2. rt' \in {Unpend(rt), rt}
    BY <2>1, SaveForm
  <2>3. \A j \in Ids : Kept(j)' /\ j = rt.pending => j \in {rt'.active, rt'.pending}
    BY <1>1, <2>1, LostIsNotKept
  <2>4. Remembers
    BY <1>2, <2>2, <2>3, UnpendRemembers
  <2> QED BY <1>1, <1>2, <1>3, <2>4, AirStays, QuietRecalls
<1>6. CASE SeesOffline
  <2>1. SaveRuntime([NewRuntime EXCEPT !.pending = rt.pending]) /\ air = 0
    BY <1>6 DEF SeesOffline
  <2>2. rt' = rt \/ Suppresses(rt')
    BY <2>1, SaveForm, NewSuppresses
  <2> QED BY <1>1, <1>2, <1>3, <2>1, <2>2, AirStays, StillRemembers, QuietRecalls
<1> QED BY <1>4, <1>5, <1>6 DEF CheckFails

LEMMA WithdrawnRecalls ==
  ASSUME WatchInv, StopInv, ClearPendingStart \/ StartRefused \/ RelationFails
  PROVE  StopInv'
<1> USE DEF service, engine, others, world, ghosts
<1>1. UNCHANGED <<def, calls, recs, abandoned, harm, rc, air, broadcasts>> /\ chk.pc = "claimed" /\ FinishJob
  BY DEF ClearPendingStart, StartRefused, RelationFails
<1>2. IsRuntime(rt) /\ IsCheck(chk) /\ chk'.pc = "none" /\ (Exists' => Exists)
  BY <1>1, JobEnds DEF WatchInv, WatchShape, Exists
<1>3. JobRecalls
  BY <1>1, <1>2, JobStaysOrEnds
<1>4. rt' = rt \/ (rt.pending = chk.id /\ rt' \in {Unpend(rt), [rt EXCEPT !.pending = 0]})
  <2>1. CASE ClearPendingStart \/ StartRefused
    BY <2>1, SaveForm DEF ClearPendingStart, StartRefused
  <2>2. CASE RelationFails
    BY <2>2 DEF RelationFails, MayStart
  <2> QED BY <2>1, <2>2
<1>5. \A j \in Ids : j = chk.id => ~Kept(j)'
  BY <1>1 DEF WatchInv, StartsAreNew, Kept, Started
<1>6. Remembers
  <2>1. CASE rt' = rt
    BY <2>1, StillRemembers
  <2>2. CASE rt' # rt
    BY <1>2, <1>4, <1>5, <2>2, UnpendRemembers
  <2> QED BY <2>1, <2>2
<1> QED BY <1>1, <1>2, <1>3, <1>6, AirStays, QuietRecalls

LEMMA CommitStartRecalls ==
  ASSUME WatchInv, StopInv, CommitStart
  PROVE  StopInv'
<1> USE DEF service, engine, others, world, ghosts
<1>1. UNCHANGED <<def, calls, recs, abandoned, harm, rc, air, broadcasts>> /\ chk.pc = "start" /\ FinishJob
  BY DEF CommitStart
<1>2. IsRuntime(rt) /\ IsCheck(chk) /\ chk'.pc = "none" /\ (Exists' => Exists) /\ chk.id \in Ids
  BY <1>1, JobEnds DEF WatchInv, WatchShape, Exists, StartsAreNew
<1>3. JobRecalls
  BY <1>1, <1>2, JobStaysOrEnds
<1>4. PICK x : x = chk.id
  OBVIOUS
<1>5. rt' = rt \/ (rt.pending = x /\ rt' = [Unpend(rt) EXCEPT !.active = x, !.outcome = "none"])
  BY <1>4, SaveForm DEF CommitStart
<1>6. /\ Form([Unpend(rt) EXCEPT !.active = x, !.outcome = "none"], x, 0)
      /\ SameMemory([Unpend(rt) EXCEPT !.active = x, !.outcome = "none"], rt)
  BY <1>2, RuntimeForms, MemoryForms
<1>7. ASSUME LinksAgree, Exists PROVE Remembers
  <2>1. CASE rt' = rt
    BY <2>1, StillRemembers
  <2>2. CASE rt' # rt
    <3>1. x # 0 /\ rt.pending = x /\ rt.active = 0
      BY <1>2, <1>4, <1>5, <1>7, <2>2 DEF Ids, LinksAgree
    <3>2. SameMemory(rt', rt) /\ rt'.active = x /\ rt'.pending = 0
      BY <1>5, <1>6, <2>2 DEF Form
    <3>3. \A j \in Ids : j # 0
      BY DEF Ids
    <3> QED BY <1>2, <3>1, <3>2, <3>3 DEF Remembers
  <2> QED BY <2>1, <2>2
<1> QED BY <1>1, <1>2, <1>3, <1>7, AirStays, QuietRecalls

LEMMA StartFailsRecalls ==
  ASSUME WatchInv, StopInv, StartFails
  PROVE  StopInv'
<1> USE DEF service, engine, others, world, ghosts
<1>1. /\ UNCHANGED <<def, calls, recs, rc, air, broadcasts>> /\ chk.pc = "start" /\ FinishJob
      /\ rt' \in {Unpend(chk.base), Unpend(rt), rt}
      /\ harm' = harm \cup {h \in {"stale"} : rt' = Unpend(chk.base) /\ rt # chk.base}
      /\ abandoned' = abandoned \cup Forgotten(chk.id)
  BY DEF StartFails
<1>2. IsRuntime(rt) /\ IsCheck(chk) /\ chk'.pc = "none" /\ (Exists' => Exists)
  BY <1>1, JobEnds DEF WatchInv, WatchShape, Exists
<1>3. JobRecalls
  BY <1>1, <1>2, JobStaysOrEnds
<1>4. ASSUME Calm', Exists, LinksAgree PROVE Remembers
  <2>1. rt' \in {Unpend(rt), rt} /\ rt.pending = chk.id
    BY <1>1, <1>4 DEF Calm, LinksAgree
  <2>2. \A j \in Ids : Kept(j)' /\ j = rt.pending => j \in {rt'.active, rt'.pending}
    BY <1>1, <2>1, LostIsNotKept
  <2> QED BY <1>2, <2>1, <2>2, UnpendRemembers
<1>5. abandoned \subseteq abandoned' /\ harm \subseteq harm'
  BY <1>1
<1> QED BY <1>1, <1>2, <1>3, <1>4, <1>5, AirStays, QuietRecalls

\* A reconciled link to a stopped Recording becomes the outcome "stopped".
LEMMA ReconcileRemembers ==
  ASSUME IsRuntime(rt), NEW base, NEW seen, Reconcile(base, seen), LinksAgree, Exists, Calm',
         rt = base /\ seen \notin {"recording", "error"} =>
           \A j \in Ids : j = rt.active /\ Kept(j)' => seen = "stopped",
         rt = base /\ seen \in Terminal => rt.active # 0,
         rt = base => chk'.pc # "claimed"
  PROVE  Remembers
<1> DEFINE new == CASE seen \in {"recording", "error"} -> Idle(base)
                    [] seen \in Terminal -> [Unlink(base) EXCEPT !.outcome = seen]
                    [] OTHER -> Unlink(base)
<1>1. SaveOver(base, new)
  BY DEF Reconcile
<1>2. seen \in Terminal => seen \notin {"recording", "error"}
  BY DEF Terminal
<1>3. CASE rt' = rt
  BY <1>3, StillRemembers
<1>4. CASE rt = base /\ rt' = new
  <2>1. CASE seen \in {"recording", "error"}
    <3>1. rt' = Idle(rt)
      BY <1>2, <1>4, <2>1
    <3>2. Form(Idle(rt), rt.active, rt.pending) /\ SameMemory(Idle(rt), rt) /\ Idle(rt).outcome = rt.outcome
      BY RuntimeForms, MemoryForms
    <3> QED BY <3>1, <3>2, SameMemoryRemembers DEF Form
  <2>2. CASE seen \in Terminal
    <3>1. rt' = [Unlink(rt) EXCEPT !.outcome = seen]
      BY <1>2, <1>4, <2>2
    <3>2. Form(rt', 0, rt.pending) /\ SameMemory(rt', rt) /\ rt'.outcome = seen
      BY <3>1 DEF IsRuntime, Form, SameMemory, Unlink
    <3>3. rt.active # 0 /\ rt.pending = 0
      BY <1>4, <2>2 DEF LinksAgree
    <3>4. \A j \in Ids : j # 0
      BY DEF Ids
    <3>5. \A j \in Ids : Kept(j)' /\ j \in {rt.active, rt.pending} => seen = "stopped"
      BY <1>2, <1>4, <2>2, <3>3, <3>4
    <3> QED BY <1>4, <3>2, <3>3, <3>5 DEF Remembers, Form
  <2>3. CASE seen \notin {"recording", "error"} /\ seen \notin Terminal
    <3>1. rt' = Unlink(rt)
      BY <1>4, <2>3
    <3>2. Form(rt', 0, rt.pending) /\ SameMemory(rt', rt) /\ rt'.outcome = rt.outcome
      BY <3>1, RuntimeForms, MemoryForms
    <3>3. \A j \in Ids : Kept(j)' /\ j \in {rt.active, rt.pending} => j = rt.pending
      BY <1>4, <2>3 DEF Terminal
    <3> QED BY <1>4, <3>2, <3>3 DEF Remembers, Form
  <2> QED BY <2>1, <2>2, <2>3
<1> HIDE DEF new
<1> QED BY <1>1, <1>3, <1>4, SaveOverForm

LEMMA CheckReconcilesRecalls ==
  ASSUME WatchInv, StopInv, CheckReconciles
  PROVE  StopInv'
<1> USE DEF service, engine, others, world, ghosts
<1>1. UNCHANGED <<def, calls, recs, abandoned, rc, air, broadcasts>> /\ FinishJob
  BY DEF CheckReconciles
<1>2. IsRuntime(rt) /\ IsCheck(chk) /\ chk'.pc = "none" /\ (Exists' => Exists)
  BY <1>1, JobEnds DEF WatchInv, WatchShape, Exists
<1>3. JobRecalls
  BY <1>1, <1>2, JobStaysOrEnds
<1>4. PICK base, seen : base = chk.base /\ seen \in {"error", StateOf(base.active)} /\ Reconcile(base, seen)
  BY DEF CheckReconciles
<1>5. harm \subseteq harm'
  BY <1>4, SaveOverForm DEF Reconcile
<1>6. ASSUME Calm', Exists, LinksAgree PROVE Remembers
  <2>1. ASSUME rt = base, seen \notin {"recording", "error"}, NEW j \in Ids, j = rt.active, Kept(j)'
        PROVE  seen = "stopped"
    BY <1>1, <1>4, <2>1 DEF StateOf, Ids, Kept
  <2>2. rt = base /\ seen \in Terminal => rt.active # 0
    BY <1>4 DEF StateOf, Terminal
  <2> QED BY <1>2, <1>4, <1>6, <2>1, <2>2, ReconcileRemembers
<1> QED BY <1>1, <1>2, <1>3, <1>5, <1>6, AirStays, QuietRecalls

LEMMA LinkReconcilesRecalls ==
  ASSUME WatchInv, StopInv, LinkReconciles
  PROVE  StopInv'
<1> USE DEF service, engine, others, world, ghosts
<1>1. UNCHANGED <<def, calls, recs, abandoned, chk, air, broadcasts>> /\ rc.kind = "links" /\ rc' = NoScan
  BY DEF LinkReconciles
<1>2. IsRuntime(rt) /\ IsCheck(chk) /\ rc'.kind # "links" /\ (Exists' => Exists)
  BY <1>1, NewForms DEF WatchInv, WatchShape, Exists
<1>3. JobRecalls
  BY <1>1, <1>2, JobStaysOrEnds
<1>4. PICK base, seen : base = rc.base /\ seen \in {"error", rc.seen, StateOf(base.active)} /\ Reconcile(base, seen)
  BY DEF LinkReconciles
<1>5. harm \subseteq harm'
  BY <1>4, SaveOverForm DEF Reconcile
<1>6. ASSUME Calm', Exists, LinksAgree, SnapshotAgrees PROVE Remembers
  <2>1. StopsRemembered /\ SnapshotIsOld
    BY <1>5, <1>6 DEF StopInv, Calm
  <2>2. base.active # 0 /\ base.pending = 0
    BY <1>1, <1>4, <1>6 DEF SnapshotAgrees, Ids
  <2>3. ASSUME rt = base, seen \notin {"recording", "error"}, NEW j \in Ids, j = rt.active, Kept(j)'
        PROVE  seen = "stopped"
    <3>1. recs[j].state = "stopped" /\ j # 0
      BY <1>1, <2>3 DEF Kept, Ids
    <3> QED BY <1>1, <1>4, <2>1, <2>3, <3>1 DEF StateOf, SnapshotIsOld
  <2>4. rt = base => chk'.pc # "claimed"
    <3>1. chk.pc = "claimed" => rt.pending = chk.id /\ chk.id # 0
      BY <2>1 DEF StopsRemembered, WatchInv, StartsAreNew, Ids
    <3> QED BY <1>1, <2>2, <3>1
  <2> QED BY <1>2, <1>4, <1>6, <2>2, <2>3, <2>4, ReconcileRemembers
<1> QED BY <1>1, <1>2, <1>3, <1>5, <1>6, AirStays, QuietRecalls

\* A resolved start that was stopped becomes the outcome "stopped".
LEMMA ResolvedRemembers ==
  ASSUME IsRuntime(rt), LinksAgree, Exists, rt.pending # 0, NEW seen \in {"error", StateOf(rt.pending)}, UNCHANGED recs,
         NEW r, IsRuntime(r), SameMemory(r, rt), r.active \in {0, rt.active}, r.pending = rt.pending,
         rt' \in {Resolved(r, seen), rt}, chk'.pc # "claimed"
  PROVE  Remembers
<1>1. rt.active = 0 /\ \A j \in Ids : j # 0
  BY DEF LinksAgree, Ids
<1>2. CASE rt' = rt
  BY <1>2, StillRemembers
<1>3. CASE rt' = Resolved(r, seen)
  <2>1. SameMemory(rt', rt)
    BY <1>3, ResolvedMemory DEF SameMemory
  <2>2. ASSUME NEW j \in Ids, Kept(j)', j \in {rt.active, rt.pending}
        PROVE  \/ j \in {rt'.active, rt'.pending}
               \/ rt'.active = 0 /\ rt'.pending = 0 /\ rt'.outcome \in {"completed", "stopped"}
    <3>1. j = rt.pending /\ seen \in {"error", "stopped"}
      BY <1>1, <2>2 DEF Kept, StateOf
    <3>2. CASE seen = "error"
      <4>1. Form(rt', r.active, r.pending)
        BY <1>3, <3>2, ResolvedForms
      <4> QED BY <3>1, <4>1 DEF Form
    <3>3. CASE seen = "stopped"
      <4>1. seen \in Terminal
        BY <3>3 DEF Terminal
      <4>2. Form(rt', 0, 0) /\ rt'.outcome = "stopped"
        BY <1>3, <3>3, <4>1, ResolvedForms, ResolvedMemory
      <4> QED BY <4>2 DEF Form
    <3> QED BY <3>1, <3>2, <3>3
  <2> QED BY <2>1, <2>2 DEF Remembers
<1> QED BY <1>2, <1>3

LEMMA ReconcilePendingRecalls ==
  ASSUME WatchInv, StopInv, ReconcilePending
  PROVE  StopInv'
<1> USE DEF service, engine, others, world, ghosts
<1>1. /\ UNCHANGED <<def, calls, recs, harm, rc, chk, air, broadcasts>> /\ rt.pending \notin {0, claimed} /\ abandoned \subseteq abandoned'
  BY DEF ReconcilePending
<1>2. IsRuntime(rt) /\ IsCheck(chk) /\ (Exists' => Exists)
  BY <1>1 DEF WatchInv, WatchShape, Exists
<1>3. JobRecalls
  BY <1>1, <1>2, JobStaysOrEnds
<1>4. PICK seen \in {"error", StateOf(rt.pending)} : SaveRuntime(Resolved(rt, seen))
  BY DEF ReconcilePending
<1>5. rt' \in {Resolved(rt, seen), rt}
  BY <1>4, SaveForm
<1>6. ASSUME Calm', Exists, LinksAgree PROVE Remembers
  <2>1. StopsRemembered
    BY <1>1, <1>6 DEF StopInv, Calm
  <2>2. chk.pc # "claimed"
    BY <1>1, <2>1 DEF StopsRemembered, WatchInv, StartsAreNew
  <2> QED BY <1>1, <1>2, <1>4, <1>5, <1>6, <2>2, ResolvedRemembers DEF SameMemory
<1> QED BY <1>1, <1>2, <1>3, <1>6, AirStays, QuietRecalls

LEMMA RecoverLinksRecalls ==
  ASSUME WatchInv, StopInv, RecoverLinks
  PROVE  StopInv'
<1> USE DEF service, engine, others, world, ghosts
<1>1. UNCHANGED <<def, calls, recs, chk, air, broadcasts>> /\ svc = "recovering" /\ rc' = NoScan
  BY DEF RecoverLinks
<1>2. IsRuntime(rt) /\ IsRuntime(rc.base) /\ IsCheck(chk) /\ chk.pc \in {"none", "queued"} /\ (Exists' => Exists) /\ rc'.kind # "links"
  BY <1>1, NewForms DEF WatchInv, WatchShape, IsScan, StartsAreNew, Exists
<1>3. JobRecalls
  BY <1>1, <1>2, JobStaysOrEnds
<1>4. PICK base, seen, seenPending :
        /\ base = rc.base /\ seen \in {"error", StateOf(base.active)} /\ seenPending \in {"error", StateOf(base.pending)}
        /\ LET linked == Relinked(base, seen)
           IN  \/ SaveOver(base, linked) /\ UNCHANGED abandoned
               \/ /\ SaveRuntime(Resolved(linked, seenPending)) /\ base.pending # 0
                  /\ harm \subseteq harm' /\ (Calm' => rt' = rt \/ rt = base)
                  /\ abandoned \subseteq abandoned'
  BY DEF RecoverLinks, Calm
<1>5. PICK linked : linked = Relinked(base, seen)
  OBVIOUS
<1>6. /\ IsRuntime(linked) /\ linked.pending = base.pending /\ linked.active \in {0, base.active}
      /\ linked.active = base.active \/ (base.active # 0 /\ seen \notin {"recording", "error"})
      /\ SameMemory(linked, base) /\ linked.outcome = (IF seen \in Terminal THEN seen ELSE base.outcome)
      /\ base.active = 0 => seen \notin Terminal
  <2>1. base.active = 0 => seen \notin Terminal
    BY <1>4 DEF StateOf, Terminal
  <2> QED BY <1>2, <1>4, <1>5, <2>1, RelinkedForms, RelinkedMemory DEF Form
<1>7. CASE SaveOver(base, linked) /\ UNCHANGED abandoned
  <2>1. rt' \in {rt, linked} /\ harm \subseteq harm' /\ (Calm' /\ Exists => rt' = rt \/ (rt = base /\ rt' = linked))
    BY <1>7, SaveOverForm
  <2>2. ASSUME Calm', Exists, LinksAgree PROVE Remembers
    <3>1. CASE rt' = rt
      BY <3>1, StillRemembers
    <3>2. CASE rt = base /\ rt' = linked
      <4>1. \A j \in Ids : j # 0
        BY DEF Ids
      <4>2. ASSUME NEW j \in Ids, Kept(j)', j = rt.active
            PROVE  j = rt'.active \/ (rt'.active = 0 /\ rt'.pending = 0 /\ rt'.outcome = "stopped")
        <5>1. j # 0 /\ rt.pending = 0 /\ seen \in {"error", "stopped"}
          BY <1>1, <1>4, <2>2, <3>2, <4>1, <4>2 DEF LinksAgree, Kept, StateOf
        <5>2. "stopped" \in Terminal
          BY DEF Terminal
        <5>3. linked.active = 0 \/ linked.active = j
          BY <1>6, <3>2, <4>2
        <5>4. linked.active = 0 => seen = "stopped"
          BY <1>6, <3>2, <4>2, <5>1
        <5> QED BY <1>6, <3>2, <4>2, <5>1, <5>2, <5>3, <5>4
      <4> QED BY <1>1, <1>2, <1>6, <3>2, <4>2 DEF Remembers
    <3> QED BY <2>1, <2>2, <3>1, <3>2
  <2> QED BY <1>1, <1>2, <1>3, <1>7, <2>1, <2>2, AirStays, QuietRecalls
<1>8. CASE /\ SaveRuntime(Resolved(linked, seenPending)) /\ base.pending # 0
           /\ harm \subseteq harm' /\ (Calm' => rt' = rt \/ rt = base)
           /\ abandoned \subseteq abandoned'
  <2>1. rt' \in {Resolved(linked, seenPending), rt}
    BY <1>8, SaveForm
  <2>2. ASSUME Calm', Exists, LinksAgree PROVE Remembers
    <3>1. CASE rt' = rt
      BY <3>1, StillRemembers
    <3>2. CASE rt = base
      BY <1>1, <1>2, <1>4, <1>6, <1>8, <2>1, <2>2, <3>2, ResolvedRemembers
    <3> QED BY <1>8, <2>2, <3>1, <3>2
  <2> QED BY <1>1, <1>2, <1>3, <1>8, <2>2, AirStays, QuietRecalls
<1> QED BY <1>4, <1>5, <1>7, <1>8

\* What the Engine does with a Recording: it starts or refuses it, it is stopped, or
\* what it recorded does not matter any more.
LEMMA EngineForms ==
  ASSUME WatchInv, StopInv, NEW id \in Ids,
         EngineStarts(id) \/ EngineRefuses(id) \/ StopRecording(id) \/ EndRecording(id) \/ DeleteRecording(id)
  PROVE  /\ \A j \in Ids : j # id => recs'[j] = recs[j]
         /\ recs'[id].session \in {0, recs[id].session}
         /\ recs'[id].known => recs[id].known /\ recs'[id].session = recs[id].session
         /\ recs'[id].notified => recs[id].notified /\ recs'[id].session = recs[id].session
         /\ \/ recs'[id].state = recs[id].state
            \/ recs[id].state = "none" /\ recs'[id].state = "recording"
            \/ recs[id].state = "recording" /\ recs'[id].state = "stopped"
            \/ recs[id].state = "recording" /\ recs'[id].state \in {"completed", "interrupted"}
            \/ recs[id].state \in Terminal /\ recs'[id].state = "gone"
<1> USE DEF service, engine, others, world, ghosts
<1>1. DOMAIN recs = Ids /\ IsRecord(recs[id])
  BY DEF WatchInv, WatchShape
<1>2. CASE EngineStarts(id)
  <2>1. recs' = [recs EXCEPT ![id].state = "recording"] /\ recs[id].state = "none"
    BY <1>2 DEF EngineStarts, WatchInv, StartsAreNew
  <2> QED BY <1>1, <2>1 DEF IsRecord
<1>3. CASE EngineRefuses(id)
  BY <1>3 DEF EngineRefuses
<1>4. CASE StopRecording(id)
  <2>1. recs' = [recs EXCEPT ![id].state = "stopped"] /\ recs[id].state = "recording"
    BY <1>4 DEF StopRecording
  <2> QED BY <1>1, <2>1 DEF IsRecord
<1>5. CASE EndRecording(id)
  <2>1. PICK s \in {"completed", "interrupted"} : recs' = [recs EXCEPT ![id] = [NoRecording EXCEPT !.state = s]]
    BY <1>5 DEF EndRecording
  <2>2. recs[id].state = "recording"
    BY <1>5 DEF EndRecording
  <2> QED BY <1>1, <2>1, <2>2 DEF NoRecording
<1>6. CASE DeleteRecording(id)
  <2>1. recs' = [recs EXCEPT ![id] = [NoRecording EXCEPT !.state = "gone"]] /\ recs[id].state \in Terminal
    BY <1>6 DEF DeleteRecording
  <2> QED BY <1>1, <2>1 DEF NoRecording
<1> QED BY <1>2, <1>3, <1>4, <1>5, <1>6

LEMMA EngineRecalls ==
  ASSUME WatchInv, StopInv, NEW id \in Ids,
         EngineStarts(id) \/ EngineRefuses(id) \/ StopRecording(id) \/ EndRecording(id) \/ DeleteRecording(id)
  PROVE  StopInv'
<1> USE DEF service, engine, others, world, ghosts
<1>1. UNCHANGED <<def, rt, chk, rc, abandoned, harm, air, broadcasts>> /\ calls' \subseteq calls
  BY DEF EngineStarts, EngineRefuses, StopRecording, EndRecording, DeleteRecording
<1>2. /\ \A j \in Ids : j # id => recs'[j] = recs[j]
      /\ recs'[id].session \in {0, recs[id].session}
      /\ recs'[id].known => recs[id].known /\ recs'[id].session = recs[id].session
      /\ recs'[id].notified => recs[id].notified /\ recs'[id].session = recs[id].session
  BY EngineForms
<1>3. \/ recs'[id].state = recs[id].state
      \/ recs[id].state = "none" /\ recs'[id].state = "recording"
      \/ recs[id].state = "recording" /\ recs'[id].state = "stopped"
      \/ recs[id].state = "recording" /\ recs'[id].state \in {"completed", "interrupted"}
      \/ recs[id].state \in Terminal /\ recs'[id].state = "gone"
  BY EngineForms
<1>4. \A s \in Terminal \cup {"gone"} : s \notin {"none", "recording"}
  BY DEF Terminal
<1>5. \A j \in Ids : Ended(j) => Ended(j)'
  BY <1>2, <1>3, <1>4 DEF Ended, Terminal
<1>6. Numbered'
  <2>1. \A j \in Ids : recs'[j].session \in 0 .. broadcasts /\ (recs'[j].notified => Ended(j)')
    BY <1>2, <1>5 DEF StopInv, Numbered
  <2>2. chk.pc \in {"claim", "claimed"} => \A j \in Ids : recs'[j].session <= chk.session
    BY <1>2 DEF StopInv, Numbered
  <2> QED BY <1>1, <2>1, <2>2 DEF StopInv, Numbered
<1>7. ASSUME NEW j \in Ids, Records(j)', recs'[j].known
      PROVE  Records(j) /\ recs[j].known /\ recs'[j].session = recs[j].session
  <2>1. id \in calls => recs[id].state = "none"
    BY DEF WatchInv, StartsAreNew
  <2>2. CASE EngineStarts(id)
    BY <1>1, <1>2, <1>7, <2>2 DEF EngineStarts, Records
  <2>3. CASE ~EngineStarts(id)
    <3>1. \A j_1 \in Ids : Records(j_1)' => Records(j_1)
      <4>1. recs'[id].state = "recording" => recs[id].state = "recording"
        BY <1>1, <2>1, <2>3 DEF EngineRefuses, StopRecording, EndRecording, DeleteRecording, WatchInv,
             WatchShape, IsRecord,
           NoRecording
      <4> QED BY <1>1, <1>2, <4>1 DEF Records
    <3> QED BY <1>2, <1>7, <3>1
  <2> QED BY <2>2, <2>3
<1>8. ASSUME NEW j \in Ids, Kept(j)'
      PROVE  /\ recs'[j].session = recs[j].session
             /\ Kept(j) \/ (Records(j) /\ recs[j].state = "recording" /\ recs[j].known)
  <2>1. CASE j # id
    BY <1>1, <1>2, <1>8, <2>1 DEF Kept
  <2>2. CASE j = id
    <3>1. recs'[id].state = "stopped" /\ (recs'[id].known \/ recs'[id].notified) /\ id \notin abandoned
      BY <1>1, <1>8, <2>2 DEF Kept
    <3>2. recs[id].state = "stopped" \/ recs[id].state = "recording"
      BY <1>3, <3>1
    <3>3. recs[id].notified => recs[id].state # "recording"
      BY <1>4 DEF StopInv, Numbered, Ended
    <3> QED BY <1>2, <2>2, <3>1, <3>2, <3>3 DEF Kept, Records
  <2> QED BY <2>1, <2>2
<1>9. ASSUME Calm', Exists' PROVE StopsRemembered'
  <2>1. StopsRemembered /\ LinksAgree /\ Exists
    BY <1>1, <1>9 DEF StopInv, WatchInv, Calm, Exists
  <2>2. ASSUME NEW j \in Ids, air # 0, recs'[j].session = air
        PROVE  /\ Records(j)' /\ recs'[j].known => Sees(rt, air)
               /\ Kept(j)' => Recalls(rt, j, air)
    <3>1. Records(j)' /\ recs'[j].known => Sees(rt, air)
      BY <1>7, <2>1, <2>2 DEF StopsRemembered
    <3>2. Kept(j) /\ Kept(j)' => Recalls(rt, j, air)
      BY <1>8, <2>1, <2>2 DEF StopsRemembered
    <3>3. Kept(j)' /\ Records(j) /\ recs[j].known => Recalls(rt, j, air)
      BY <1>8, <2>1, <2>2 DEF StopsRemembered, Recalls, LinksAgree
    <3> QED BY <1>8, <3>1, <3>2, <3>3
  <2>3. ASSUME rt.active = 0, rt.pending = 0 \/ (chk.pc = "claimed" /\ rt.pending = chk.id), Unstopped
        PROVE  Unstopped'
    <3>1. ASSUME NEW j \in Ids, Records(j), recs[j].state = "recording" PROVE FALSE
      <4>1. j \in {rt.active, rt.pending} /\ j # 0
        BY <2>1, <3>1 DEF LinksAgree, Ids
      <4>2. chk.pc = "claimed" /\ j = chk.id
        BY <2>3, <4>1
      <4> QED BY <3>1, <4>2 DEF WatchInv, StartsAreNew, Started
    <3> QED BY <1>1, <1>8, <2>3, <3>1 DEF Unstopped
  <2> QED BY <1>1, <2>1, <2>2, <2>3 DEF StopsRemembered, Suppresses, Sees, Recalls, Rests
<1>10. ASSUME Calm' PROVE SnapshotIsOld'
  <2>1. SnapshotIsOld /\ SnapshotAgrees
    BY <1>1, <1>10 DEF StopInv, WatchInv, Calm
  <2>2. CASE rc.kind = "links"
    <3> DEFINE a == rc.base.active
    <3>1. a \in Ids /\ recs[a].state # "none" /\ (rc.seen = "recording" \/ recs[a].state \in {rc.seen, "gone"})
      BY <2>1, <2>2 DEF SnapshotIsOld, SnapshotAgrees, Started
    <3>2. rc.seen = "recording" \/ recs'[a].state \in {rc.seen, "gone"}
      BY <1>2, <1>3, <1>4, <3>1
    <3> QED BY <1>1, <3>2 DEF SnapshotIsOld
  <2>3. CASE rc.kind # "links"
    BY <1>1, <2>3 DEF SnapshotIsOld
  <2> QED BY <2>2, <2>3
<1> QED BY <1>6, <1>9, <1>10 DEF StopInv

\* The Watch is told of a stop: what it linked it suppresses now.
LEMMA NotifyRecalls ==
  ASSUME WatchInv, StopInv, NEW id \in Ids, NotifyRecordingStopped(id)
  PROVE  StopInv'
<1> USE DEF service, engine, others, world, ghosts
<1>1. UNCHANGED <<def, calls, abandoned, harm, rc, chk, air, broadcasts>> /\ id \in notices
  BY DEF NotifyRecordingStopped
<1>2. IsRuntime(rt) /\ IsCheck(chk) /\ DOMAIN recs = Ids /\ IsRecord(recs[id]) /\ Ended(id)
  BY <1>1 DEF WatchInv, WatchShape, StartsAreNew
<1>3. CASE UNCHANGED <<rt, recs>>
  <2>1. JobRecalls /\ (Exists' => Exists)
    BY <1>1, <1>2, JobStaysOrEnds DEF Exists
  <2> QED BY <1>1, <1>3, <2>1, AirStays, StillRemembers, QuietRecalls
<1>4. CASE Exists /\ rt.active = id
  <2> DEFINE new == [Unlink(rt) EXCEPT !.pending = 0, !.suppressed = TRUE, !.suppDigest = rt.digest, !.outcome = "stopped"]
  <2>1. SaveRuntime(new) /\ recs' = [recs EXCEPT ![id].notified = rt' # rt /\ rt.digest \in {0, recs[id].session}]
    BY <1>4 DEF NotifyRecordingStopped
  <2>2. /\ new.active = 0 /\ new.pending = 0 /\ new.suppressed /\ new.suppDigest = rt.digest /\ new.digest = rt.digest
        /\ new.live = rt.live
    BY <1>2 DEF IsRuntime, Unlink
  <2> HIDE DEF new
  <2>3. rt' \in {rt, new}
    BY <2>1, SaveForm
  <2>4. /\ \A j \in Ids : j # id => recs'[j] = recs[j]
        /\ recs'[id].state = recs[id].state /\ recs'[id].session = recs[id].session /\ recs'[id].known = recs[id].known
        /\ recs'[id].notified => rt' # rt /\ rt.digest \in {0, recs[id].session}
    BY <1>2, <2>1 DEF IsRecord
  <2>5. Numbered'
    <3>1. \A j \in Ids : recs'[j].session \in 0 .. broadcasts /\ (recs'[j].notified => Ended(j)')
      BY <1>2, <2>4 DEF StopInv, Numbered, Ended
    <3>2. chk.pc \in {"claim", "claimed"} => \A j \in Ids : recs'[j].session <= chk.session
      BY <2>4 DEF StopInv, Numbered
    <3> QED BY <1>1, <3>1, <3>2 DEF StopInv, Numbered
  <2>6. Calm' => SnapshotIsOld'
    BY <1>1, <2>4 DEF StopInv, Calm, SnapshotIsOld, WatchInv, SnapshotAgrees
  <2>7. ASSUME Calm' PROVE StopsRemembered'
    <3>1. StopsRemembered /\ LinksAgree /\ id # 0
      BY <1>1, <1>4, <2>7 DEF StopInv, WatchInv, Calm, Ids
    <3>2. Suppresses(rt') /\ \A b : Sees(rt, b) => Sees(rt', b)
      BY <2>2, <2>3, <3>1 DEF StopsRemembered, Suppresses, Sees
    <3>3. rt.pending = 0 /\ chk.pc # "claimed" /\ ~(chk.pc = "claim" /\ chk.base.pending = 0)
      BY <1>4, <3>1 DEF LinksAgree, StopsRemembered
    <3>4. ASSUME NEW j \in Ids, air # 0, recs'[j].session = air
          PROVE  /\ Records(j)' /\ recs'[j].known => Sees(rt', air)
                 /\ Kept(j)' => Recalls(rt', j, air)
      <4>1. Records(j)' /\ recs'[j].known => Records(j) /\ recs[j].known
        BY <1>1, <2>4 DEF Records
      <4>2. recs[j].session = air
        BY <2>4, <3>4
      <4>3. Records(j)' /\ recs'[j].known => Sees(rt', air)
        BY <3>1, <3>2, <3>4, <4>1, <4>2 DEF StopsRemembered
      <4>4. ASSUME Kept(j)' PROVE Recalls(rt', j, air)
        <5>1. CASE Kept(j)
          <6>1. Recalls(rt, j, air)
            BY <3>1, <3>4, <4>2, <5>1 DEF StopsRemembered
          <6>2. Sees(rt, air) /\ j = id
            BY <1>4, <3>1, <3>3, <6>1 DEF Recalls, Ids
          <6> QED BY <2>2, <2>3, <6>1, <6>2 DEF Recalls, Rests, Sees
        <5>2. CASE ~Kept(j)
          <6>1. j = id /\ recs'[id].notified
            BY <1>1, <2>4, <4>4, <5>2 DEF Kept
          <6>2. rt' = new /\ rt.digest \in {0, air}
            BY <2>3, <2>4, <4>2, <6>1
          <6> QED BY <2>2, <6>2 DEF Recalls, Rests
        <5> QED BY <5>1, <5>2
      <4> QED BY <4>3, <4>4
    <3> QED BY <1>1, <3>2, <3>3, <3>4 DEF StopsRemembered, Suppresses
  <2> QED BY <2>5, <2>6, <2>7 DEF StopInv
<1> QED BY <1>3, <1>4 DEF NotifyRecordingStopped

LEMMA CreateRecalls ==
  ASSUME WatchInv, StopInv, Create
  PROVE  StopInv'
<1> USE DEF service, engine, others, world, ghosts
<1>1. UNCHANGED <<calls, recs, abandoned, harm, rc, chk, air, broadcasts>> /\ def = "new" /\ rt' = NewRuntime
  BY DEF Create, CreateDefinition
<1>2. Numbered' /\ (Calm' => SnapshotIsOld')
  BY <1>1 DEF StopInv, Numbered, SnapshotIsOld, Calm, Ended
<1>3. \A j \in Ids : ~Records(j)' /\ ~Kept(j)'
  BY <1>1 DEF WatchInv, Unborn, Records, Kept, Started
<1>4. chk'.pc \notin {"claim", "claimed"}
  BY <1>1 DEF WatchInv, Unborn
<1>5. StopsRemembered'
  BY <1>1, <1>3, <1>4, NewSuppresses DEF StopsRemembered, Suppresses
<1> QED BY <1>2, <1>5 DEF StopInv

LEMMA ObservedMemory ==
  ASSUME NEW r, IsRuntime(r), NEW d
  PROVE  LET o == Observed(r, d)
         IN  /\ IsRuntime(o) /\ o.live /\ o.digest = IF d = 0 THEN r.digest ELSE d
             /\ d # 0 /\ r.digest # 0 /\ d # r.digest => ~o.suppressed
             /\ d = 0 \/ r.digest = 0 \/ d = r.digest =>
                  o.suppressed = r.suppressed /\ o.suppDigest = r.suppDigest /\ o.outcome = r.outcome
<1> DEFINE seen == [r EXCEPT !.digest = IF d = 0 THEN @ ELSE d, !.live = TRUE]
           last == [seen EXCEPT !.suppressed = FALSE, !.suppDigest = 0, !.outcome = "none"]
<1>1. /\ IsRuntime(seen) /\ seen.live /\ seen.digest = IF d = 0 THEN r.digest ELSE d
      /\ seen.suppressed = r.suppressed /\ seen.suppDigest = r.suppDigest /\ seen.outcome = r.outcome
  BY DEF IsRuntime
<1>2. IsRuntime(last) /\ last.live = seen.live /\ last.digest = seen.digest /\ ~last.suppressed
  BY <1>1 DEF IsRuntime
<1>3. Observed(r, d) = IF d # 0 /\ r.digest # 0 /\ d # r.digest THEN last ELSE seen
  BY DEF Observed
<1> HIDE DEF seen, last
<1>4. CASE d # 0 /\ r.digest # 0 /\ d # r.digest
  BY <1>1, <1>2, <1>3, <1>4
<1>5. CASE ~(d # 0 /\ r.digest # 0 /\ d # r.digest)
  BY <1>1, <1>3, <1>5
<1> QED BY <1>4, <1>5

LEMMA UnsuppressMemory ==
  ASSUME NEW r, IsRuntime(r)
  PROVE  LET u == Unsuppress(r)
         IN  /\ IsRuntime(u) /\ u.digest = r.digest /\ u.live = r.live /\ ~u.suppressed
             /\ ~r.suppressed => u.outcome = r.outcome
<1>1. CASE r.suppressed
  <2>1. Unsuppress(r) = [r EXCEPT !.suppressed = FALSE, !.suppDigest = 0, !.outcome = "none"]
    BY <1>1 DEF Unsuppress
  <2> QED BY <1>1, <2>1 DEF IsRuntime
<1>2. CASE ~r.suppressed
  <2>1. Unsuppress(r) = r
    BY <1>2 DEF Unsuppress
  <2> QED BY <1>2, <2>1
<1> QED BY <1>1, <1>2

\* What live saves of the Runtime r when it leaves the session alone.
Left(r, d) ==
  LET seen == Observed(r, d)
  IN  IF StillSuppressed(seen, d) THEN seen ELSE Unsuppress(seen)

\* A look at the broadcast leaves a Runtime at rest alone, and it rests still.
LEMMA RestIsLeftAlone ==
  ASSUME NEW r, IsRuntime(r), Suppresses(r), NEW b, b # 0, NEW d \in {0, b}, Rests(r, b)
  PROVE  LeftAlone(r, d) /\ Rests(Left(r, d), b)
<1>1. PICK o : o = Observed(r, d)
  OBVIOUS
<1>2. /\ IsRuntime(o) /\ o.live /\ o.digest = (IF d = 0 THEN r.digest ELSE d)
      /\ o.suppressed = r.suppressed /\ o.suppDigest = r.suppDigest /\ o.outcome = r.outcome
  <2>1. d = 0 \/ r.digest = 0 \/ d = r.digest
    BY DEF Rests, Sees
  <2> QED BY <1>1, <2>1, ObservedMemory
<1>3. CASE r.suppressed /\ {r.suppDigest, r.digest} \subseteq {0, b}
  <2>1. StillSuppressed(o, d)
    BY <1>2, <1>3 DEF StillSuppressed
  <2>2. o.suppressed /\ {o.suppDigest, o.digest} \subseteq {0, b}
    BY <1>2, <1>3
  <2> QED BY <1>1, <2>1, <2>2 DEF LeftAlone, Left, Rests
<1>4. CASE ~(r.suppressed /\ {r.suppDigest, r.digest} \subseteq {0, b}) /\ r.outcome \in {"completed", "stopped"} /\ Sees(r, b)
  <2>1. ~r.suppressed
    BY <1>4 DEF Suppresses, Sees
  <2>2. ~StillSuppressed(o, d)
    BY <1>2, <2>1 DEF StillSuppressed
  <2>3. PICK u : u = Unsuppress(o)
    OBVIOUS
  <2>4. u.outcome = r.outcome /\ u.digest = o.digest /\ u.live
    BY <1>2, <2>1, <2>3, UnsuppressMemory
  <2>5. SameSession(r, d) /\ Sees(u, b)
    BY <1>2, <1>4, <2>4 DEF SameSession, Sees
  <2> QED BY <1>1, <1>4, <2>2, <2>3, <2>4, <2>5 DEF LeftAlone, Left, Rests
<1> QED BY <1>3, <1>4 DEF Rests

\* A look at the broadcast does not lose what the Runtime knows of it.
LEMMA LookRemembers ==
  ASSUME NEW r, IsRuntime(r), Suppresses(r), NEW b, NEW d \in {0, b}, NEW n \in {Left(r, d), Unsuppress(Observed(r, d))}
  PROVE  /\ Suppresses(n) /\ IsRuntime(n)
         /\ Sees(r, b) => Sees(n, b)
         /\ d # 0 => Sees(n, d)
<1>1. PICK o : o = Observed(r, d)
  OBVIOUS
<1>2. /\ IsRuntime(o) /\ o.live /\ o.digest = (IF d = 0 THEN r.digest ELSE d)
      /\ d # 0 /\ r.digest # 0 /\ d # r.digest => ~o.suppressed
      /\ d = 0 \/ r.digest = 0 \/ d = r.digest => o.suppressed = r.suppressed /\ o.suppDigest = r.suppDigest
  BY <1>1, ObservedMemory
<1>3. Suppresses(o)
  BY <1>2 DEF Suppresses
<1>4. PICK u : u = Unsuppress(o)
  OBVIOUS
<1>5. IsRuntime(u) /\ u.digest = o.digest /\ u.live /\ ~u.suppressed
  BY <1>2, <1>4, UnsuppressMemory
<1>6. n \in {o, u}
  BY <1>1, <1>4 DEF Left
<1>7. (Sees(r, b) => Sees(o, b) /\ Sees(u, b)) /\ (d # 0 => Sees(o, d) /\ Sees(u, d))
  BY <1>2, <1>5 DEF Sees
<1> QED BY <1>2, <1>3, <1>5, <1>6, <1>7 DEF Suppresses

LEMMA SeesLiveRecalls ==
  ASSUME WatchInv, StopInv, NEW d, SeesLive(d)
  PROVE  StopInv'
<1> USE DEF service, engine, others, world, ghosts
<1>1. UNCHANGED <<def, calls, recs, abandoned, harm, rc, air, broadcasts>> /\ air # 0 /\ d \in {0, air}
  BY DEF SeesLive
<1>2. IsCheck(chk) /\ IsRuntime(rt)
  BY DEF WatchInv, WatchShape
<1>3. \/ LeftAlone(rt, d) /\ rt' \in {rt, Idle(Left(rt, d))} /\ FinishJob
      \/ /\ ~LeftAlone(rt, d) /\ rt' = rt
         /\ chk' = [chk EXCEPT !.pc = "claim", !.base = rt, !.digest = d, !.session = air]
      \/ ~LeftAlone(rt, d) /\ rt' \in {rt, Idle(Unsuppress(Observed(rt, d)))} /\ FinishJob
      \/ rt' = rt /\ FinishJob
  <2>1. \A r : SaveRuntime(r) => rt' \in {rt, r}
    BY SaveForm
  <2> QED BY <2>1 DEF SeesLive, Left
<1>4. \/ chk'.pc = "none"
      \/ /\ chk'.pc = "claim" /\ chk'.base = rt /\ chk'.digest = d /\ chk'.session = air
         /\ ~LeftAlone(rt, d) /\ rt' = rt
  <2>1. CASE FinishJob
    BY <2>1, JobEnds
  <2>2. CASE ~LeftAlone(rt, d) /\ rt' = rt /\ chk' = [chk EXCEPT !.pc = "claim", !.base = rt, !.digest = d, !.session = air]
    BY <1>2, <2>2 DEF IsCheck
  <2> QED BY <1>3, <2>1, <2>2
<1>5. Numbered'
  <2>1. \A j \in Ids : recs[j].session <= air
    BY <1>1 DEF StopInv, Numbered
  <2> QED BY <1>1, <1>4, <2>1 DEF StopInv, Numbered, Ended
<1>6. Calm' => SnapshotIsOld'
  BY <1>1 DEF StopInv, Calm, SnapshotIsOld
<1>7. ASSUME Calm', Exists' PROVE StopsRemembered'
  <2>1. StopsRemembered
    BY <1>1, <1>7 DEF StopInv, Calm, Exists
  <2>2. PICK n : n \in {Left(rt, d), Unsuppress(Observed(rt, d))} /\ rt' \in {rt, Idle(n)} /\ (LeftAlone(rt, d) => n = Left(rt, d))
    BY <1>3
  <2>3. IsRuntime(n) /\ Suppresses(n) /\ (Sees(rt, air) => Sees(n, air)) /\ n.active = rt.active /\ n.pending = rt.pending
    <3>1. PICK o : o = Observed(rt, d)
      OBVIOUS
    <3>2. Form(o, rt.active, rt.pending) /\ Form(Unsuppress(o), rt.active, rt.pending)
      BY <1>2, <3>1, ObservedForms DEF Form
    <3> QED BY <1>1, <1>2, <2>1, <2>2, <3>1, <3>2, LookRemembers DEF StopsRemembered, Suppresses, Left, Form
  <2>4. Suppresses(Idle(n)) /\ SameMemory(Idle(n), n) /\ Idle(n).outcome = n.outcome /\ Form(Idle(n), n.active, n.pending)
    BY <2>3, MemoryForms, RuntimeForms DEF Suppresses, SameMemory
  <2>5. (Sees(rt, air) => Sees(rt', air)) /\ rt'.active = rt.active /\ rt'.pending = rt.pending /\ Suppresses(rt')
    BY <2>1, <2>2, <2>3, <2>4 DEF Sees, SameMemory, Form, StopsRemembered, Suppresses
  <2>6. Rests(rt, air) => LeftAlone(rt, d) /\ Rests(rt', air)
    <3>1. ASSUME Rests(rt, air) PROVE LeftAlone(rt, d) /\ Rests(Left(rt, d), air)
      BY <1>1, <1>2, <2>1, <3>1, RestIsLeftAlone DEF StopsRemembered, Suppresses
    <3> QED BY <2>2, <2>4, <3>1 DEF Rests, Sees, SameMemory
  <2>7. \A j \in Ids : (Kept(j)' <=> Kept(j)) /\ (Records(j)' <=> Records(j))
    BY <1>1 DEF Kept, Records
  <2>8. ASSUME chk'.pc = "claim", chk'.base.pending = 0
        PROVE  rt.active = 0 /\ rt.pending = 0 /\ Unstopped'
    <3>1. ~LeftAlone(rt, d) /\ rt.pending = 0 /\ chk'.session = air
      BY <1>4, <2>8
    <3>2. rt.active = 0
      BY <3>1 DEF LeftAlone
    <3>3. \A j \in Ids : Kept(j) => recs[j].session # air
      BY <1>1, <2>1, <2>6, <3>1, <3>2 DEF StopsRemembered, Recalls, Ids
    <3> QED BY <1>1, <2>7, <3>1, <3>2, <3>3 DEF Unstopped
  <2>9. ASSUME NEW j \in Ids, recs[j].session = air
        PROVE  /\ Records(j)' /\ recs[j].known => Sees(rt', air)
               /\ Kept(j)' => Recalls(rt', j, air)
    BY <1>1, <2>1, <2>5, <2>6, <2>7, <2>9 DEF StopsRemembered, Recalls
  <2> QED BY <1>1, <1>4, <2>5, <2>8, <2>9 DEF StopsRemembered, Suppresses
<1> QED BY <1>5, <1>6, <1>7 DEF StopInv

\* A check claims its start when no Recording of its broadcast was stopped.
LEMMA ClaimRecalls ==
  ASSUME WatchInv, StopInv, ClaimStarting
  PROVE  StopInv'
<1> USE DEF service, engine, others, world, ghosts
<1> DEFINE new == [Unsuppress(Observed(chk.base, chk.digest)) EXCEPT !.starting = TRUE, !.pending = fresh]
<1>1. /\ UNCHANGED <<def, calls, recs, abandoned, rc, air, broadcasts>> /\ chk.pc = "claim" /\ Claimable
      /\ SaveOver(chk.base, new)
      /\ \/ rt'.pending = fresh /\ chk' = [chk EXCEPT !.pc = "claimed", !.base = NewRuntime, !.id = fresh]
         \/ rt'.pending # fresh /\ FinishJob
  BY DEF ClaimStarting
<1>2. IsRuntime(rt) /\ IsRuntime(chk.base) /\ IsCheck(chk) /\ fresh \in Nat \ {0}
  BY DEF WatchInv, WatchShape, StartsAreNew, IsCheck
<1>3. rt' \in {rt, new} /\ harm \subseteq harm' /\ (Calm' /\ Exists => rt' = rt \/ (rt = chk.base /\ rt' = new))
  BY <1>1, SaveOverForm
<1>4. rt.active = 0 /\ rt.pending = 0 /\ Exists
  BY <1>1 DEF Claimable, Exists
<1>5. rt'.pending # fresh => JobRecalls
  BY <1>1, <1>2, JobStaysOrEnds
<1>6. CASE rt' = rt
  <2>1. rt'.pending # fresh
    BY <1>2, <1>4, <1>6
  <2>2. Exists' => Exists
    BY <1>4
  <2> QED BY <1>1, <1>3, <1>5, <1>6, <2>1, <2>2, AirStays, StillRemembers, QuietRecalls
<1>7. CASE rt' # rt
  <2>1. PICK u : u = Unsuppress(Observed(chk.base, chk.digest))
    OBVIOUS
  <2>2. IsRuntime(u) /\ u.active = chk.base.active /\ u.pending = chk.base.pending
    <3>1. PICK o : o = Observed(chk.base, chk.digest)
      OBVIOUS
    <3> QED BY <1>2, <2>1, <3>1, ObservedForms DEF Form
  <2>3. /\ rt' = [u EXCEPT !.starting = TRUE, !.pending = fresh]
    BY <1>3, <1>7, <2>1
  <2>4. rt'.active = u.active /\ rt'.pending = fresh /\ SameMemory(rt', u)
    BY <2>2, <2>3 DEF IsRuntime, SameMemory
  <2>5. chk'.pc = "claimed" /\ chk'.id = fresh /\ chk'.digest = chk.digest /\ chk'.session = chk.session
    BY <1>1, <1>2, <2>4 DEF IsCheck
  <2>6. Numbered'
    BY <1>1, <2>5 DEF StopInv, Numbered, Ended
  <2>7. Calm' => SnapshotIsOld'
    BY <1>1, <1>3 DEF StopInv, Calm, SnapshotIsOld
  <2>8. ASSUME Calm' PROVE StopsRemembered'
    <3>1. StopsRemembered /\ LinksAgree /\ rt = chk.base
      BY <1>3, <1>4, <1>7, <2>8 DEF StopInv, WatchInv, Calm
    <3>2. Unstopped
      BY <1>1, <1>4, <3>1 DEF StopsRemembered
    <3>3. \A j \in Ids : (Kept(j)' <=> Kept(j)) /\ ~Records(j)'
      BY <1>1, <1>4, <3>1 DEF Kept, Records, LinksAgree, Ids
    <3>4. Suppresses(rt') /\ (chk.digest # 0 => Sees(rt', chk.digest))
      <4>1. u \in {Left(rt, chk.digest), Unsuppress(Observed(rt, chk.digest))} /\ chk.digest \in {0, chk.session}
        BY <1>1, <2>1, <3>1 DEF StopInv, Numbered
      <4>2. Suppresses(u) /\ (chk.digest # 0 => Sees(u, chk.digest))
        BY <1>2, <3>1, <4>1, LookRemembers DEF StopsRemembered, Suppresses
      <4> QED BY <2>4, <4>2 DEF Suppresses, Sees, SameMemory
    <3>5. air # 0 => \A j \in Ids : Kept(j) => recs[j].session # air
      BY <1>1, <3>2 DEF StopInv, Numbered, Unstopped
    <3>6. rt'.active = 0 /\ rt'.pending = chk'.id /\ Unstopped'
      BY <1>1, <1>4, <2>2, <2>4, <2>5, <3>1, <3>2, <3>3 DEF Unstopped
    <3> QED BY <1>1, <2>5, <3>3, <3>4, <3>5, <3>6 DEF StopsRemembered, Suppresses
  <2> QED BY <2>6, <2>7, <2>8 DEF StopInv
<1> QED BY <1>6, <1>7

\* A start has its identity from the check, and is of no broadcast that was stopped.
LEMMA StartRecalls ==
  ASSUME WatchInv, StopInv, StartResolved
  PROVE  StopInv' /\ StoppedStay
<1> USE DEF service, engine, others, world, ghosts
<1>0. PICK x : x = chk.id
  OBVIOUS
<1>1. /\ UNCHANGED <<def, rt, rc, abandoned, harm, air, broadcasts>> /\ chk.pc = "claimed"
      /\ calls' = calls \cup {x} /\ Exists
      /\ chk' = [chk EXCEPT !.pc = "start", !.base = rt]
      /\ recs' = [recs EXCEPT ![x] = [NoRecording EXCEPT !.session = chk.session, !.known = chk.digest # 0]]
  BY <1>0 DEF StartResolved, MayStart, Exists
<1>2. /\ IsCheck(chk) /\ DOMAIN recs = Ids /\ x \in Ids /\ x \notin calls /\ recs[x].state = "none"
      /\ chk.session \in 1 .. broadcasts /\ chk.digest \in {0, chk.session} /\ broadcasts \in Nat
  BY <1>0, <1>1 DEF WatchInv, WatchShape, StartsAreNew, Started, StopInv, Numbered
<1>3. chk'.pc = "start"
  BY <1>1, <1>2 DEF IsCheck
<1>4. /\ \A j \in Ids : j # x => recs'[j] = recs[j]
      /\ recs'[x].state = "none" /\ recs'[x].session = chk.session /\ (recs'[x].known <=> chk.digest # 0)
      /\ ~recs'[x].notified
  BY <1>1, <1>2 DEF NoRecording
<1>5. Numbered'
  <2>1. \A j \in Ids : recs'[j].session \in 0 .. broadcasts /\ (recs'[j].notified => Ended(j)')
    BY <1>2, <1>4 DEF StopInv, Numbered, Ended
  <2> QED BY <1>1, <1>3, <2>1 DEF StopInv, Numbered
<1>6. ASSUME Calm' PROVE SnapshotIsOld'
  <2>1. SnapshotIsOld /\ SnapshotAgrees
    BY <1>1, <1>6 DEF StopInv, WatchInv, Calm
  <2>2. rc.kind = "links" => rc.base.active \in Ids \ {x}
    BY <1>2, <2>1 DEF SnapshotAgrees, Started
  <2> QED BY <1>1, <1>4, <2>1, <2>2 DEF SnapshotIsOld
<1>7. ASSUME Calm PROVE StopsRemembered
  BY <1>1, <1>7 DEF StopInv
<1>8. \A j \in Ids : Kept(j)' => j # x /\ Kept(j) /\ recs'[j] = recs[j]
  BY <1>1, <1>4 DEF Kept
<1>9. ASSUME Calm', Exists' PROVE StopsRemembered'
  <2>1. StopsRemembered
    BY <1>1, <1>7, <1>9 DEF Calm
  <2>2. ASSUME NEW j \in Ids, air # 0, recs'[j].session = air
        PROVE  /\ Records(j)' /\ recs'[j].known => Sees(rt, air)
               /\ Kept(j)' => Recalls(rt, j, air)
    <3>1. CASE j = x
      <4>1. recs'[x].known => Sees(rt, air)
        BY <1>1, <1>2, <1>4, <2>1, <2>2, <3>1 DEF StopsRemembered
      <4> QED BY <1>8, <3>1, <4>1
    <3>2. CASE j # x
      <4>1. Records(j)' => Records(j)
        BY <1>1, <1>4, <3>2 DEF Records
      <4> QED BY <1>4, <1>8, <2>1, <2>2, <3>2, <4>1 DEF StopsRemembered
    <3> QED BY <3>1, <3>2
  <2> QED BY <1>1, <1>3, <2>1, <2>2 DEF StopsRemembered, Suppresses, Sees, Recalls, Rests
<1>10. StoppedStay
  <2> SUFFICES ASSUME Calm, NEW id \in calls' \ calls, NEW j \in Ids \ (abandoned \cup {id}),
                      recs[j].state = "stopped", recs[j].session = recs'[id].session
               PROVE  ~(recs[j].known \/ recs[j].notified)
    BY DEF StoppedStay, Calm
  <2>1. id = x /\ recs'[id].session = chk.session
    BY <1>1, <1>4
  <2>2. Unstopped
    BY <1>1, <1>7 DEF StopsRemembered
  <2> QED BY <2>1, <2>2 DEF Unstopped, Kept
<1> QED BY <1>5, <1>6, <1>9, <1>10 DEF StopInv

\* Nothing but StartResolved calls the Engine.
LEMMA OnlyStartsCall ==
  ASSUME [WatchNext]_watchVars, ~StartResolved
  PROVE  StoppedStay
<1> USE DEF service, engine, others, world, ghosts
<1>1. CASE User
  BY <1>1 DEF User, Create, Delete, ManualCheck, Enqueue, Pause, Resume, SetEnabled, Update,
       StopRecording,
              NotifyRecordingStopped, DeleteRecording, StoppedStay
<1>2. CASE Worker
  BY <1>2 DEF Worker, TakeJob, FailQueued, CheckFails, CheckCancelled, SeesOffline, SeesLive,
       ClaimStarting, ClaimRefused,
              ClearPendingStart, StartRefused, RelationFails, CommitStart, StartFails, CheckReconciles, StoppedStay
<1>3. CASE Scheduler
  BY <1>3 DEF Scheduler, ScheduleDue, Enqueue, LinkSnapshot, LinkReconciles, ReconcilePending, StoppedStay
<1>4. CASE Lifecycle
  BY <1>4 DEF Lifecycle, Run, RecoverLinks, CloseService, Closed, Crash, StoppedStay
<1>5. CASE Outside
  BY <1>5 DEF Outside, BroadcastStarts, BroadcastEnds, EngineStarts, EngineRefuses, EndRecording,
       StoppedStay
<1>6. CASE UNCHANGED watchVars
  BY <1>6 DEF watchVars, StoppedStay
<1> QED BY <1>1, <1>2, <1>3, <1>4, <1>5, <1>6 DEF WatchNext

LEMMA StopStep ==
  ASSUME WatchInv, StopInv, [WatchNext]_watchVars
  PROVE  StopInv'
<1>1. CASE User
  BY <1>1, CreateRecalls, DeleteRecalls, IdleStepRecalls, DefinitionRecalls, EngineRecalls, NotifyRecalls DEF User
<1>2. CASE Worker
  BY <1>2, TakeJobRecalls, IdleStepRecalls, CheckEndsRecalls, SeesLiveRecalls, ClaimRecalls, WithdrawnRecalls,
       StartRecalls,
     CommitStartRecalls, StartFailsRecalls, CheckReconcilesRecalls DEF Worker
<1>3. CASE Scheduler
  BY <1>3, IdleStepRecalls, LinkReconcilesRecalls, ReconcilePendingRecalls DEF Scheduler
<1>4. CASE Lifecycle
  BY <1>4, IdleStepRecalls, RecoverLinksRecalls DEF Lifecycle
<1>5. CASE Outside
  BY <1>5, IdleStepRecalls, EngineRecalls DEF Outside
<1> QED BY <1>1, <1>2, <1>3, <1>4, <1>5, IdleStepRecalls DEF WatchNext

LEMMA StopInit ==
  ASSUME WatchInit
  PROVE  StopInv
<1>1. /\ \A j \in Ids : recs[j] = NoRecording
      /\ chk.pc = "none" /\ rc.kind = "none" /\ def = "new" /\ air = 0 /\ broadcasts = 0
  BY NewForms DEF WatchInit
<1>2. NoRecording.session = 0 /\ ~NoRecording.notified
  BY DEF NoRecording
<1>3. Numbered
  BY <1>1, <1>2 DEF Numbered
<1> QED BY <1>1, <1>3 DEF StopInv, SnapshotIsOld, Exists

\* A start never records the broadcast of a Recording that the user stopped, if the
\* Recording started with the identity of the broadcast, or if the notice of the stop
\* was saved while the Recording was active and the Watch had no other identity. With
\* an identity, any order of the stop, its notice, checks and reconciliations will do,
\* and restarts; without one, the notice has to be first. Starts that were given up and
\* what follows a save that undid another are excepted.
THEOREM StopsAreRemembered == WatchSpec => StoppedStaysStopped
<1>1. WatchInit => WatchInv /\ StopInv
  BY WatchStarts, StopInit
<1>2. WatchInv /\ StopInv /\ [WatchNext]_watchVars => WatchInv' /\ StopInv'
  BY WatchStep, StopStep
<1>3. WatchInv /\ StopInv /\ [WatchNext]_watchVars => StoppedStay
  BY StartRecalls, OnlyStartsCall
<1>4. [][StoppedStay]_watchVars <=> StoppedStaysStopped
  BY DEF StoppedStay, StoppedStaysStopped
<1> QED BY <1>1, <1>2, <1>3, <1>4, PTL DEF WatchSpec

-----------------------------------------------------------------------------
(* Adapters: the inductive invariant.                                      *)

USE AdaptersAssumption DEF AdaptersAssumption

Names == Workflows \cup {Earlier}
Events == [w : Names, n : Nat]
Resting == {"new", "idle", "over"}
Calls ==
  [pc : Resting \cup {"checking", "persisting", "asking", "waiting", "inside", "answered", "prompted", "resolving"},
   continues : BOOLEAN, gen : 0 .. MaxProcesses, steps : Nat, canceled : BOOLEAN, answer : Answers]

Surroundings ==
  /\ closed \in {"open", "closing", "closed"}
  /\ entry \in Entries
  /\ lock \in Workflows \cup {NoOne, "control", "visit"}
  /\ control \in {"idle", "disable", "enable", "restart"}

Work ==
  /\ Live \in SUBSET Workflows /\ IsFiniteSet(Live)
  /\ starts \in SUBSET Workflows /\ IsFiniteSet(starts)
  /\ prompts \in SUBSET Workflows
  /\ \A w \in Live : sessions[w] \in [gen : 1 .. MaxProcesses, steps : Nat]
  /\ call \in [Workflows -> Calls]
  /\ queue \in Seq(Events)
  /\ issued \in [Names -> {0, 1}]

\* Who holds the adapter, and when nobody may.
Locks ==
  /\ \A w \in Workflows : lock = w <=> call[w].pc = "inside"
  /\ control # "idle" <=> lock = "control"
  /\ entry.disabled => entry.proc = "none" /\ lock \in {NoOne, "control"}
  /\ closed = "closed" => entry.proc = "none" /\ lock = NoOne

\* What a request in flight knows of its workflow: a live one is continued, in
\* the generation that began it; one that is not yet live has a reservation.
Requests ==
  \A w \in Workflows :
    /\ call[w].pc \in Resting => ~call[w].continues
    /\ call[w].pc \in {"checking", "persisting"} => call[w].continues
    /\ w \in starts <=> call[w].pc \notin Resting /\ ~call[w].continues
    /\ w \in Live => /\ call[w].pc \notin {"new", "over"}
                     /\ call[w].pc # "idle" => call[w].continues /\ call[w].gen = sessions[w].gen
    /\ call[w].pc = "inside" => call[w].gen \in {0, entry.gen}
    /\ call[w].pc \in {"answered", "prompted", "resolving"} => call[w].gen # 0

\* Every live or begun workflow has its place in the queue of events, so no
\* event is ever dropped; none has ended before.
Places ==
  /\ Len(queue) + Cardinality(Live) + Cardinality(starts) <= MaxPending
  /\ \A w \in Live \cup starts : issued[w] = 0
  /\ \A w \in Workflows : call[w].pc = "new" => issued[w] = 0
  /\ \A w \in Names : issued[w] = 1 => [w |-> w, n |-> 1] \in Reported

IInv == Surroundings /\ Work /\ Locks /\ Requests /\ Places
-----------------------------------------------------------------------------
(* The process of the adapter.                                             *)

LEMMA EntryFields ==
  ASSUME NEW e \in Entries
  PROVE  /\ e = [disabled |-> e.disabled, restarting |-> e.restarting, rejected |-> e.rejected,
                 backoff |-> e.backoff, tried |-> e.tried, gen |-> e.gen, proc |-> e.proc]
         /\ e.disabled \in BOOLEAN /\ e.restarting \in BOOLEAN /\ e.rejected \in BOOLEAN
         /\ e.backoff \in BOOLEAN /\ e.tried \in BOOLEAN /\ e.gen \in 1 .. MaxProcesses
         /\ e.proc \in {"none", "up", "dead"}
BY DEF Entries

\* ensureProcess starts or keeps a process of an adapter that may run, and
\* leaves any other as it is.
LEMMA EnsuredFields ==
  ASSUME entry \in Entries, NEW r \in Ensured
  PROVE  /\ r.ok \in BOOLEAN /\ r.entry \in Entries /\ r.entry.disabled = entry.disabled
         /\ closed # "open" \/ entry.disabled => ~r.ok /\ r.entry = entry
<1> USE EntryFields
<1>1. CASE closed # "open" \/ entry.disabled \/ entry.restarting \/ entry.rejected
  <2>1. Ensured = {[ok |-> FALSE, entry |-> entry, faults |-> 0]}
    BY <1>1, Zenon DEF Ensured
  <2>2. r = [ok |-> FALSE, entry |-> entry, faults |-> 0]
    BY <2>1, Zenon
  <2>3. r.ok = FALSE /\ r.entry = entry
    BY <2>2
  <2> QED BY <2>3
<1>2. CASE ~(closed # "open" \/ entry.disabled \/ entry.restarting \/ entry.rejected)
  <2> DEFINE found == [entry EXCEPT !.proc = "none", !.backoff = @ \/ (entry.proc = "dead" /\ entry.tried)]
             next == [found EXCEPT !.tried = TRUE]
  <2>1. found \in Entries /\ found.disabled = entry.disabled
    <3>1. (entry.backoff \/ (entry.proc = "dead" /\ entry.tried)) \in BOOLEAN
      OBVIOUS
    <3> QED BY <3>1 DEF Entries
  <2>2. next \in Entries /\ next.disabled = entry.disabled
    <3> HIDE DEF found
    <3> QED BY <2>1 DEF Entries
  <2>3. CASE entry.proc = "up"
    <3>1. Ensured = {[ok |-> TRUE, entry |-> [entry EXCEPT !.tried = t], faults |-> 0] : t \in {entry.tried, FALSE}}
      BY <1>2, <2>3, Zenon DEF Ensured
    <3>2. PICK t \in {entry.tried, FALSE} : r = [ok |-> TRUE, entry |-> [entry EXCEPT !.tried = t], faults |-> 0]
      BY <3>1, Zenon
    <3>3. [entry EXCEPT !.tried = t] \in Entries /\ [entry EXCEPT !.tried = t].disabled = entry.disabled
      BY DEF Entries
    <3>4. r.ok = TRUE /\ r.entry = [entry EXCEPT !.tried = t]
      BY <3>2, Zenon
    <3> QED BY <1>2, <3>3, <3>4
  <2>4. CASE entry.proc # "up" /\ found.backoff
    <3>1. Ensured = {[ok |-> FALSE, entry |-> found, faults |-> 0]}
      BY <1>2, <2>4, Zenon DEF Ensured
    <3>2. r = [ok |-> FALSE, entry |-> found, faults |-> 0]
      BY <3>1, Zenon
    <3> HIDE DEF found
    <3>3. r.ok = FALSE /\ r.entry = found
      BY <3>2
    <3> QED BY <1>2, <2>1, <3>3
  <2>5. CASE entry.proc # "up" /\ ~found.backoff
    <3> DEFINE Ran(g) == [next EXCEPT !.proc = "up", !.gen = g]
               Down == {[next EXCEPT !.rejected = TRUE], [next EXCEPT !.backoff = TRUE]}
               cost == IF entry.gen < MaxProcesses THEN 1 ELSE 0
    <3>1. Ensured = {[ok |-> TRUE, entry |-> Ran(g), faults |-> 0] : g \in {entry.gen + 1} \cap 1 .. MaxProcesses}
                    \cup {[ok |-> FALSE, entry |-> e, faults |-> cost] : e \in Down}
      BY <1>2, <2>5, Zenon DEF Ensured
    <3>2. \A g \in 1 .. MaxProcesses : Ran(g) \in Entries /\ Ran(g).disabled = entry.disabled
      <4> HIDE DEF next, found
      <4> QED BY <2>2 DEF Entries
    <3>3. \A e \in Down : e \in Entries /\ e.disabled = entry.disabled
      <4> HIDE DEF next, found
      <4> QED BY <2>2 DEF Entries
    <3> HIDE DEF next, found, Ran, Down, cost
    <3>4. \/ \E g \in 1 .. MaxProcesses : r = [ok |-> TRUE, entry |-> Ran(g), faults |-> 0]
          \/ \E e \in Down : r = [ok |-> FALSE, entry |-> e, faults |-> cost]
      BY <3>1, Zenon
    <3>5. \/ \E g \in 1 .. MaxProcesses : r.ok = TRUE /\ r.entry = Ran(g)
          \/ \E e \in Down : r.ok = FALSE /\ r.entry = e
      BY <3>4
    <3> QED BY <1>2, <3>2, <3>3, <3>5
  <2> QED BY <2>3, <2>4, <2>5
<1> QED BY <1>1, <1>2

-----------------------------------------------------------------------------
(* The queue of terminal events.                                           *)

LEMMA NewestIsAll ==
  ASSUME NEW q \in Seq(Events), Len(q) <= MaxPending
  PROVE  Newest(q) = q
<1>1. SubSeq(q, 1 + 0, Len(q)) = q
  OBVIOUS
<1> QED BY <1>1 DEF Newest

\* An event that is queued, when there is a place for it.
LEMMA EventQueued ==
  ASSUME Work, NEW w \in Names, issued[w] = 0, Len(queue) < MaxPending, Record(w), history' = history
  PROVE  /\ queue' \in Seq(Events) /\ Len(queue') = Len(queue) + 1
         /\ issued' = [issued EXCEPT ![w] = 1] /\ issued' \in [Names -> {0, 1}]
         /\ Reported' = Reported \cup {[w |-> w, n |-> 1]}
<1> DEFINE e == [w |-> w, n |-> 1]
<1>1. Event(w) = e /\ e \in Events
  BY DEF Event, Events, Work
<1>2. queue \in Seq(Events) /\ Append(queue, e) \in Seq(Events) /\ Len(Append(queue, e)) = Len(queue) + 1
  BY <1>1 DEF Work
<1>3. queue' = Append(queue, e)
  <2>1. queue' = Newest(Append(queue, e))
    BY <1>1, Zenon DEF Record
  <2>2. Newest(Append(queue, e)) = Append(queue, e)
    <3> HIDE DEF e
    <3>1. Len(Append(queue, e)) <= MaxPending
      BY <1>2
    <3> QED BY <1>2, <3>1, NewestIsAll
  <2> QED BY <2>1, <2>2
<1>4. issued' = [issued EXCEPT ![w] = 1] /\ issued' \in [Names -> {0, 1}]
  BY DEF Record, Work
<1>5. {queue'[i] : i \in DOMAIN queue'} = {queue[i] : i \in DOMAIN queue} \cup {e}
  <2>1. DOMAIN queue' = 1 .. Len(queue) + 1 /\ DOMAIN queue = 1 .. Len(queue) /\ Len(queue) \in Nat
    BY <1>2, <1>3
  <2>2. \A i \in 1 .. Len(queue) : queue'[i] = queue[i]
    BY <1>2, <1>3
  <2>3. queue'[Len(queue) + 1] = e
    BY <1>2, <1>3
  <2>4. ASSUME NEW i \in DOMAIN queue' PROVE queue'[i] \in {queue[j] : j \in DOMAIN queue} \cup {e}
    <3>1. i \in DOMAIN queue \/ i = Len(queue) + 1
      BY <2>1
    <3> QED BY <2>1, <2>2, <2>3, <3>1
  <2>5. {queue[i] : i \in DOMAIN queue} \subseteq {queue'[i] : i \in DOMAIN queue'}
    <3>1. DOMAIN queue \subseteq DOMAIN queue'
      BY <2>1
    <3> QED BY <2>1, <2>2, <3>1
  <2>6. e \in {queue'[i] : i \in DOMAIN queue'}
    BY <2>1, <2>3
  <2> QED BY <2>4, <2>5, <2>6
<1> QED BY <1>2, <1>3, <1>4, <1>5 DEF Reported

\* The events of all live workflows, when there is a place for each.
LEMMA AllQueued ==
  ASSUME Work, \A w \in Live : issued[w] = 0, Len(queue) + Cardinality(Live) <= MaxPending,
         RemoveAll, history' = history
  PROVE  /\ queue' \in Seq(Events) /\ Len(queue') = Len(queue) + Cardinality(Live)
         /\ issued' = [w \in Names |-> IF w \in Live THEN 1 ELSE issued[w]]
         /\ issued' \in [Names -> {0, 1}]
         /\ Reported \subseteq Reported'
         /\ \A w \in Live : [w |-> w, n |-> 1] \in Reported'
<1> DEFINE n == Cardinality(Live)
<1>1. n \in Nat
  BY FS_CardinalityType DEF Work
<1>2. PICK order \in [1 .. n -> Live] :
         /\ {order[i] : i \in DOMAIN order} = Live
         /\ queue' = Newest(queue \o [i \in DOMAIN order |-> Event(order[i])])
  BY DEF RemoveAll
<1> DEFINE new == [i \in 1 .. n |-> [w |-> order[i], n |-> 1]]
<1>3. [i \in DOMAIN order |-> Event(order[i])] = new
  BY <1>2 DEF Event
<1>4. new \in Seq(Events) /\ Len(new) = n
  <2>1. \A i \in 1 .. n : [w |-> order[i], n |-> 1] \in Events
    BY <1>2 DEF Events, Names, Work
  <2> QED BY <1>1, <2>1
<1>5. queue \in Seq(Events) /\ Len(queue) \in Nat
  BY DEF Work
<1> HIDE DEF new
<1>6. /\ queue \o new \in Seq(Events) /\ Len(queue \o new) = Len(queue) + n
      /\ \A i \in 1 .. Len(queue) : (queue \o new)[i] = queue[i]
      /\ \A i \in 1 .. n : (queue \o new)[Len(queue) + i] = new[i]
  BY <1>1, <1>4, <1>5
<1>7. queue' = queue \o new
  BY <1>2, <1>3, <1>6, NewestIsAll
<1>8. issued' = [w \in Names |-> IF w \in Live THEN 1 ELSE issued[w]] /\ issued' \in [Names -> {0, 1}]
  <2>1. issued' = [w \in Names |-> issued[w] + (IF w \in Live THEN 1 ELSE 0)]
    BY DEF RemoveAll, Work
  <2>2. \A w \in Names : issued[w] \in {0, 1} /\ issued[w] + (IF w \in Live THEN 1 ELSE 0) = IF w \in Live THEN 1 ELSE issued[w]
    BY DEF Work, Names
  <2>3. issued' = [w \in Names |-> IF w \in Live THEN 1 ELSE issued[w]]
    BY <2>1, <2>2, Zenon
  <2> QED BY <2>2, <2>3
<1>9. DOMAIN queue = 1 .. Len(queue) /\ DOMAIN queue' = 1 .. Len(queue) + n
  BY <1>5, <1>6, <1>7
<1>10. Reported \subseteq Reported'
  <2>1. \A i \in DOMAIN queue : i \in DOMAIN queue' /\ queue'[i] = queue[i]
    BY <1>1, <1>5, <1>6, <1>7, <1>9
  <2> QED BY <2>1 DEF Reported
<1>11. ASSUME NEW w \in Live PROVE [w |-> w, n |-> 1] \in Reported'
  <2>1. PICK i \in 1 .. n : order[i] = w
    BY <1>2
  <2>2. new[i] = [w |-> w, n |-> 1]
    BY <2>1 DEF new
  <2>3. Len(queue) + i \in DOMAIN queue' /\ queue'[Len(queue) + i] = new[i]
    BY <1>1, <1>5, <1>6, <1>7, <1>9, <2>1
  <2> QED BY <2>2, <2>3 DEF Reported
<1> QED BY <1>6, <1>7, <1>8, <1>10, <1>11

-----------------------------------------------------------------------------
(* What a request does to the workflows, whatever happens to the adapter.  *)

LEMMA CallFields ==
  ASSUME NEW c \in Calls
  PROVE  /\ c = [pc |-> c.pc, continues |-> c.continues, gen |-> c.gen, steps |-> c.steps,
                 canceled |-> c.canceled, answer |-> c.answer]
         /\ c.pc \in Resting \cup {"checking", "persisting", "asking", "waiting", "inside", "answered",
                                   "prompted", "resolving"}
         /\ c.continues \in BOOLEAN /\ c.gen \in 0 .. MaxProcesses /\ c.steps \in Nat
         /\ c.canceled \in BOOLEAN /\ c.answer \in Answers
BY DEF Calls

LEMMA OverFields ==
  ASSUME Work, NEW w \in Workflows, NEW s
  PROVE  /\ Over(w, s) \in [Workflows -> Calls]
         /\ \A x \in Workflows \ {w} : Over(w, s)[x] = call[x]
         /\ Over(w, s)[w].pc = IF w \in s THEN "idle" ELSE "over"
         /\ ~Over(w, s)[w].continues
<1> DEFINE pc == IF w \in s THEN "idle" ELSE "over"
           c == [call[w] EXCEPT !.pc = pc, !.continues = FALSE, !.canceled = FALSE, !.answer = "failed"]
<1>1. call[w] \in Calls /\ pc \in Resting
  BY DEF Work, Resting
<1> HIDE DEF pc
<1>2. c \in Calls /\ c.pc = pc /\ c.continues = FALSE
  BY <1>1 DEF Calls, Answers
<1>3. Over(w, s) = [call EXCEPT ![w] = c]
  BY Zenon DEF Over, c, pc
<1> HIDE DEF c
<1> QED BY <1>2, <1>3 DEF Work, pc

LEMMA Numbers ==
  ASSUME Work
  PROVE  /\ Cardinality(Live) \in Nat /\ Cardinality(starts) \in Nat /\ Len(queue) \in Nat
         /\ \A w \in Live : Cardinality(Live \ {w}) = Cardinality(Live) - 1 /\ IsFiniteSet(Live \ {w})
         /\ \A w \in starts : Cardinality(starts \ {w}) = Cardinality(starts) - 1 /\ IsFiniteSet(starts \ {w})
         /\ \A w \in Workflows \ Live : Cardinality(Live \cup {w}) = Cardinality(Live) + 1 /\ IsFiniteSet(Live \cup {w})
         /\ \A w \in Workflows \ starts : Cardinality(starts \cup {w}) = Cardinality(starts) + 1 /\ IsFiniteSet(starts \cup {w})
BY FS_CardinalityType, FS_RemoveElement, FS_AddElement DEF Work

\* How the workflow of a request that is over is left: as it is, ended, ended
\* before it was ever live, or with its challenge published.
Leaves(w) ==
  \/ UNCHANGED <<sessions, queue, issued>> /\ prompts' \in SUBSET (prompts \cup {w})
  \/ w \in Live /\ Remove(w)
  \/ w \in starts /\ Record(w) /\ UNCHANGED <<sessions, prompts>>
  \/ /\ call[w].continues => w \in Live
     /\ call[w].gen # 0
     /\ sessions' = [x \in Live \cup {w} |-> IF x = w THEN [gen |-> call[w].gen, steps |-> call[w].steps]
                                             ELSE sessions[x]]
     /\ UNCHANGED <<prompts, queue, issued>>

\* The adapter keeps its generation under a call that is being answered.
KeepsInside(who) == entry'.gen = entry.gen \/ \A x \in who : call[x].pc # "inside"

\* The number of places taken, and what is in the queue, when a request is over.
LEMMA PlaceIsKept ==
  ASSUME Work, Requests, Places, NEW w \in Workflows, call[w].pc \notin Resting, starts' = starts \ {w},
         Leaves(w), history' = history
  PROVE  /\ queue' \in Seq(Events) /\ issued' \in [Names -> {0, 1}] /\ prompts' \in SUBSET Workflows
         /\ Live' \in SUBSET Workflows /\ IsFiniteSet(Live') /\ Live' \ {w} = Live \ {w}
         /\ \A x \in Live' \ {w} : sessions'[x] = sessions[x]
         /\ w \in Live' => sessions'[w] \in [gen : 1 .. MaxProcesses, steps : Nat] /\ issued'[w] = 0
         /\ IsFiniteSet(starts')
         /\ Len(queue') + Cardinality(Live') + Cardinality(starts') <= MaxPending
         /\ \A x \in Names \ {w} : issued'[x] = issued[x]
         /\ Reported \subseteq Reported'
         /\ issued'[w] = 1 => issued[w] = 1 \/ [w |-> w, n |-> 1] \in Reported'
<1>1. /\ w \in Live => w \notin starts /\ starts' = starts
      /\ w \notin starts => starts' = starts
      /\ w \in Names /\ issued[w] \in {0, 1}
  BY DEF Requests, Work, Names, Resting
<1>n. /\ Cardinality(Live) \in Nat /\ Cardinality(starts) \in Nat /\ Len(queue) \in Nat
      /\ w \in Live => Cardinality(Live \ {w}) = Cardinality(Live) - 1 /\ IsFiniteSet(Live \ {w}) /\ Cardinality(Live \ {w}) \in Nat
      /\ w \in starts => Cardinality(starts \ {w}) = Cardinality(starts) - 1 /\ IsFiniteSet(starts \ {w}) /\ Cardinality(starts \ {w}) \in Nat
      /\ w \notin Live => Cardinality(Live \cup {w}) = Cardinality(Live) + 1 /\ IsFiniteSet(Live \cup {w})
  BY Numbers, FS_CardinalityType
<1>2. IsFiniteSet(starts') /\ Cardinality(starts') \in Nat /\ Cardinality(starts') <= Cardinality(starts)
  <2>1. CASE w \in starts
    BY <2>1, <1>n
  <2>2. CASE w \notin starts
    <3>1. starts' = starts /\ IsFiniteSet(starts)
      BY <1>1, <2>2 DEF Work
    <3>2. Cardinality(starts') = Cardinality(starts) /\ IsFiniteSet(starts')
      BY ONLY <3>1, Zenon
    <3> QED BY ONLY <3>2, <1>n
  <2> QED BY <2>1, <2>2
<1>3. CASE UNCHANGED <<sessions, queue, issued>> /\ prompts' \in SUBSET (prompts \cup {w})
  <2>1. Reported' = Reported
    BY <1>3 DEF Reported
  <2>2. Live' = Live
    BY <1>3 DEF Live
  <2>3. w \in Live => issued[w] = 0
    BY DEF Places
  <2>4. Len(queue) + Cardinality(Live) + Cardinality(starts') <= MaxPending
    BY <1>2, <1>n DEF Places
  <2> QED BY <1>1, <1>2, <1>3, <2>1, <2>2, <2>3, <2>4 DEF Work
<1>4. CASE w \in Live /\ Remove(w)
  <2>1. issued[w] = 0 /\ Len(queue) < MaxPending
    <3>1. Cardinality(Live) >= 1
      BY <1>4, <1>n
    <3> QED BY <1>4, <3>1, <1>n DEF Places
  <2>2. /\ queue' \in Seq(Events) /\ Len(queue') = Len(queue) + 1
        /\ issued' = [issued EXCEPT ![w] = 1] /\ issued' \in [Names -> {0, 1}]
        /\ Reported' = Reported \cup {[w |-> w, n |-> 1]}
    BY <1>1, <1>4, <2>1, EventQueued DEF Remove
  <2>3. Live' = Live \ {w} /\ \A x \in Live \ {w} : sessions'[x] = sessions[x]
    BY <1>4 DEF Remove, Live
  <2>4. Len(queue') + Cardinality(Live') + Cardinality(starts') <= MaxPending
    <3>1. Cardinality(Live') = Cardinality(Live) - 1
      BY <1>4, <2>3, <1>n
    <3>2. starts' = starts
      BY <1>1, <1>4
    <3>3. Cardinality(starts') = Cardinality(starts)
      BY ONLY <3>2, Zenon
    <3>4. Len(queue) + Cardinality(Live) + Cardinality(starts) <= MaxPending
      BY DEF Places
    <3> QED BY ONLY <2>2, <3>1, <3>3, <3>4, <1>n
  <2>5. prompts' \in SUBSET Workflows
    BY <1>4 DEF Remove, Work
  <2> QED BY <1>2, <1>4, <2>2, <2>3, <2>4, <2>5, <1>n DEF Work
<1>5. CASE w \in starts /\ Record(w) /\ UNCHANGED <<sessions, prompts>>
  <2>1. issued[w] = 0 /\ Len(queue) < MaxPending
    <3>1. Cardinality(starts) >= 1
      BY <1>5, <1>n
    <3> QED BY <1>5, <3>1, <1>n DEF Places
  <2>2. /\ queue' \in Seq(Events) /\ Len(queue') = Len(queue) + 1
        /\ issued' = [issued EXCEPT ![w] = 1] /\ issued' \in [Names -> {0, 1}]
        /\ Reported' = Reported \cup {[w |-> w, n |-> 1]}
    BY <1>1, <1>5, <2>1, EventQueued
  <2>3. Live' = Live /\ w \notin Live
    BY <1>1, <1>5 DEF Live
  <2>4. Len(queue') + Cardinality(Live') + Cardinality(starts') <= MaxPending
    BY <1>5, <2>2, <2>3, <1>n DEF Places
  <2> QED BY <1>2, <1>5, <2>2, <2>3, <2>4 DEF Work
<1>6. CASE /\ call[w].continues => w \in Live
           /\ call[w].gen # 0
           /\ sessions' = [x \in Live \cup {w} |-> IF x = w THEN [gen |-> call[w].gen, steps |-> call[w].steps]
                                                   ELSE sessions[x]]
           /\ UNCHANGED <<prompts, queue, issued>>
  <2>1. Reported' = Reported
    BY <1>6 DEF Reported
  <2>2. Live' = Live \cup {w} /\ \A x \in Live \ {w} : sessions'[x] = sessions[x]
    BY <1>6 DEF Live
  <2>3. sessions'[w] \in [gen : 1 .. MaxProcesses, steps : Nat]
    <3>1. call[w].gen \in 0 .. MaxProcesses /\ call[w].steps \in Nat
      BY CallFields DEF Work
    <3> QED BY <1>6, <3>1
  <2>4. w \in Live \/ w \in starts
    BY <1>6 DEF Requests
  <2>5. issued[w] = 0
    BY <2>4 DEF Places
  <2>6. /\ Len(queue) + Cardinality(Live') + Cardinality(starts') <= MaxPending
        /\ IsFiniteSet(Live')
    <3>1. CASE w \in Live
      <4>1. Live' = Live
        BY <2>2, <3>1
      <4> QED BY <1>1, <3>1, <4>1 DEF Places, Work
    <3>2. CASE w \notin Live
      BY <2>2, <2>4, <3>2, <1>n DEF Places
    <3> QED BY <3>1, <3>2
  <2> QED BY <1>2, <1>6, <2>1, <2>2, <2>3, <2>5, <2>6 DEF Work
<1> QED BY <1>3, <1>4, <1>5, <1>6 DEF Leaves

LEMMA RequestIsOver ==
  ASSUME Work, Requests, Places, NEW w \in Workflows, call[w].pc \notin Resting, Return(w),
         Leaves(w), history' = history, KeepsInside(Workflows \ {w})
  PROVE  Work' /\ Requests' /\ Places'
<1>1. /\ call' \in [Workflows -> Calls]
      /\ \A x \in Workflows \ {w} : call'[x] = call[x]
      /\ call'[w].pc = IF w \in Live' THEN "idle" ELSE "over"
      /\ ~call'[w].continues
  BY OverFields DEF Return, Live
<1>2. starts' = starts \ {w}
  BY DEF Return
<1>3. /\ queue' \in Seq(Events) /\ issued' \in [Names -> {0, 1}] /\ prompts' \in SUBSET Workflows
      /\ Live' \in SUBSET Workflows /\ IsFiniteSet(Live') /\ Live' \ {w} = Live \ {w}
      /\ \A x \in Live' \ {w} : sessions'[x] = sessions[x]
      /\ w \in Live' => sessions'[w] \in [gen : 1 .. MaxProcesses, steps : Nat] /\ issued'[w] = 0
      /\ IsFiniteSet(starts')
      /\ Len(queue') + Cardinality(Live') + Cardinality(starts') <= MaxPending
      /\ \A x \in Names \ {w} : issued'[x] = issued[x]
      /\ Reported \subseteq Reported'
      /\ issued'[w] = 1 => issued[w] = 1 \/ [w |-> w, n |-> 1] \in Reported'
  BY <1>2, PlaceIsKept
<1>4. Work'
  BY <1>1, <1>2, <1>3 DEF Work
<1>5. ASSUME NEW x \in Workflows \ {w}
      PROVE  /\ x \in Live' <=> x \in Live
             /\ x \in starts' <=> x \in starts
             /\ x \in Live => sessions'[x] = sessions[x]
             /\ call'[x] = call[x] /\ issued'[x] = issued[x]
             /\ call[x].pc = "inside" => entry'.gen = entry.gen
  BY <1>1, <1>2, <1>3 DEF KeepsInside, Names
<1>6. Requests'
  <2>1. ASSUME NEW x \in Workflows \ {w}
        PROVE  /\ call'[x].pc \in Resting => ~call'[x].continues
               /\ call'[x].pc \in {"checking", "persisting"} => call'[x].continues
               /\ x \in starts' <=> call'[x].pc \notin Resting /\ ~call'[x].continues
               /\ x \in Live' => /\ call'[x].pc \notin {"new", "over"}
                                 /\ call'[x].pc # "idle" => call'[x].continues /\ call'[x].gen = sessions'[x].gen
               /\ call'[x].pc = "inside" => call'[x].gen \in {0, entry'.gen}
               /\ call'[x].pc \in {"answered", "prompted", "resolving"} => call'[x].gen # 0
    BY <1>5 DEF Requests
  <2>2. w \notin starts' /\ call'[w].pc \in {"idle", "over"} /\ ~call'[w].continues /\ (w \in Live' => call'[w].pc = "idle")
    BY <1>1, <1>2
  <2> QED BY <2>1, <2>2 DEF Requests, Resting
<1>7. Places'
  <2>1. \A x \in Live' \cup starts' : issued'[x] = 0
    BY <1>2, <1>3, <1>5 DEF Places, Work
  <2>2. \A x \in Workflows : call'[x].pc = "new" => issued'[x] = 0
    BY <1>1, <1>5 DEF Places
  <2>3. \A x \in Names : issued'[x] = 1 => [w |-> x, n |-> 1] \in Reported'
    BY <1>3 DEF Places
  <2> QED BY <1>3, <2>1, <2>2, <2>3 DEF Places
<1> QED BY <1>4, <1>6, <1>7

LEMMA RequestGoesOn ==
  ASSUME Work, Requests, Places, NEW w \in Workflows, call[w].pc \notin Resting, NEW c \in Calls,
         call' = [call EXCEPT ![w] = c], starts' = starts, history' = history,
         UNCHANGED <<sessions, queue, issued>>, prompts' \in SUBSET (prompts \cup {w}),
         c.pc \notin Resting, c.continues = call[w].continues, c.gen = call[w].gen \/ w \notin Live,
         c.pc \in {"checking", "persisting"} => c.continues,
         c.pc = "inside" => c.gen \in {0, entry'.gen},
         c.pc \in {"answered", "prompted", "resolving"} => c.gen # 0,
         KeepsInside(Workflows \ {w})
  PROVE  Work' /\ Requests' /\ Places'
<1>1. /\ call' \in [Workflows -> Calls] /\ call'[w] = c
      /\ \A x \in Workflows \ {w} : call'[x] = call[x]
  BY DEF Work
<1>2. Live' = Live /\ Reported' = Reported
  BY DEF Live, Reported
<1>3. Work'
  BY <1>1, <1>2 DEF Work
<1>4. Requests'
  <2>1. ASSUME NEW x \in Workflows \ {w}
        PROVE  /\ call'[x].pc \in Resting => ~call'[x].continues
               /\ call'[x].pc \in {"checking", "persisting"} => call'[x].continues
               /\ x \in starts' <=> call'[x].pc \notin Resting /\ ~call'[x].continues
               /\ x \in Live' => /\ call'[x].pc \notin {"new", "over"}
                                 /\ call'[x].pc # "idle" => call'[x].continues /\ call'[x].gen = sessions'[x].gen
               /\ call'[x].pc = "inside" => call'[x].gen \in {0, entry'.gen}
               /\ call'[x].pc \in {"answered", "prompted", "resolving"} => call'[x].gen # 0
    BY <1>1, <1>2 DEF Requests, KeepsInside
  <2>2. /\ w \in starts' <=> ~c.continues
        /\ w \in Live' => c.continues /\ c.gen = sessions'[w].gen
    BY <1>2 DEF Requests, Resting
  <2> QED BY <1>1, <2>1, <2>2 DEF Requests, Resting
<1>5. Places'
  <2>1. \A x \in Workflows : call'[x].pc = "new" => issued'[x] = 0
    BY <1>1 DEF Places, Resting
  <2>2. Len(queue') + Cardinality(Live') + Cardinality(starts') <= MaxPending
    BY <1>2 DEF Places
  <2> QED BY <1>2, <2>1, <2>2 DEF Places
<1> QED BY <1>3, <1>4, <1>5

LEMMA CanceledFields ==
  ASSUME Work, NEW ws
  PROVE  /\ Canceled(ws) \in [Workflows -> Calls]
         /\ \A x \in Workflows : /\ Canceled(ws)[x].pc = call[x].pc
                                 /\ Canceled(ws)[x].continues = call[x].continues
                                 /\ Canceled(ws)[x].gen = call[x].gen
<1>1. ASSUME NEW x \in Workflows
      PROVE  /\ Canceled(ws)[x] \in Calls /\ Canceled(ws)[x].pc = call[x].pc
             /\ Canceled(ws)[x].continues = call[x].continues /\ Canceled(ws)[x].gen = call[x].gen
  <2>1. call[x] \in Calls
    BY DEF Work
  <2>2. /\ [call[x] EXCEPT !.canceled = TRUE] \in Calls
        /\ [call[x] EXCEPT !.canceled = TRUE].pc = call[x].pc
        /\ [call[x] EXCEPT !.canceled = TRUE].continues = call[x].continues
        /\ [call[x] EXCEPT !.canceled = TRUE].gen = call[x].gen
    BY <2>1 DEF Calls
  <2>3. Canceled(ws)[x] = call[x] \/ Canceled(ws)[x] = [call[x] EXCEPT !.canceled = TRUE]
    BY DEF Canceled
  <2> QED BY <2>1, <2>2, <2>3
<1>2. Canceled(ws) = [x \in Workflows |-> Canceled(ws)[x]]
  BY DEF Canceled
<1> QED BY <1>1, <1>2

\* What somebody else does to the live workflows.
LEMMA PlaceIsFreed ==
  ASSUME Work, Places, starts' = starts, history' = history,
         \/ UNCHANGED <<sessions, queue, issued>>
         \/ \E w \in Live : Remove(w)
         \/ RemoveAll
  PROVE  /\ queue' \in Seq(Events) /\ issued' \in [Names -> {0, 1}]
         /\ Live' \in SUBSET Live /\ IsFiniteSet(Live')
         /\ \A x \in Live' : sessions'[x] = sessions[x] /\ issued'[x] = 0
         /\ Len(queue') + Cardinality(Live') + Cardinality(starts) <= MaxPending
         /\ \A x \in Names \ Live : issued'[x] = issued[x]
         /\ Reported \subseteq Reported'
         /\ \A x \in Names : issued'[x] = 1 => issued[x] = 1 \/ [w |-> x, n |-> 1] \in Reported'
<1>0. /\ Cardinality(Live) \in Nat /\ Cardinality(starts) \in Nat /\ Len(queue) \in Nat
      /\ \A x \in Live : issued[x] = 0
      /\ Len(queue) + Cardinality(Live) + Cardinality(starts) <= MaxPending
      /\ Live \in SUBSET Names
  BY Numbers DEF Places, Work, Names
<1>1. CASE UNCHANGED <<sessions, queue, issued>>
  <2>1. Live' = Live /\ Reported' = Reported
    BY <1>1 DEF Live, Reported
  <2> QED BY <1>0, <1>1, <2>1 DEF Work
<1>2. CASE \E w \in Live : Remove(w)
  <2>1. PICK w \in Live : Remove(w)
    BY <1>2
  <2>2. /\ Cardinality(Live \ {w}) = Cardinality(Live) - 1 /\ IsFiniteSet(Live \ {w})
        /\ Cardinality(Live \ {w}) \in Nat
    BY Numbers, FS_CardinalityType
  <2>3. issued[w] = 0 /\ Len(queue) < MaxPending /\ w \in Names
    BY <1>0, <2>2
  <2>4. /\ queue' \in Seq(Events) /\ Len(queue') = Len(queue) + 1
        /\ issued' = [issued EXCEPT ![w] = 1] /\ issued' \in [Names -> {0, 1}]
        /\ Reported' = Reported \cup {[w |-> w, n |-> 1]}
    <3>1. Record(w)
      BY <2>1 DEF Remove
    <3> QED BY <2>3, <3>1, EventQueued
  <2>5. Live' = Live \ {w} /\ \A x \in Live \ {w} : sessions'[x] = sessions[x]
    BY <2>1 DEF Remove, Live
  <2>6. Cardinality(Live') = Cardinality(Live) - 1 /\ IsFiniteSet(Live')
    BY ONLY <2>2, <2>5
  <2>7. \A x \in Names \ {w} : issued'[x] = issued[x]
    BY <2>4 DEF Work
  <2>8. Len(queue') + Cardinality(Live') + Cardinality(starts) <= MaxPending
    BY <1>0, <2>2, <2>4, <2>6
  <2>9. issued'[w] = 1 /\ w \in Live /\ [w |-> w, n |-> 1] \in Reported' /\ Reported \subseteq Reported'
    BY <2>3, <2>4 DEF Work
  <2>10. \A x \in Names \ Live : issued'[x] = issued[x]
    BY <2>7, <2>9
  <2>11. \A x \in Live' : sessions'[x] = sessions[x] /\ issued'[x] = 0
    BY <1>0, <2>5, <2>7
  <2>12. \A x \in Names : issued'[x] = 1 => issued[x] = 1 \/ [w |-> x, n |-> 1] \in Reported'
    BY <2>7, <2>9
  <2> QED BY <2>4, <2>5, <2>6, <2>8, <2>9, <2>10, <2>11, <2>12
<1>3. CASE RemoveAll
  <2>1. /\ queue' \in Seq(Events) /\ Len(queue') = Len(queue) + Cardinality(Live)
        /\ issued' = [w \in Names |-> IF w \in Live THEN 1 ELSE issued[w]]
        /\ issued' \in [Names -> {0, 1}]
        /\ Reported \subseteq Reported'
        /\ \A w \in Live : [w |-> w, n |-> 1] \in Reported'
    <3>1. Len(queue) + Cardinality(Live) <= MaxPending
      BY <1>0
    <3> QED BY <1>0, <1>3, <3>1, AllQueued
  <2>2. Live' = {}
    BY <1>3 DEF RemoveAll, Live
  <2>3. Cardinality(Live') = 0 /\ IsFiniteSet(Live')
    BY ONLY <2>2, FS_EmptySet
  <2>4. \A x \in Names \ Live : issued'[x] = issued[x]
    BY <2>1
  <2>5. \A x \in Names : issued'[x] = 1 => issued[x] = 1 \/ [w |-> x, n |-> 1] \in Reported'
    BY <2>1
  <2>6. Len(queue') + Cardinality(Live') + Cardinality(starts) <= MaxPending
    BY <1>0, <2>1, <2>3
  <2>7. \A x \in Live' : sessions'[x] = sessions[x] /\ issued'[x] = 0
    BY <2>2
  <2> QED BY <2>1, <2>2, <2>3, <2>4, <2>5, <2>6, <2>7
<1> QED BY <1>1, <1>2, <1>3

LEMMA OthersEndIt ==
  ASSUME Work, Requests, Places, starts' = starts, history' = history, KeepsInside(Workflows),
         call' \in [Workflows -> Calls],
         \A x \in Workflows : /\ call'[x].pc = call[x].pc /\ call'[x].continues = call[x].continues
                              /\ call'[x].gen = call[x].gen,
         prompts' \in SUBSET prompts,
         \/ UNCHANGED <<sessions, queue, issued>>
         \/ \E w \in Live : Remove(w)
         \/ RemoveAll
  PROVE  Work' /\ Requests' /\ Places'
<1>1. /\ queue' \in Seq(Events) /\ issued' \in [Names -> {0, 1}]
      /\ Live' \in SUBSET Live /\ IsFiniteSet(Live')
      /\ \A x \in Live' : sessions'[x] = sessions[x] /\ issued'[x] = 0
      /\ Len(queue') + Cardinality(Live') + Cardinality(starts) <= MaxPending
      /\ \A x \in Names \ Live : issued'[x] = issued[x]
      /\ Reported \subseteq Reported'
      /\ \A x \in Names : issued'[x] = 1 => issued[x] = 1 \/ [w |-> x, n |-> 1] \in Reported'
  BY PlaceIsFreed
<1>2. Work'
  BY <1>1 DEF Work
<1>3. Requests'
  BY <1>1 DEF Requests, KeepsInside
<1>4. Places'
  <2>1. ASSUME NEW x \in starts PROVE issued'[x] = 0
    BY <1>1 DEF Requests, Places, Resting, Names, Work
  <2>2. ASSUME NEW x \in Workflows, call[x].pc = "new" PROVE issued'[x] = 0
    BY <1>1, <2>2 DEF Requests, Places, Names
  <2>3. \A x \in Names : issued'[x] = 1 => [w |-> x, n |-> 1] \in Reported'
    BY <1>1 DEF Places
  <2> QED BY <1>1, <2>1, <2>2, <2>3 DEF Places
<1> QED BY <1>2, <1>3, <1>4

-----------------------------------------------------------------------------
(* The adapter's lock and gates.                                           *)

LEMMA NobodyInside ==
  ASSUME Locks, lock \in {NoOne, "control", "visit"}
  PROVE  \A x \in Workflows : call[x].pc # "inside"
BY DEF Locks

LEMMA AdapterIsKept ==
  ASSUME Surroundings, Locks, UNCHANGED <<closed, entry, lock, control>>,
         \A x \in Workflows : call'[x].pc = "inside" <=> call[x].pc = "inside"
  PROVE  Surroundings' /\ Locks' /\ \A who : KeepsInside(who)
BY DEF Surroundings, Locks, KeepsInside

\* A process that was ensured under the lock.
LEMMA AdapterIsEnsured ==
  ASSUME Surroundings, Locks, lock = NoOne, NEW r \in Ensured, entry' = r.entry, UNCHANGED <<closed, lock, control>>,
         \A x \in Workflows : call'[x].pc # "inside"
  PROVE  Surroundings' /\ Locks' /\ KeepsInside(Workflows)
<1>1. /\ r.ok \in BOOLEAN /\ r.entry \in Entries /\ r.entry.disabled = entry.disabled
      /\ closed # "open" \/ entry.disabled => ~r.ok /\ r.entry = entry
  BY EnsuredFields DEF Surroundings
<1>2. Surroundings' /\ KeepsInside(Workflows)
  BY <1>1, NobodyInside DEF Surroundings, KeepsInside
<1>3. \A w \in Workflows : lock' = w <=> call'[w].pc = "inside"
  OBVIOUS
<1>4. /\ entry'.disabled => entry'.proc = "none" /\ lock' \in {NoOne, "control"}
      /\ closed' = "closed" => entry'.proc = "none" /\ lock' = NoOne
  BY <1>1 DEF Locks
<1> QED BY <1>2, <1>3, <1>4 DEF Locks

LEMMA Returned ==
  ASSUME Work, NEW w \in Workflows, Return(w)
  PROVE  /\ \A x \in Workflows \ {w} : call'[x] = call[x]
         /\ call'[w].pc \in {"idle", "over"}
BY OverFields DEF Return

LEMMA Gone ==
  ASSUME Work, NEW w \in Workflows, NEW pc \in {"persisting", "asking", "waiting"}, Goto(w, pc)
  PROVE  /\ \A x \in Workflows \ {w} : call'[x] = call[x]
         /\ call'[w].pc = pc
         /\ \E c \in Calls : /\ call' = [call EXCEPT ![w] = c] /\ c.pc = pc
                             /\ c.continues = call[w].continues /\ c.gen = call[w].gen
<1>1. PICK c \in Calls : c = [call[w] EXCEPT !.pc = pc]
  <2>1. call[w] \in Calls
    BY DEF Work
  <2> QED BY <2>1 DEF Calls
<1>2. call' = [call EXCEPT ![w] = c]
  BY <1>1 DEF Goto
<1>3. c.pc = pc /\ c.continues = call[w].continues /\ c.gen = call[w].gen
  <2>1. call[w] \in Calls
    BY DEF Work
  <2> QED BY <1>1, <2>1 DEF Calls
<1> QED BY <1>2, <1>3 DEF Work

LEMMA RequestGoesTo ==
  ASSUME Work, Requests, Places, NEW w \in Workflows, call[w].pc \notin Resting,
         NEW pc \in {"persisting", "asking", "waiting"}, Goto(w, pc), pc = "persisting" => call[w].continues,
         UNCHANGED sessionVars, history' = history, KeepsInside(Workflows \ {w})
  PROVE  Work' /\ Requests' /\ Places'
<1>1. PICK c \in Calls : /\ call' = [call EXCEPT ![w] = c] /\ c.pc = pc
                         /\ c.continues = call[w].continues /\ c.gen = call[w].gen
  BY Gone
<1>2. starts' = starts /\ UNCHANGED <<sessions, queue, issued>> /\ prompts' \in SUBSET (prompts \cup {w})
  BY DEF Goto, sessionVars
<1>3. /\ c.pc \notin Resting
      /\ c.pc \in {"checking", "persisting"} => c.continues
      /\ c.pc = "inside" => c.gen \in {0, entry'.gen}
      /\ c.pc \in {"answered", "prompted", "resolving"} => c.gen # 0
  BY <1>1 DEF Resting
<1> QED BY <1>1, <1>2, <1>3, RequestGoesOn

LEMMA EndOfIt ==
  ASSUME NEW w \in Workflows, RemoveIfLive(w) \/ UNCHANGED sessionVars
  PROVE  Leaves(w)
BY DEF RemoveIfLive, Leaves, sessionVars

LEMMA KeepsFewer ==
  ASSUME KeepsInside(Workflows), NEW w PROVE KeepsInside(Workflows \ {w})
BY DEF KeepsInside

-----------------------------------------------------------------------------
(* Requests.                                                               *)

LEMMA CheckKeeps ==
  ASSUME IInv, NEW w \in Workflows, Check(w)
  PROVE  IInv'
<1> USE DEF IInv
<1>1. call[w].pc \notin Resting /\ history' = history /\ call[w].pc # "inside" /\ call[w].continues
  BY DEF Check, Resting, Requests
<1>2. UNCHANGED <<closed, lock, control>>
  BY DEF Check
<1>3. CASE UNCHANGED <<entry, sessionVars, used>> /\ Return(w)
  <2>1. Surroundings' /\ Locks' /\ KeepsInside(Workflows \ {w})
    BY <1>1, <1>2, <1>3, Returned, AdapterIsKept
  <2> QED BY <1>1, <1>3, <2>1, EndOfIt, RequestIsOver
<1>4. ASSUME lock = NoOne, NEW r \in Ensured, entry' = r.entry,
             IF r.ok /\ r.entry.gen = call[w].gen
             THEN UNCHANGED sessionVars /\ Goto(w, "persisting")
             ELSE /\ IF r.ok THEN RemoveIfLive(w) ELSE UNCHANGED sessionVars
                  /\ Return(w)
      PROVE  IInv'
  <2>1. CASE UNCHANGED sessionVars /\ Goto(w, "persisting")
    <3>1. \A x \in Workflows : call'[x].pc # "inside"
      BY <1>4, <2>1, Gone, NobodyInside
    <3>2. Surroundings' /\ Locks' /\ KeepsInside(Workflows \ {w})
      BY <1>2, <1>4, <3>1, AdapterIsEnsured, KeepsFewer
    <3> QED BY <1>1, <2>1, <3>2, RequestGoesTo
  <2>2. CASE (RemoveIfLive(w) \/ UNCHANGED sessionVars) /\ Return(w)
    <3>1. \A x \in Workflows : call'[x].pc # "inside"
      BY <1>4, <2>2, Returned, NobodyInside
    <3>2. Surroundings' /\ Locks' /\ KeepsInside(Workflows \ {w})
      BY <1>2, <1>4, <3>1, AdapterIsEnsured, KeepsFewer
    <3> QED BY <1>1, <2>2, <3>2, EndOfIt, RequestIsOver
  <2> QED BY <1>4, <2>1, <2>2
<1> QED BY <1>3, <1>4 DEF Check

LEMMA PersistKeeps ==
  ASSUME IInv, NEW w \in Workflows, Persist(w)
  PROVE  IInv'
<1> USE DEF IInv
<1>1. /\ call[w].pc \notin Resting /\ call[w].pc # "inside"
      /\ UNCHANGED <<closed, entry, lock, control, history>> /\ UNCHANGED sessionVars
  BY DEF Persist, Resting
<1>2. CASE Goto(w, "asking")
  <2>1. Surroundings' /\ Locks' /\ KeepsInside(Workflows \ {w})
    BY <1>1, <1>2, Gone, AdapterIsKept
  <2> QED BY <1>1, <1>2, <2>1, RequestGoesTo
<1>3. CASE Return(w)
  <2>1. Surroundings' /\ Locks' /\ KeepsInside(Workflows \ {w})
    BY <1>1, <1>3, Returned, AdapterIsKept
  <2> QED BY <1>1, <1>3, <2>1, EndOfIt, RequestIsOver
<1> QED BY <1>2, <1>3 DEF Persist

LEMMA AskKeeps ==
  ASSUME IInv, NEW w \in Workflows, Ask(w)
  PROVE  IInv'
<1> USE DEF IInv
<1>1. /\ call[w].pc \notin Resting /\ call[w].pc # "inside"
      /\ UNCHANGED <<closed, entry, lock, control, history>> /\ UNCHANGED sessionVars
  BY DEF Ask, Resting
<1>2. CASE Goto(w, "waiting")
  <2>1. Surroundings' /\ Locks' /\ KeepsInside(Workflows \ {w})
    BY <1>1, <1>2, Gone, AdapterIsKept
  <2> QED BY <1>1, <1>2, <2>1, RequestGoesTo
<1>3. CASE Return(w)
  <2>1. Surroundings' /\ Locks' /\ KeepsInside(Workflows \ {w})
    BY <1>1, <1>3, Returned, AdapterIsKept
  <2> QED BY <1>1, <1>3, <2>1, EndOfIt, RequestIsOver
<1> QED BY <1>2, <1>3 DEF Ask

LEMMA ResolveKeeps ==
  ASSUME IInv, NEW w \in Workflows, Resolve(w)
  PROVE  IInv'
<1> USE DEF IInv
<1>1. /\ call[w].pc \notin Resting /\ call[w].pc # "inside" /\ RemoveIfLive(w) /\ Return(w)
      /\ UNCHANGED <<closed, entry, lock, control, history>>
  BY DEF Resolve, Resting
<1>2. Surroundings' /\ Locks' /\ KeepsInside(Workflows \ {w})
  BY <1>1, Returned, AdapterIsKept
<1> QED BY <1>1, <1>2, EndOfIt, RequestIsOver

LEMMA PublishKeeps ==
  ASSUME IInv, NEW w \in Workflows, Publish(w)
  PROVE  IInv'
<1> USE DEF IInv
<1>1. /\ call[w].pc \notin Resting /\ call[w].pc # "inside" /\ call[w].gen # 0 /\ Return(w)
      /\ UNCHANGED <<closed, entry, lock, control, history>>
  BY DEF Publish, Resting, Requests
<1>2. Leaves(w)
  BY <1>1 DEF Publish, Leaves, sessionVars
<1>3. Surroundings' /\ Locks' /\ KeepsInside(Workflows \ {w})
  BY <1>1, Returned, AdapterIsKept
<1> QED BY <1>1, <1>2, <1>3, RequestIsOver

LEMMA TakeKeeps ==
  ASSUME IInv, NEW w \in Workflows, Take(w)
  PROVE  IInv'
<1> USE DEF IInv
<1>1. call[w].pc \notin Resting /\ call[w].pc # "inside" /\ lock = NoOne /\ UNCHANGED <<closed, control, history>>
  BY DEF Take, Resting
<1>2. PICK r \in Ensured :
        /\ entry' = r.entry
        /\ IF r.ok /\ Expected(w, r.entry.gen)
           THEN /\ lock' = w
                /\ call' = [call EXCEPT ![w].pc = "inside", ![w].answer = "failed"]
                /\ UNCHANGED <<sessionVars, starts>>
           ELSE /\ UNCHANGED lock
                /\ IF r.ok THEN RemoveIfLive(w) ELSE UNCHANGED sessionVars
                /\ Return(w)
  BY DEF Take
<1>3. CASE r.ok /\ Expected(w, r.entry.gen)
  <2>1. /\ r.entry \in Entries /\ ~r.entry.disabled /\ closed = "open"
    BY <1>3, EnsuredFields DEF Surroundings, Entries
  <2>2. PICK c \in Calls : c = [call[w] EXCEPT !.pc = "inside", !.answer = "failed"]
    <3>1. call[w] \in Calls
      BY DEF Work
    <3> QED BY <3>1 DEF Calls, Answers
  <2>3. c.pc = "inside" /\ c.continues = call[w].continues /\ c.gen = call[w].gen
    <3>1. call[w] \in Calls
      BY DEF Work
    <3> QED BY <2>2, <3>1 DEF Calls
  <2>4. call' = [call EXCEPT ![w] = c]
    BY <1>2, <1>3, <2>2 DEF Work
  <2>5. c.gen \in {0, entry'.gen}
    BY <1>2, <1>3, <2>3 DEF Expected
  <2>6. \A x \in Workflows : call[x].pc # "inside"
    BY <1>1, NobodyInside
  <2>7. UNCHANGED <<sessions, queue, issued, starts>> /\ prompts' \in SUBSET (prompts \cup {w})
    BY <1>2, <1>3 DEF sessionVars
  <2>8. Work' /\ Requests' /\ Places'
    <3>1. KeepsInside(Workflows \ {w})
      BY <2>6 DEF KeepsInside
    <3>2. /\ c.pc \notin Resting
          /\ c.pc \in {"checking", "persisting"} => c.continues
          /\ c.pc \in {"answered", "prompted", "resolving"} => c.gen # 0
      BY <2>3 DEF Resting
    <3> QED BY <1>1, <2>3, <2>4, <2>5, <2>7, <3>1, <3>2, RequestGoesOn
  <2>9. Surroundings' /\ Locks'
    <3>1. lock' = w /\ entry' = r.entry /\ w \notin {NoOne, "control"}
      BY <1>2, <1>3
    <3>2. \A x \in Workflows : lock' = x <=> call'[x].pc = "inside"
      BY <2>3, <2>4, <2>6, <3>1 DEF Work
    <3> QED BY <1>1, <2>1, <3>1, <3>2 DEF Surroundings, Locks
  <2> QED BY <2>8, <2>9
<1>4. CASE ~(r.ok /\ Expected(w, r.entry.gen))
  <2>1. UNCHANGED lock /\ (RemoveIfLive(w) \/ UNCHANGED sessionVars) /\ Return(w)
    BY <1>2, <1>4
  <2>2. \A x \in Workflows : call'[x].pc # "inside"
    BY <1>1, <2>1, Returned, NobodyInside
  <2>3. Surroundings' /\ Locks' /\ KeepsInside(Workflows \ {w})
    BY <1>1, <1>2, <2>1, <2>2, AdapterIsEnsured, KeepsFewer
  <2> QED BY <1>1, <2>1, <2>3, EndOfIt, RequestIsOver
<1> QED BY <1>3, <1>4

LEMMA LostFields ==
  ASSUME Surroundings, NEW lost \in BOOLEAN, entry' = IF lost THEN Lost ELSE entry
  PROVE  /\ entry' \in Entries /\ entry'.gen = entry.gen /\ entry'.disabled = entry.disabled
         /\ entry.proc = "none" => entry'.proc = "none"
BY DEF Surroundings, Entries, Lost

LEMMA AnswerKeeps ==
  ASSUME IInv, NEW w \in Workflows, Answer(w)
  PROVE  IInv'
<1> USE DEF IInv
<1>1. /\ call[w].pc = "inside" /\ lock = w /\ lock' = NoOne /\ UNCHANGED <<closed, control, history>>
      /\ UNCHANGED sessionVars /\ w \notin {NoOne, "control", "visit"}
  BY DEF Answer, Locks
<1>2. PICK answer \in Answers, lost \in BOOLEAN :
        /\ entry' = IF lost THEN Lost ELSE entry
        /\ IF answer = "failed" THEN Return(w)
           ELSE /\ call' = [call EXCEPT ![w] = [@ EXCEPT !.pc = "answered", !.answer = answer, !.gen = entry.gen]]
                /\ UNCHANGED starts
  BY DEF Answer
<1>3. /\ entry' \in Entries /\ entry'.gen = entry.gen /\ entry'.disabled = entry.disabled
      /\ entry.proc = "none" => entry'.proc = "none"
  BY <1>2, LostFields
<1>4. \A x \in Workflows \ {w} : call[x].pc # "inside"
  BY <1>1 DEF Locks
<1>5. ASSUME \A x \in Workflows : call'[x].pc # "inside" PROVE Surroundings' /\ Locks'
  <2>1. \A x \in Workflows : lock' = x <=> call'[x].pc = "inside"
    BY <1>1, <1>5
  <2> QED BY <1>1, <1>3, <2>1 DEF Surroundings, Locks
<1>6. KeepsInside(Workflows \ {w})
  BY <1>3 DEF KeepsInside
<1>7. CASE answer = "failed"
  <2>1. \A x \in Workflows : call'[x].pc # "inside"
    BY <1>2, <1>4, <1>7, Returned
  <2>2. call[w].pc \notin Resting /\ Leaves(w)
    BY <1>1, EndOfIt DEF Resting
  <2> QED BY <1>1, <1>2, <1>5, <1>6, <1>7, <2>1, <2>2, RequestIsOver
<1>8. CASE answer # "failed"
  <2>1. call[w] \in Calls /\ entry.gen \in 1 .. MaxProcesses
    BY DEF Work, Surroundings, Entries
  <2>2. entry.gen \in 0 .. MaxProcesses /\ entry.gen # 0
    BY <2>1
  <2>3. PICK c \in Calls : c = [call[w] EXCEPT !.pc = "answered", !.answer = answer, !.gen = entry.gen]
    BY <2>1, <2>2 DEF Calls
  <2>4. c.pc = "answered" /\ c.continues = call[w].continues /\ c.gen = entry.gen
    BY <2>1, <2>3 DEF Calls
  <2>5. call' = [call EXCEPT ![w] = c]
    BY <1>2, <1>8, <2>3 DEF Work
  <2>6. entry.gen = call[w].gen \/ w \notin Live
    <3>1. ASSUME w \in Live PROVE call[w].gen # 0
      BY <1>1, <3>1 DEF Requests, Work
    <3> QED BY <1>1, <3>1 DEF Requests
  <2>7. Work' /\ Requests' /\ Places'
    <3>1. /\ c.pc \notin Resting /\ call[w].pc \notin Resting
          /\ c.pc \in {"checking", "persisting"} => c.continues
          /\ c.pc = "inside" => c.gen \in {0, entry'.gen}
          /\ c.pc \in {"answered", "prompted", "resolving"} => c.gen # 0
      BY <1>1, <2>2, <2>4 DEF Resting
    <3>2. UNCHANGED <<sessions, queue, issued, starts>> /\ prompts' \in SUBSET (prompts \cup {w})
      BY <1>1, <1>2, <1>8 DEF sessionVars
    <3>3. c.gen = call[w].gen \/ w \notin Live
      BY <2>4, <2>6
    <3> QED BY <1>1, <1>6, <2>4, <2>5, <3>1, <3>2, <3>3, RequestGoesOn
  <2>8. \A x \in Workflows : call'[x].pc # "inside"
    BY <1>4, <2>4, <2>5 DEF Work
  <2> QED BY <1>5, <2>7, <2>8
<1> QED BY <1>7, <1>8

LEMMA AdvanceKeeps ==
  ASSUME IInv, NEW w \in Workflows, Advance(w)
  PROVE  IInv'
<1> USE DEF IInv
<1>1. /\ call[w].pc \notin Resting /\ call[w].pc # "inside" /\ call[w].gen # 0
      /\ UNCHANGED <<closed, entry, lock, control, history>>
  BY DEF Advance, Resting, Requests
<1>2. ASSUME Leaves(w), Return(w) PROVE IInv'
  <2>1. Surroundings' /\ Locks' /\ KeepsInside(Workflows \ {w})
    BY <1>1, <1>2, Returned, AdapterIsKept
  <2> QED BY <1>1, <1>2, <2>1, RequestIsOver
<1>3. ASSUME NEW pc \in {"asking", "prompted", "resolving"},
             call' = [call EXCEPT ![w] = [@ EXCEPT !.steps = call[w].steps + 1, !.pc = pc]],
             UNCHANGED <<sessions, queue, issued, starts>>, prompts' \in SUBSET (prompts \cup {w})
      PROVE  IInv'
  <2>1. PICK c \in Calls : c = [call[w] EXCEPT !.steps = @ + 1, !.pc = pc]
    <3>1. call[w] \in Calls /\ call[w].steps + 1 \in Nat
      BY CallFields DEF Work
    <3> QED BY <3>1 DEF Calls
  <2>2. c.pc = pc /\ c.continues = call[w].continues /\ c.gen = call[w].gen
    <3>1. call[w] \in Calls
      BY DEF Work
    <3> QED BY <2>1, <3>1 DEF Calls
  <2>3. call' = [call EXCEPT ![w] = c]
    <3>1. call' = [call EXCEPT ![w] = [call[w] EXCEPT !.steps = call[w].steps + 1, !.pc = pc]]
      BY ONLY <1>3
    <3>2. c = [call[w] EXCEPT !.steps = call[w].steps + 1, !.pc = pc]
      BY ONLY <2>1
    <3> QED BY ONLY <3>1, <3>2
  <2>4. \A x \in Workflows : call'[x].pc = "inside" <=> call[x].pc = "inside"
    BY <1>1, <2>2, <2>3 DEF Work
  <2>5. Surroundings' /\ Locks' /\ KeepsInside(Workflows \ {w})
    BY <1>1, <2>4, AdapterIsKept
  <2>6. /\ c.pc \notin Resting
        /\ c.pc \in {"checking", "persisting"} => c.continues
        /\ c.pc = "inside" => c.gen \in {0, entry'.gen}
        /\ c.pc \in {"answered", "prompted", "resolving"} => c.gen # 0
    BY <1>1, <2>2 DEF Resting
  <2> QED BY <1>1, <1>3, <2>2, <2>3, <2>5, <2>6, RequestGoesOn
<1>4. CASE /\ IF w \in Live THEN Remove(w)
              ELSE IF call[w].continues THEN UNCHANGED sessionVars
              ELSE Record(w) /\ UNCHANGED <<sessions, prompts>>
           /\ Return(w)
  <2>1. Leaves(w)
    BY <1>1, <1>4 DEF Leaves, sessionVars, Requests
  <2> QED BY <1>2, <1>4, <2>1
<1>5. CASE UNCHANGED sessionVars /\ Return(w)
  BY <1>2, <1>5, EndOfIt
<1>6. ASSUME call' = [call EXCEPT ![w] = [@ EXCEPT !.steps = call[w].steps + 1,
               !.pc = CASE call[w].answer = "discovered" -> "asking"
                        [] call[w].answer = "challenge" -> "prompted"
                        [] OTHER -> "resolving"]],
             prompts' = IF call[w].answer = "challenge" THEN Prompted(w) ELSE prompts,
             UNCHANGED <<sessions, queue, issued, starts>>
      PROVE  IInv'
  <2>1. PICK pc \in {"asking", "prompted", "resolving"} :
          pc = CASE call[w].answer = "discovered" -> "asking"
                 [] call[w].answer = "challenge" -> "prompted"
                 [] OTHER -> "resolving"
    OBVIOUS
  <2>2. call' = [call EXCEPT ![w] = [@ EXCEPT !.steps = call[w].steps + 1, !.pc = pc]]
    BY <1>6, <2>1
  <2>3. prompts' \in SUBSET (prompts \cup {w})
    BY <1>6 DEF Prompted
  <2> QED BY <1>3, <1>6, <2>2, <2>3
<1> QED BY <1>4, <1>5, <1>6 DEF Advance

LEMMA BeginKeeps ==
  ASSUME IInv, NEW w \in Workflows, Begin(w)
  PROVE  IInv'
<1> USE DEF IInv
<1>1. /\ call[w].pc = "new" /\ ~call[w].continues /\ w \notin Live /\ w \notin starts /\ issued[w] = 0
      /\ UNCHANGED <<closed, entry, lock, sessionVars, history, control>>
  BY DEF Begin, Requests, Places, Resting
<1>2. UNCHANGED <<sessions, prompts, queue, issued>> /\ Live' = Live /\ Reported' = Reported
  BY <1>1 DEF sessionVars, Live, Reported
<1>3. ASSUME NEW pc \in {"over", "asking"}, call' = [call EXCEPT ![w].pc = pc]
      PROVE  /\ call' \in [Workflows -> Calls] /\ call'[w].pc = pc /\ ~call'[w].continues
             /\ \A x \in Workflows \ {w} : call'[x] = call[x]
             /\ Surroundings' /\ Locks' /\ KeepsInside(Workflows)
  <2>1. PICK c \in Calls : c = [call[w] EXCEPT !.pc = pc]
    <3>1. call[w] \in Calls
      BY DEF Work
    <3> QED BY <3>1 DEF Calls, Resting
  <2>2. c.pc = pc /\ c.continues = call[w].continues
    <3>1. call[w] \in Calls
      BY DEF Work
    <3> QED BY <2>1, <3>1 DEF Calls
  <2>3. call' = [call EXCEPT ![w] = c]
    BY <1>3, <2>1
  <2>4. call' \in [Workflows -> Calls] /\ call'[w] = c /\ \A x \in Workflows \ {w} : call'[x] = call[x]
    BY <2>3 DEF Work
  <2>5. Surroundings' /\ Locks' /\ KeepsInside(Workflows)
    BY <1>1, <2>2, <2>4, AdapterIsKept
  <2> QED BY <1>1, <2>2, <2>4, <2>5
<1>4. CASE call' = [call EXCEPT ![w].pc = "over"] /\ UNCHANGED starts
  <2>1. Work'
    BY <1>2, <1>3, <1>4 DEF Work
  <2>2. Requests'
    BY <1>1, <1>2, <1>3, <1>4 DEF Requests, Resting, KeepsInside
  <2>3. Places'
    BY <1>2, <1>3, <1>4 DEF Places
  <2> QED BY <1>3, <1>4, <2>1, <2>2, <2>3
<1>5. CASE ~Full /\ call' = [call EXCEPT ![w].pc = "asking"] /\ starts' = starts \cup {w}
  <2>1. Cardinality(starts') = Cardinality(starts) + 1 /\ IsFiniteSet(starts')
    BY <1>1, <1>5, Numbers
  <2>2. Work'
    BY <1>2, <1>3, <1>5, <2>1 DEF Work
  <2>3. Requests'
    BY <1>1, <1>2, <1>3, <1>5 DEF Requests, Resting, KeepsInside
  <2>4. Len(queue) + Cardinality(Live) + Cardinality(starts') <= MaxPending
    BY <1>5, <2>1, Numbers DEF Full
  <2>5. Places'
    BY <1>1, <1>2, <1>3, <1>5, <2>4 DEF Places
  <2> QED BY <1>3, <1>5, <2>2, <2>3, <2>5
<1> QED BY <1>4, <1>5 DEF Begin

LEMMA ContinueKeeps ==
  ASSUME IInv, NEW w \in Workflows, Continue(w)
  PROVE  IInv'
<1> USE DEF IInv
<1>1. /\ call[w].pc = "idle" /\ w \in Live /\ w \notin starts /\ starts' = starts
      /\ UNCHANGED <<closed, entry, lock, sessionVars, history, control>>
  BY DEF Continue, Requests, Resting
<1>2. UNCHANGED <<sessions, prompts, queue, issued>> /\ Live' = Live /\ Reported' = Reported
  BY <1>1 DEF sessionVars, Live, Reported
<1>3. sessions[w].gen \in 0 .. MaxProcesses /\ sessions[w].steps \in Nat
  BY <1>1 DEF Work
<1>4. PICK c \in Calls : c = [call[w] EXCEPT !.pc = "checking", !.continues = TRUE,
                                             !.gen = sessions[w].gen, !.steps = sessions[w].steps]
  <2>1. call[w] \in Calls
    BY DEF Work
  <2> QED BY <1>3, <2>1 DEF Calls
<1>5. c.pc = "checking" /\ c.continues /\ c.gen = sessions[w].gen
  <2>1. call[w] \in Calls
    BY DEF Work
  <2> QED BY <1>3, <1>4, <2>1 DEF Calls
<1>6. call' = [call EXCEPT ![w] = c]
  BY <1>4 DEF Continue, Work
<1>7. call' \in [Workflows -> Calls] /\ call'[w] = c /\ \A x \in Workflows \ {w} : call'[x] = call[x]
  BY <1>6 DEF Work
<1>8. Surroundings' /\ Locks' /\ KeepsInside(Workflows)
  BY <1>1, <1>5, <1>7, AdapterIsKept
<1>9. Work'
  BY <1>1, <1>2, <1>7 DEF Work
<1>10. Requests'
  BY <1>1, <1>2, <1>5, <1>7, <1>8 DEF Requests, Resting, KeepsInside
<1>11. Places'
  BY <1>1, <1>2, <1>5, <1>7 DEF Places
<1> QED BY <1>8, <1>9, <1>10, <1>11

-----------------------------------------------------------------------------
(* What happens to the workflows and to the adapter besides.               *)

\* A step that leaves the workflows and their requests alone.
LEMMA WorkflowsAreKept ==
  ASSUME IInv, UNCHANGED <<sessionVars, starts, call, history>>, Surroundings', Locks', KeepsInside(Workflows)
  PROVE  IInv'
<1> USE DEF IInv
<1>1. UNCHANGED <<sessions, prompts, queue, issued, starts, call, history>>
  BY DEF sessionVars
<1>2. Work' /\ Requests' /\ Places'
  BY <1>1, OthersEndIt DEF Work
<1> QED BY <1>2

LEMMA EndSessionKeeps ==
  ASSUME IInv, NEW w \in Workflows, EndSession(w)
  PROVE  IInv'
<1> USE DEF IInv
<1>1. w \in Live /\ Remove(w) /\ call' = Canceled({w}) /\ UNCHANGED <<closed, entry, lock, starts, history, control>>
  BY DEF EndSession
<1>2. /\ call' \in [Workflows -> Calls]
      /\ \A x \in Workflows : call'[x].pc = call[x].pc /\ call'[x].continues = call[x].continues
                              /\ call'[x].gen = call[x].gen
  BY <1>1, CanceledFields
<1>3. Surroundings' /\ Locks' /\ KeepsInside(Workflows)
  BY <1>1, <1>2, AdapterIsKept
<1>4. prompts' \in SUBSET prompts
  BY <1>1 DEF Remove
<1> QED BY <1>1, <1>2, <1>3, <1>4, OthersEndIt

LEMMA VisitKeeps ==
  ASSUME IInv, NEW kind, Visit(kind)
  PROVE  IInv'
<1> USE DEF IInv
<1>1. lock = NoOne /\ UNCHANGED <<closed, sessionVars, starts, call, history, control>>
  BY DEF Visit
<1>2. PICK r \in Ensured :
        entry' = r.entry /\ IF r.ok THEN lock' = "visit" ELSE UNCHANGED lock
  BY DEF Visit
<1>3. /\ r.ok \in BOOLEAN /\ r.entry \in Entries
      /\ closed # "open" \/ entry.disabled => ~r.ok /\ r.entry = entry
      /\ r.entry.disabled = entry.disabled
  BY EnsuredFields DEF Surroundings
<1>4. \A x \in Workflows : call'[x].pc # "inside"
  BY <1>1, NobodyInside
<1>5. CASE ~r.ok
  <2>1. Surroundings' /\ Locks' /\ KeepsInside(Workflows)
    BY <1>1, <1>2, <1>4, <1>5, AdapterIsEnsured
  <2> QED BY <1>1, <2>1, WorkflowsAreKept
<1>6. CASE r.ok
  <2>1. lock' = "visit" /\ "visit" \notin Workflows \cup {NoOne} /\ closed = "open" /\ ~entry'.disabled
    BY <1>2, <1>3, <1>6
  <2>2. KeepsInside(Workflows)
    BY <1>1, <1>4 DEF KeepsInside
  <2>3. Surroundings'
    BY <1>1, <1>2, <1>3, <2>1 DEF Surroundings
  <2>4. Locks'
    <3>1. control' = "idle"
      BY <1>1 DEF Locks
    <3> QED BY <1>1, <1>4, <2>1, <3>1 DEF Locks
  <2> QED BY <1>1, <2>2, <2>3, <2>4, WorkflowsAreKept
<1> QED BY <1>3, <1>5, <1>6

LEMMA VisitAnsweredKeeps ==
  ASSUME IInv, VisitAnswered
  PROVE  IInv'
<1> USE DEF IInv
<1>1. lock = "visit" /\ lock' = NoOne /\ UNCHANGED <<closed, sessionVars, starts, call, history, control>>
  BY DEF VisitAnswered
<1>2. PICK lost \in BOOLEAN : entry' = IF lost THEN Lost ELSE entry
  BY DEF VisitAnswered
<1>3. /\ entry' \in Entries /\ entry'.gen = entry.gen /\ entry'.disabled = entry.disabled
      /\ entry.proc = "none" => entry'.proc = "none"
  BY <1>2, LostFields
<1>4. \A x \in Workflows : call'[x].pc # "inside"
  BY <1>1, NobodyInside
<1>5. Surroundings' /\ Locks' /\ KeepsInside(Workflows)
  BY <1>1, <1>3, <1>4 DEF Surroundings, Locks, KeepsInside
<1> QED BY <1>1, <1>5, WorkflowsAreKept

LEMMA VisitAppliesKeeps ==
  ASSUME IInv, VisitApplies
  PROVE  IInv'
<1> USE DEF IInv
<1>1. UNCHANGED <<closed, entry, lock, sessionVars, starts, call, history, control>>
  BY DEF VisitApplies
<1>2. Surroundings' /\ Locks' /\ KeepsInside(Workflows)
  BY <1>1, AdapterIsKept
<1> QED BY <1>1, <1>2, WorkflowsAreKept

\* The process dies, is killed by the closer, or waits no more.
LEMMA ProcessKeeps ==
  ASSUME IInv, ProcessDies \/ BackoffEnds \/ ClosePatience
  PROVE  IInv'
<1> USE DEF IInv
<1>1. UNCHANGED <<closed, lock, sessionVars, starts, call, history, control>>
  BY DEF ProcessDies, BackoffEnds, ClosePatience
<1>2. \/ entry.proc = "up" /\ entry' = [entry EXCEPT !.proc = "dead"]
      \/ entry' = [entry EXCEPT !.backoff = FALSE]
  BY DEF ProcessDies, BackoffEnds, ClosePatience
<1>3. /\ entry' \in Entries /\ entry'.gen = entry.gen /\ entry'.disabled = entry.disabled
      /\ entry.proc = "none" => entry'.proc = "none"
  BY <1>2 DEF Surroundings, Entries
<1>4. Surroundings' /\ Locks' /\ KeepsInside(Workflows)
  BY <1>1, <1>3 DEF Surroundings, Locks, KeepsInside
<1> QED BY <1>1, <1>4, WorkflowsAreKept

LEMMA ManageKeeps ==
  ASSUME IInv, NEW op \in {"disable", "enable", "restart"}, Manage(op)
  PROVE  IInv'
<1> USE DEF IInv
<1>1. /\ lock = NoOne /\ closed = "open" /\ lock' = "control" /\ control' = op
      /\ entry' = [entry EXCEPT !.restarting = TRUE, !.proc = "none", !.disabled = @ \/ op = "disable"]
      /\ UNCHANGED <<closed, sessionVars, starts, call, history>>
  BY DEF Manage
<1>2. entry' \in Entries /\ entry'.gen = entry.gen /\ entry'.proc = "none"
  <2>1. (entry.disabled \/ op = "disable") \in BOOLEAN
    OBVIOUS
  <2> QED BY <1>1, <2>1 DEF Surroundings, Entries
<1>3. \A x \in Workflows : call'[x].pc # "inside"
  BY <1>1, NobodyInside
<1>4. Surroundings' /\ Locks' /\ KeepsInside(Workflows)
  BY <1>1, <1>2, <1>3 DEF Surroundings, Locks, KeepsInside
<1> QED BY <1>1, <1>4, WorkflowsAreKept

LEMMA AllAreEnded ==
  ASSUME Work, Requests, Places, RemoveAll, call' = Canceled(Live), starts' = starts, history' = history,
         KeepsInside(Workflows)
  PROVE  /\ Work' /\ Requests' /\ Places'
         /\ \A x \in Workflows : call'[x].pc = call[x].pc
<1>1. /\ call' \in [Workflows -> Calls]
      /\ \A x \in Workflows : call'[x].pc = call[x].pc /\ call'[x].continues = call[x].continues
                              /\ call'[x].gen = call[x].gen
  BY CanceledFields
<1>2. prompts' \in SUBSET prompts
  BY DEF RemoveAll
<1> QED BY <1>1, <1>2, OthersEndIt

LEMMA CancelAllKeeps ==
  ASSUME IInv, CancelAll
  PROVE  IInv'
<1> USE DEF IInv
<1>1. /\ control \in {"disable", "enable", "restart"} /\ RemoveAll /\ call' = Canceled(Live)
      /\ UNCHANGED <<closed, starts, history>> /\ lock = "control"
  BY DEF CancelAll, Locks
<1>2. \A x \in Workflows : call[x].pc # "inside"
  BY <1>1, NobodyInside
<1>3. KeepsInside(Workflows)
  BY <1>2 DEF KeepsInside
<1>4. Work' /\ Requests' /\ Places' /\ \A x \in Workflows : call'[x].pc # "inside"
  BY <1>1, <1>2, <1>3, AllAreEnded
<1>5. closed # "closed"
  BY <1>1 DEF Locks
<1>6. CASE control = "disable"
  <2>1. entry' = [entry EXCEPT !.restarting = FALSE] /\ lock' = NoOne /\ control' = "idle"
    BY <1>6 DEF CancelAll
  <2>2. entry' \in Entries /\ entry'.disabled = entry.disabled /\ entry'.proc = entry.proc
    BY <2>1 DEF Surroundings, Entries
  <2>3. Surroundings' /\ Locks'
    BY <1>1, <1>4, <1>5, <2>1, <2>2 DEF Surroundings, Locks
  <2> QED BY <1>4, <2>3
<1>7. CASE control # "disable"
  <2>1. /\ entry' = [entry EXCEPT !.restarting = FALSE, !.disabled = FALSE, !.backoff = FALSE]
        /\ UNCHANGED <<lock, control>>
    BY <1>7 DEF CancelAll
  <2>2. entry' \in Entries /\ ~entry'.disabled
    BY <2>1 DEF Surroundings, Entries
  <2>3. Surroundings' /\ Locks'
    BY <1>1, <1>4, <1>5, <2>1, <2>2 DEF Surroundings, Locks
  <2> QED BY <1>4, <2>3
<1> QED BY <1>6, <1>7

LEMMA StartAgainKeeps ==
  ASSUME IInv, StartAgain
  PROVE  IInv'
<1> USE DEF IInv
<1>1. /\ lock = "control" /\ lock' = NoOne /\ control' = "idle"
      /\ UNCHANGED <<closed, sessionVars, starts, call, history>>
  BY DEF StartAgain, Locks
<1>2. PICK r \in Ensured :
        entry' = IF ~r.ok /\ control = "enable" THEN [r.entry EXCEPT !.proc = "none", !.disabled = TRUE]
                 ELSE r.entry
  BY DEF StartAgain
<1>3. /\ r.ok \in BOOLEAN /\ r.entry \in Entries /\ r.entry.disabled = entry.disabled
      /\ closed # "open" \/ entry.disabled => ~r.ok /\ r.entry = entry
  BY EnsuredFields DEF Surroundings
<1>4. closed # "closed"
  BY <1>1 DEF Locks
<1>5. entry' \in Entries /\ (entry'.disabled => entry'.proc = "none")
  <2>1. CASE ~r.ok /\ control = "enable"
    BY <1>2, <1>3, <2>1 DEF Entries
  <2>2. CASE ~(~r.ok /\ control = "enable")
    BY <1>2, <1>3, <2>2 DEF Locks
  <2> QED BY <2>1, <2>2
<1>6. \A x \in Workflows : call'[x].pc # "inside"
  BY <1>1, NobodyInside
<1>7. Surroundings' /\ Locks' /\ KeepsInside(Workflows)
  BY <1>1, <1>4, <1>5, <1>6 DEF Surroundings, Locks, KeepsInside
<1> QED BY <1>1, <1>7, WorkflowsAreKept

LEMMA CloseKeeps ==
  ASSUME IInv, Close
  PROVE  IInv'
<1> USE DEF IInv
<1>1. /\ closed' = "closing" /\ RemoveAll /\ call' = Canceled(Live)
      /\ UNCHANGED <<entry, lock, starts, history, control>>
  BY DEF Close
<1>2. KeepsInside(Workflows)
  BY <1>1 DEF KeepsInside
<1>3. Work' /\ Requests' /\ Places' /\ \A x \in Workflows : call'[x].pc = call[x].pc
  BY <1>1, <1>2, AllAreEnded
<1>4. Surroundings' /\ Locks'
  BY <1>1, <1>3 DEF Surroundings, Locks
<1> QED BY <1>3, <1>4

LEMMA CloseEntryKeeps ==
  ASSUME IInv, CloseEntry
  PROVE  IInv'
<1> USE DEF IInv
<1>1. /\ lock = NoOne /\ entry' = [entry EXCEPT !.proc = "none"] /\ closed' = "closed"
      /\ UNCHANGED <<lock, sessionVars, starts, call, history, control>>
  BY DEF CloseEntry
<1>2. entry' \in Entries /\ entry'.gen = entry.gen /\ entry'.proc = "none"
  BY <1>1 DEF Surroundings, Entries
<1>3. Surroundings' /\ Locks' /\ KeepsInside(Workflows)
  BY <1>1, <1>2 DEF Surroundings, Locks, KeepsInside
<1> QED BY <1>1, <1>3, WorkflowsAreKept

LEMMA FlushKeeps ==
  ASSUME IInv, Flush
  PROVE  IInv'
<1> USE DEF IInv
<1>1. /\ queue # << >> /\ history' = history \cup {Head(queue)} /\ queue' = Tail(queue)
      /\ UNCHANGED <<closed, entry, lock, sessions, prompts, issued, starts, call, control>>
  BY DEF Flush
<1>2. queue \in Seq(Events)
  BY DEF Work
<1>3. /\ queue' \in Seq(Events) /\ Len(queue') = Len(queue) - 1 /\ Len(queue) \in Nat
      /\ DOMAIN queue = 1 .. Len(queue) /\ DOMAIN queue' = 1 .. Len(queue) - 1
      /\ Head(queue) = queue[1] /\ \A i \in DOMAIN queue' : queue'[i] = queue[i + 1]
  BY <1>1, <1>2
<1>4. Reported \subseteq Reported'
  <2>1. ASSUME NEW i \in DOMAIN queue PROVE queue[i] \in Reported'
    <3>1. CASE i = 1
      BY <1>1, <1>3, <3>1 DEF Reported
    <3>2. CASE i # 1
      <4>1. i - 1 \in DOMAIN queue' /\ queue'[i - 1] = queue[i]
        <5>1. i - 1 \in 1 .. Len(queue) - 1 /\ (i - 1) + 1 = i
          BY <1>3, <3>2
        <5> QED BY <1>3, <5>1
      <4> QED BY <4>1 DEF Reported
    <3> QED BY <3>1, <3>2
  <2>2. history \subseteq Reported'
    BY <1>1 DEF Reported
  <2> QED BY <2>1, <2>2 DEF Reported
<1>5. Live' = Live
  BY <1>1 DEF Live
<1>6. Surroundings' /\ Locks' /\ KeepsInside(Workflows)
  BY <1>1, AdapterIsKept
<1>7. Work'
  BY <1>1, <1>3, <1>5 DEF Work
<1>8. Requests'
  BY <1>1, <1>5 DEF Requests
<1>9. Places'
  <2>1. Len(queue') + Cardinality(Live') + Cardinality(starts') <= MaxPending
    BY <1>1, <1>3, <1>5, Numbers DEF Places
  <2> QED BY <1>1, <1>4, <1>5, <2>1 DEF Places
<1> QED BY <1>6, <1>7, <1>8, <1>9

-----------------------------------------------------------------------------
(* The theorems.                                                           *)

LEMMA InitIInv == Init => IInv
<1> SUFFICES ASSUME Init PROVE IInv
  OBVIOUS
<1>1. Live = {} /\ starts = {} /\ prompts = {}
  BY DEF Init, Live
<1>2. Cardinality(Live) = 0 /\ Cardinality(starts) = 0 /\ IsFiniteSet(Live) /\ IsFiniteSet(starts)
  BY <1>1, FS_EmptySet
<1>3. /\ entry.proc \in {"none", "up"} /\ entry.disabled \in BOOLEAN /\ entry.gen = 1
      /\ entry.disabled => entry.proc = "none"
  BY DEF Init
<1>4. entry \in Entries
  <2>1. 1 \in 1 .. MaxProcesses
    OBVIOUS
  <2> QED BY <2>1 DEF Init, Entries
<1>5. Surroundings
  BY <1>4 DEF Init, Surroundings
<1>6. call \in [Workflows -> Calls] /\ \A w \in Workflows : call[w].pc = "new" /\ ~call[w].continues
  <2>1. [pc |-> "new", continues |-> FALSE, gen |-> 0, steps |-> 0, canceled |-> FALSE, answer |-> "failed"] \in Calls
    <3>1. 0 \in 0 .. MaxProcesses
      OBVIOUS
    <3> QED BY <3>1 DEF Calls, Answers, Resting
  <2> QED BY <2>1 DEF Init
<1>7. /\ queue \in Seq(Events) /\ Len(queue) = 1 /\ DOMAIN queue = {1} /\ queue[1] = [w |-> Earlier, n |-> 1]
  <2>1. [w |-> Earlier, n |-> 1] \in Events
    BY DEF Events, Names
  <2> QED BY <2>1 DEF Init
<1>8. /\ issued \in [Names -> {0, 1}] /\ \A w \in Workflows : issued[w] = 0
  BY DEF Init, Names
<1>9. Work
  BY <1>1, <1>2, <1>6, <1>7, <1>8 DEF Work
<1>10. Locks
  BY <1>3, <1>6 DEF Init, Locks
<1>11. Requests
  BY <1>1, <1>6 DEF Requests, Resting
<1>12. Places
  <2>1. [w |-> Earlier, n |-> 1] \in Reported
    BY <1>7 DEF Reported
  <2> QED BY <1>1, <1>2, <1>7, <1>8, <2>1 DEF Places, Names
<1> QED BY <1>5, <1>9, <1>10, <1>11, <1>12 DEF IInv

LEMMA StepKeepsIInv == IInv /\ [Next]_vars => IInv'
<1> SUFFICES ASSUME IInv, [Next]_vars PROVE IInv'
  OBVIOUS
<1>1. ASSUME NEW w \in Workflows,
             Begin(w) \/ Continue(w) \/ Step(w) \/ CancelWorkflow(w) \/ Expire(w)
      PROVE  IInv'
  BY <1>1, BeginKeeps, ContinueKeeps, CheckKeeps, PersistKeeps, AskKeeps, TakeKeeps, AnswerKeeps, AdvanceKeeps,
     ResolveKeeps, PublishKeeps, EndSessionKeeps DEF Step, CancelWorkflow, Expire
<1>2. CASE ProcessDies \/ BackoffEnds \/ ClosePatience
  BY <1>2, ProcessKeeps
<1>3. CASE \E op \in {"disable", "enable", "restart"} : Manage(op)
  BY <1>3, ManageKeeps
<1>4. CASE CancelAll
  BY <1>4, CancelAllKeeps
<1>5. CASE StartAgain
  BY <1>5, StartAgainKeeps
<1>6. CASE Close
  BY <1>6, CloseKeeps
<1>7. CASE CloseEntry
  BY <1>7, CloseEntryKeeps
<1>8. CASE BrowseResources \/ WatchCheck \/ Prepare
  BY <1>8, VisitKeeps DEF BrowseResources, WatchCheck, Prepare
<1>9. CASE VisitAnswered
  BY <1>9, VisitAnsweredKeeps
<1>10. CASE VisitApplies
  BY <1>10, VisitAppliesKeeps
<1>11. CASE Flush
  BY <1>11, FlushKeeps
<1>12. CASE Rest \/ UNCHANGED vars
  <2>1. UNCHANGED <<closed, entry, lock, sessionVars, starts, call, history, control>>
    BY <1>12 DEF Rest, vars
  <2>2. Surroundings' /\ Locks' /\ KeepsInside(Workflows)
    BY <2>1, AdapterIsKept DEF IInv
  <2> QED BY <2>1, <2>2, WorkflowsAreKept
<1> QED BY <1>1, <1>2, <1>3, <1>4, <1>5, <1>6, <1>7, <1>8, <1>9, <1>10, <1>11, <1>12 DEF Next

LEMMA Inductive == Spec => []IInv
BY InitIInv, StepKeepsIInv, PTL DEF Spec

\* The adapter process that is asked to continue a workflow is the one that
\* began it (callGeneration), for any number of workflows, restarts and faults.
THEOREM ProcessIsKept == Spec => []ContinuationsKeepTheirProcess
<1>1. IInv => ContinuationsKeepTheirProcess
  <2> SUFFICES ASSUME IInv, NEW w \in Live, lock = w
               PROVE  call[w].continues /\ entry.gen = sessions[w].gen
    BY DEF ContinuationsKeepTheirProcess
  <2>1. w \in Workflows /\ sessions[w].gen \in 1 .. MaxProcesses
    BY DEF IInv, Work
  <2>2. call[w].pc = "inside"
    BY <2>1 DEF IInv, Locks
  <2>3. call[w].continues /\ call[w].gen = sessions[w].gen /\ call[w].gen \in {0, entry.gen}
    BY <2>1, <2>2 DEF IInv, Requests
  <2> QED BY <2>1, <2>3
<1> QED BY <1>1, Inductive, PTL

\* However cancellation, expiry, resolution and restarts meet, no workflow ends
\* twice, and no terminal event is dropped by the queue before it is persisted
\* (reserveWorkflow keeps its place).
THEOREM EndingsReported == Spec => []EndingsAreReportedOnce
<1>1. IInv => EndingsAreReportedOnce
  <2> SUFFICES ASSUME IInv, NEW w \in DOMAIN issued
               PROVE  /\ issued[w] <= (IF w \in Live THEN 0 ELSE 1)
                      /\ issued[w] = 1 => [w |-> w, n |-> 1] \in Reported
    BY DEF EndingsAreReportedOnce
  <2>1. w \in Names /\ issued[w] \in {0, 1}
    BY DEF IInv, Work
  <2> QED BY <2>1 DEF IInv, Places
<1> QED BY <1>1, Inductive, PTL

\* No process of a disabled adapter or of a closed Host runs once the operation
\* that disabled or closed it is over (setEnabled, Close).
THEOREM UnwantedNeverRun == Spec => []NothingRunsUnwanted
<1>1. IInv => NothingRunsUnwanted
  BY DEF IInv, Locks, NothingRunsUnwanted
<1> QED BY <1>1, Inductive, PTL
=============================================================================
