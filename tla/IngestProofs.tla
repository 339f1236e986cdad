---------------------------- MODULE IngestProofs ----------------------------
(***************************************************************************)
(* Theorems about Ingest for any number of Engines, Recordings and         *)
(* payloads, any budgets and any number of lost calls.                     *)
(***************************************************************************)
EXTENDS Ingest, TLAPS, WellFoundedInduction

-----------------------------------------------------------------------------
(* How large an array is.                                                  *)

\* A set of naturals has a least element, and Min names it.
LEMMA MinOfNaturals ==
  ASSUME NEW S \in SUBSET Nat, S # {}
  PROVE  Min(S) \in S /\ \A y \in S : Min(S) <= y
<1> DEFINE R == {ss \in Nat \X Nat : ss[1] < ss[2]}
<1>1. IsWellFoundedOn(R, Nat)
  BY NatLessThanWellFounded DEF OpToRel
<1> HIDE DEF R
<1>2. PICK x \in S : \A y \in S : ~ (<<y, x>> \in R)
  BY <1>1, WFMin
<1>3. \A y \in S : x <= y
  <2> SUFFICES ASSUME NEW y \in S, y < x PROVE FALSE
    OBVIOUS
  <2>1. <<y, x>> \in R
    BY DEF R
  <2> QED BY <2>1, <1>2
<1> QED BY <1>3 DEF Min

\* The larger of two numbers.
LEMMA MaxOfTwo ==
  ASSUME NEW m \in Int, NEW n \in Int
  PROVE  Max({m, n}) \in {m, n} /\ m <= Max({m, n}) /\ n <= Max({m, n})
<1>1. \E x \in {m, n} : \A y \in {m, n} : x >= y
  <2>1. CASE m <= n BY <2>1
  <2>2. CASE n <= m BY <2>2
  <2> QED BY <2>1, <2>2
<1> QED BY <1>1 DEF Max

\* allocationCapacity stays within the largest payload.
LEMMA CapacityIsBounded ==
  ASSUME NEW n \in Nat, NEW m \in Nat
  PROVE  AllocationCapacity(n, m) \in 0 .. m
<1> DEFINE S == {m} \cup {c \in n .. m : \E k \in 0 .. m : c = 2 ^ k}
<1>1. CASE n = 0
  BY <1>1 DEF AllocationCapacity
<1>2. CASE n > 0
  <2>1. S \in SUBSET Nat /\ S # {}
    OBVIOUS
  <2>2. Min(S) \in S
    BY <2>1, MinOfNaturals
  <2>3. AllocationCapacity(n, m) = Min(S)
    BY <1>2 DEF AllocationCapacity
  <2> QED BY <2>2, <2>3
<1> QED BY <1>1, <1>2

\* The limits are numbers.
LEMMA LimitsAreNumbers == MaxPayloadBytes \in Nat
BY IngestAssumption DEF IngestAssumption

-----------------------------------------------------------------------------
(* The inductive invariant.                                                *)

PayloadRecord ==
  [at : Phases, len : Nat, cap : 0 .. MaxPayloadBytes, old : 0 .. MaxPayloadBytes,
   next : 0 .. MaxPayloadBytes, reserved : Nat, remote : Nat, want : Nat, growing : BOOLEAN]
EngineRecord ==
  [state : {"open", "closed", "done", "dead", "reclaimed"}, overflowing : BOOLEAN,
   slots : Int, jobs : Seq(Payloads), failed : SUBSET Recordings]

Types ==
  /\ home \in [Payloads -> Engines] /\ rec \in [Payloads -> Recordings]
  /\ pay \in [Payloads -> PayloadRecord] /\ eng \in [Engines -> EngineRecord]
  /\ hold \in [Payloads -> Nat] /\ queue \subseteq Payloads /\ writers \subseteq Payloads
  /\ orphans \subseteq [call : Waiting, of : Payloads, bytes : Nat]

\* What a payload x of which the Host holds h bytes may do next is covered:
\* the arrays by what the Engine counts, that by what the Host holds and by
\* what the client asks for, and the arrays of a growth under way as well.
Account(x, h) ==
  /\ x.cap + x.old <= x.reserved /\ x.reserved <= h
  /\ x.reserved + (IF x.at = "grant" THEN x.want ELSE 0) <= x.remote
  /\ x.old # 0 => x.at = "shrink"
  /\ x.at = "new" => x.next = 0
  /\ x.at \in {"reserve", "grant"} => x.next + x.cap <= x.reserved + x.want
  /\ x.at = "copy" => x.next + x.cap <= x.reserved
  /\ x.at = "dead" => x.reserved = 0
Accounted == \A p \in Payloads : Account(pay[p], hold[p])

\* The permit of the Host has one holder, and who persists holds it.
Permits ==
  /\ \A p \in Payloads : At(p, "persist") => p \in writers
  /\ \A p, q \in writers : p = q

\* The payloads of a dead Engine are dead, and so are those a dead Engine
\* still waits for.
Buried ==
  /\ \A p \in Payloads : ~Alive(home[p]) => At(p, "dead")
  /\ \A o \in orphans : At(o.of, "dead")

\* An Engine queues payloads of its own, each once, and a queued one waits.
Queues ==
  \A e \in Engines : LET jobs == eng[e].jobs IN
    /\ \A i \in 1 .. Len(jobs) : home[jobs[i]] = e /\ At(jobs[i], "queued")
    /\ \A i, j \in 1 .. Len(jobs) : jobs[i] = jobs[j] => i = j

IInv == Types /\ Accounted /\ Permits /\ Buried /\ Queues

-----------------------------------------------------------------------------
(* Steps.                                                                  *)

\* A step of one payload x that lives keeps the invariant when x is accounted
\* for and nobody else's leases change.
LEMMA PayloadStep ==
  ASSUME IInv, UNCHANGED <<assignment, orphans>>,
         NEW p \in Payloads, pay[p].at # "dead",
         NEW x \in PayloadRecord, x.at # "dead", pay' = [pay EXCEPT ![p] = x],
         hold' \in [Payloads -> Nat], \A q \in Payloads : q # p => hold'[q] = hold[q],
         Account(x, hold'[p]),
         queue' \subseteq Payloads, writers' \subseteq Payloads,
         x.at = "persist" => p \in writers',
         \A q \in writers : q # p => q \in writers',
         \A q, r \in writers' : q = r,
         eng' \in [Engines -> EngineRecord],
         \A e \in Engines : eng'[e].state = eng[e].state,
         Queues'
  PROVE  IInv'
<1> USE DEF IInv
<1>1. Types'
  BY DEF Types, assignment
<1>2. Accounted'
  BY DEF Accounted, Types
<1>3. Permits'
  BY DEF Permits, Types, At
<1>4. Buried'
  BY DEF Buried, Types, At, Alive, assignment
<1> QED BY <1>1, <1>2, <1>3, <1>4

\* Who is not queued may step while the queues stay.
LEMMA QueuesKept ==
  ASSUME IInv, UNCHANGED assignment,
         NEW p \in Payloads, pay[p].at # "queued", NEW x, pay' = [pay EXCEPT ![p] = x],
         \A f \in Engines : eng'[f].jobs = eng[f].jobs
  PROVE  Queues'
<1> SUFFICES ASSUME NEW f \in Engines
             PROVE  LET jobs == eng[f].jobs IN
                    /\ \A i \in 1 .. Len(jobs) : home[jobs[i]] = f /\ pay'[jobs[i]].at = "queued"
                    /\ \A i, j \in 1 .. Len(jobs) : jobs[i] = jobs[j] => i = j
  BY DEF Queues, At, assignment
<1>1. \A i \in 1 .. Len(eng[f].jobs) : eng[f].jobs[i] \in Payloads
  BY DEF IInv, Types, EngineRecord
<1> QED BY <1>1 DEF IInv, Types, Queues, At

\* A change of one Engine that keeps its state and its queue.
LEMMA EngineStep ==
  ASSUME IInv, UNCHANGED assignment,
         NEW p \in Payloads, pay[p].at # "queued", NEW x, pay' = [pay EXCEPT ![p] = x],
         NEW e \in Engines, NEW y \in EngineRecord,
         eng' = [eng EXCEPT ![e] = y], y.state = eng[e].state, y.jobs = eng[e].jobs
  PROVE  /\ eng' \in [Engines -> EngineRecord]
         /\ \A f \in Engines : eng'[f].state = eng[f].state
         /\ Queues'
<1>1. /\ eng' \in [Engines -> EngineRecord]
      /\ \A f \in Engines : eng'[f].state = eng[f].state /\ eng'[f].jobs = eng[f].jobs
  BY DEF IInv, Types
<1> QED BY <1>1, QueuesKept


\* The releases of a payload's leases touch no other payload's.
LEMMA Releases ==
  ASSUME IInv, NEW p \in Payloads, NEW what, ReleaseLeases(p, what)
  PROVE  /\ hold' \in [Payloads -> Nat] /\ \A q \in Payloads : q # p => hold'[q] = hold[q]
         /\ queue' \subseteq Payloads /\ writers' \subseteq writers
         /\ \A q \in writers : q # p => q \in writers'
BY DEF IInv, Types, ReleaseLeases

\* A payload that is over needs nothing, and one that is dead nothing either.
LEMMA EndIsAccounted ==
  ASSUME NEW h \in Nat, NEW end \in {"over", "dead"}
  PROVE  LET x == [Fresh EXCEPT !.at = end]
         IN  x \in PayloadRecord /\ Account(x, h) /\ x.at = end
<1> DEFINE x == [Fresh EXCEPT !.at = end]
<1>0. Fresh \in PayloadRecord
  BY LimitsAreNumbers DEF Fresh, PayloadRecord, Phases
<1>1. /\ x.at = end /\ x.cap = 0 /\ x.old = 0 /\ x.next = 0
      /\ x.reserved = 0 /\ x.remote = 0 /\ x.want = 0
  BY DEF Fresh
<1>2. x \in PayloadRecord
  BY <1>0 DEF PayloadRecord, Phases
<1> HIDE DEF x
<1>3. Account(x, h)
  BY <1>1 DEF Account
<1> QED BY <1>1, <1>2, <1>3 DEF x

\* A step that changes p alone, and of p no more than what the arrays need.
LEMMA LocalStep ==
  ASSUME IInv, UNCHANGED <<assignment, orphans, host, eng>>,
         NEW p \in Payloads, pay[p].at \notin {"dead", "queued"},
         NEW x \in PayloadRecord, x.at \notin {"dead", "persist"}, pay' = [pay EXCEPT ![p] = x],
         Account(x, hold[p])
  PROVE  IInv'
<1>1. eng' \in [Engines -> EngineRecord] /\ Queues'
  BY QueuesKept DEF IInv, Types
<1>2. \A q, r \in writers' : q = r
  BY DEF IInv, Permits, host
<1> QED BY PayloadStep, <1>1, <1>2 DEF host, IInv, Types

LEMMA ReadingSteps ==
  ASSUME IInv, UNCHANGED assignment, NEW p \in Payloads,
         \/ \E hint \in 0 .. MaxPayloadBytes : BeginRead(p, hint)
         \/ Reserve(p) \/ ReserveClosed(p) \/ ReadFails(p) \/ ReadChunk(p) \/ Copy(p)
         \/ Discard(p)
  PROVE  IInv'
<1> DEFINE x == pay[p] h == hold[p]
<1>0. x \in PayloadRecord /\ Account(x, h) /\ h \in Nat /\ p \in DOMAIN pay
  BY DEF IInv, Types, Accounted
<1>a. ASSUME pay[p].at \in {"reserve", "reading", "read"}
      PROVE  /\ [x EXCEPT !.at = "unread", !.want = 0] \in PayloadRecord
             /\ Account([x EXCEPT !.at = "unread", !.want = 0], h)
  BY <1>0, <1>a, LimitsAreNumbers DEF PayloadRecord, Account, Phases, Reading
<1>b. ASSUME pay[p].at \in {"reserve", "reading", "read"}, Abandon(p),
             UNCHANGED <<orphans, host, eng>>
      PROVE  IInv'
  <2>1. pay' = [pay EXCEPT ![p] = [x EXCEPT !.at = "unread", !.want = 0]]
    BY <1>b DEF Abandon
  <2>2. [x EXCEPT !.at = "unread", !.want = 0].at = "unread"
    BY <1>0 DEF PayloadRecord
  <2> QED BY <1>a, <1>b, <2>1, <2>2, LocalStep
<1>1. ASSUME NEW hint \in 0 .. MaxPayloadBytes, BeginRead(p, hint)
      PROVE  IInv'
  <2> DEFINE reserve == AllocationCapacity(hint, MaxPayloadBytes)
             y == [x EXCEPT !.at = IF reserve = 0 THEN "reading" ELSE "reserve", !.want = reserve]
  <2>1. reserve \in Nat
    BY LimitsAreNumbers, CapacityIsBounded
  <2>2. x.at = "new" /\ pay' = [pay EXCEPT ![p] = y] /\ UNCHANGED <<eng, host, orphans>>
    BY <1>1 DEF BeginRead, At
  <2> HIDE DEF reserve
  <2>3. y \in PayloadRecord /\ y.at \in {"reading", "reserve"}
    BY <1>0, <2>1, <2>2 DEF PayloadRecord, Phases, Reading
  <2>4. /\ y.want = reserve /\ y.remote = x.remote /\ y.reserved = x.reserved
        /\ y.cap = x.cap /\ y.old = x.old /\ y.next = x.next
    BY <1>0 DEF PayloadRecord
  <2> HIDE DEF y
  <2>5. Account(y, h)
    BY <1>0, <2>1, <2>2, <2>3, <2>4 DEF PayloadRecord, Account
  <2> QED BY <2>2, <2>3, <2>5, LocalStep
<1>2. CASE Reserve(p)
  <2> DEFINE y == [x EXCEPT !.at = "grant", !.remote = x.remote + x.want]
  <2>1. x.at = "reserve" /\ pay' = [pay EXCEPT ![p] = y] /\ UNCHANGED <<eng, host, orphans>>
    BY <1>2 DEF Reserve, At
  <2>2. y \in PayloadRecord /\ y.at = "grant"
    <3>1. x.remote + x.want \in Nat
      BY <1>0 DEF PayloadRecord
    <3> QED BY <1>0, <3>1 DEF PayloadRecord, Phases, Reading
  <2>3. /\ y.want = x.want /\ y.remote = x.remote + x.want /\ y.reserved = x.reserved
        /\ y.cap = x.cap /\ y.old = x.old /\ y.next = x.next
    BY <1>0 DEF PayloadRecord
  <2> HIDE DEF y
  <2>4. Account(y, h)
    BY <1>0, <2>1, <2>2, <2>3 DEF PayloadRecord, Account
  <2> QED BY <2>1, <2>2, <2>4, LocalStep
<1>3. CASE ReserveClosed(p) \/ ReadFails(p) \/ Discard(p)
  BY <1>3, <1>b DEF ReserveClosed, ReadFails, Discard, At
<1>4. CASE ReadChunk(p)
  <2> DEFINE y == [x EXCEPT !.len = x.len + 1]
  <2>1. x.at = "reading" /\ pay' = [pay EXCEPT ![p] = y] /\ UNCHANGED <<eng, host, orphans>>
    BY <1>4 DEF ReadChunk, At
  <2>2. y \in PayloadRecord /\ Account(y, h) /\ y.at = "reading"
    BY <1>0, <2>1 DEF PayloadRecord, Account, Phases, Reading
  <2> QED BY <2>1, <2>2, LocalStep
<1>5. CASE Copy(p)
  <2> DEFINE y == [x EXCEPT !.at = "shrink", !.old = x.cap, !.cap = x.next]
  <2>1. x.at = "copy" /\ pay' = [pay EXCEPT ![p] = y] /\ UNCHANGED <<eng, host, orphans>>
    BY <1>5 DEF Copy, At
  <2>2. y \in PayloadRecord /\ Account(y, h) /\ y.at = "shrink"
    BY <1>0, <2>1, LimitsAreNumbers DEF PayloadRecord, Account, Phases, Reading
  <2> QED BY <2>1, <2>2, LocalStep
<1> QED BY <1>1, <1>2, <1>3, <1>4, <1>5

LEMMA GrowStep ==
  ASSUME IInv, UNCHANGED assignment, NEW p \in Payloads, Grow(p)
  PROVE  IInv'
<1> DEFINE x == pay[p]
           e == home[p]
           next == AllocationCapacity(x.len + 1, MaxPayloadBytes)
           more == IF x.cap = 0 THEN Max({0, next - x.reserved}) ELSE next
           needsLease == more > 0 /\ x.reserved > 0
           y == [x EXCEPT !.at = IF more = 0 THEN "copy" ELSE "reserve",
                          !.want = more, !.next = next, !.growing = needsLease]
           z == [x EXCEPT !.at = "unread", !.want = 0]
<1>0. /\ x \in PayloadRecord /\ Account(x, hold[p]) /\ hold \in [Payloads -> Nat]
      /\ x.at = "reading" /\ p \in DOMAIN pay /\ e \in Engines /\ eng[e] \in EngineRecord
  BY DEF IInv, Types, Accounted, Grow, At
<1>d. \/ pay' = [pay EXCEPT ![p] = z] /\ eng' = eng
      \/ /\ pay' = [pay EXCEPT ![p] = y]
         /\ eng' = [eng EXCEPT ![e].overflowing = @ \/ needsLease]
  <2>1. CASE needsLease /\ (eng[e].overflowing \/ eng[e].state # "open")
    BY <2>1 DEF Grow, Abandon
  <2>2. CASE ~(needsLease /\ (eng[e].overflowing \/ eng[e].state # "open"))
    BY <2>2 DEF Grow
  <2> QED BY <2>1, <2>2
<1>1. next \in 0 .. MaxPayloadBytes
  <2>1. x.len + 1 \in Nat
    BY <1>0 DEF PayloadRecord
  <2> QED BY <2>1, LimitsAreNumbers, CapacityIsBounded
<1> HIDE DEF next
<1>2. more \in Nat /\ next + x.cap <= x.reserved + more
  <2>1. next - x.reserved \in Int /\ x.cap \in Nat /\ x.reserved \in Nat /\ next \in Nat
    BY <1>0, <1>1, LimitsAreNumbers DEF PayloadRecord
  <2>2. CASE x.cap = 0
    <3> DEFINE d == next - x.reserved
    <3>1. d \in Int /\ next = d + x.reserved
      BY <2>1
    <3> HIDE DEF d
    <3>2. Max({0, d}) \in {0, d} /\ 0 <= Max({0, d}) /\ d <= Max({0, d})
      BY <3>1, MaxOfTwo
    <3>3. more = Max({0, d})
      BY <2>2 DEF d
    <3> QED BY <2>1, <2>2, <3>1, <3>2, <3>3
  <2>3. CASE x.cap # 0
    BY <2>1, <2>3, <1>0 DEF Account
  <2> QED BY <2>2, <2>3
<1>3. host' = host /\ orphans' = orphans
  BY DEF Grow
<1>4. CASE pay' = [pay EXCEPT ![p] = z] /\ eng' = eng
  <2>1. z \in PayloadRecord /\ z.at = "unread"
    BY <1>0 DEF PayloadRecord, Phases, Reading
  <2>2. z.remote = x.remote /\ z.reserved = x.reserved /\ z.cap = x.cap /\ z.old = x.old
    BY <1>0 DEF PayloadRecord
  <2> HIDE DEF z
  <2>3. Account(z, hold[p])
    BY <1>0, <2>1, <2>2 DEF PayloadRecord, Account
  <2> QED BY <1>0, <1>3, <1>4, <2>1, <2>3, LocalStep
<1>5. CASE /\ pay' = [pay EXCEPT ![p] = y]
           /\ eng' = [eng EXCEPT ![e].overflowing = @ \/ needsLease]
  <2> HIDE DEF more
  <2>1. y \in PayloadRecord /\ y.at \in {"copy", "reserve"} /\ (y.at = "copy" => more = 0)
    BY <1>0, <1>1, <1>2 DEF PayloadRecord, Phases, Reading
  <2>2. /\ y.want = more /\ y.remote = x.remote /\ y.reserved = x.reserved
        /\ y.cap = x.cap /\ y.old = x.old /\ y.next = next
    BY <1>0 DEF PayloadRecord
  <2> HIDE DEF y
  <2>3. Account(y, hold[p])
    BY <1>0, <1>1, <1>2, <2>1, <2>2 DEF PayloadRecord, Account
  <2> DEFINE f == [eng[e] EXCEPT !.overflowing = @ \/ needsLease]
  <2>4. eng' = [eng EXCEPT ![e] = f]
    BY <1>5
  <2>5. f \in EngineRecord /\ f.state = eng[e].state /\ f.jobs = eng[e].jobs
    BY <1>0 DEF EngineRecord
  <2> HIDE DEF f
  <2>6. /\ eng' \in [Engines -> EngineRecord]
        /\ \A g \in Engines : eng'[g].state = eng[g].state
        /\ Queues'
    BY <1>0, <1>5, <2>4, <2>5, EngineStep
  <2>7. \A q, r \in writers' : q = r
    BY <1>3 DEF IInv, Permits, host
  <2> QED BY <1>0, <1>3, <1>5, <2>1, <2>3, <2>6, <2>7, PayloadStep DEF host, IInv, Types
<1> QED BY <1>d, <1>4, <1>5

\* The excess goes back to the Host, or is still there.
LEMMA ShrinkStep ==
  ASSUME IInv, UNCHANGED assignment, NEW p \in Payloads, Shrink(p) \/ EndRead(p)
  PROVE  IInv'
<1> DEFINE x == pay[p]
           e == home[p]
           excess == x.reserved - x.cap
           desired == x.remote - excess
           lower == IF desired > 0 THEN desired ELSE 0
           y == IF Shrink(p)
                THEN [x EXCEPT !.at = "reading", !.len = @ + 1, !.old = 0, !.reserved = x.cap,
                               !.next = 0, !.growing = FALSE]
                ELSE [x EXCEPT !.at = "read", !.reserved = x.cap]
           z == [y EXCEPT !.remote = lower]
<1>0. /\ x \in PayloadRecord /\ Account(x, hold[p]) /\ hold \in [Payloads -> Nat]
      /\ x.at \in {"shrink", "reading"} /\ p \in DOMAIN pay
      /\ e \in Engines /\ eng[e] \in EngineRecord
      /\ (x.at = "shrink") = Shrink(p)
  BY DEF IInv, Types, Accounted, Shrink, EndRead, At
<1>1. ShrinkHost(p, excess, y) /\ orphans' = orphans /\ queue' = queue /\ writers' = writers
  BY <1>0 DEF Shrink, EndRead, ShrinkHost
<1>2. /\ y \in PayloadRecord /\ y.at \in {"reading", "read"} /\ y.reserved = x.cap
      /\ y.cap = x.cap /\ y.old = 0 /\ y.remote = x.remote
  <2>0. x.len + 1 \in Nat /\ x.cap \in Nat /\ 0 \in 0 .. MaxPayloadBytes
    BY <1>0, LimitsAreNumbers DEF PayloadRecord
  <2>1. CASE Shrink(p)
    <3> DEFINE s == [x EXCEPT !.at = "reading", !.len = @ + 1, !.old = 0, !.reserved = x.cap,
                              !.next = 0, !.growing = FALSE]
    <3>1. s \in PayloadRecord
      BY <1>0, <2>0 DEF PayloadRecord, Phases, Reading
    <3>2. /\ s.at = "reading" /\ s.reserved = x.cap /\ s.cap = x.cap /\ s.old = 0
          /\ s.remote = x.remote
      BY <1>0 DEF PayloadRecord
    <3>3. y = s
      BY <2>1
    <3> QED BY <3>1, <3>2, <3>3
  <2>2. CASE ~Shrink(p)
    <3> DEFINE s == [x EXCEPT !.at = "read", !.reserved = x.cap]
    <3>1. s \in PayloadRecord
      BY <1>0, <2>0 DEF PayloadRecord, Phases
    <3>2. /\ s.at = "read" /\ s.reserved = x.cap /\ s.cap = x.cap /\ s.old = x.old
          /\ s.remote = x.remote
      BY <1>0 DEF PayloadRecord
    <3>3. x.old = 0
      BY <1>0, <2>2 DEF Account
    <3>4. y = s
      BY <2>2
    <3> QED BY <3>1, <3>2, <3>3, <3>4
  <2> QED BY <2>1, <2>2
<1> HIDE DEF y
<1>3. /\ excess \in Nat /\ lower \in Nat /\ x.cap <= lower /\ x.cap <= hold[p]
      /\ x.cap <= x.remote
  BY <1>0 DEF PayloadRecord, Account
<1> HIDE DEF lower, excess
<1>4. /\ z \in PayloadRecord /\ z.at \in {"reading", "read"} /\ z.reserved = x.cap
      /\ z.cap = x.cap /\ z.old = 0 /\ z.remote = lower
  BY <1>2, <1>3 DEF PayloadRecord
<1> HIDE DEF z
<1>5. PICK w \in {y, z} : /\ pay' = [pay EXCEPT ![p] = w]
                          /\ hold' \in {hold, [hold EXCEPT ![p] = lower]}
                          /\ w = y => TRUE
  BY <1>1 DEF ShrinkHost, lower, z
<1>6. /\ hold' \in [Payloads -> Nat] /\ x.cap <= hold'[p]
      /\ \A q \in Payloads : q # p => hold'[q] = hold[q]
  BY <1>0, <1>3, <1>5
<1>7. w \in PayloadRecord /\ w.at \in {"reading", "read"} /\ Account(w, hold'[p])
  BY <1>2, <1>3, <1>4, <1>5, <1>6 DEF PayloadRecord, Account
<1>8. /\ eng' \in [Engines -> EngineRecord]
      /\ \A f \in Engines : eng'[f].state = eng[f].state
      /\ Queues'
  <2> DEFINE f == [eng[e] EXCEPT !.overflowing = FALSE]
  <2>1. eng' \in {eng, [eng EXCEPT ![e] = f]}
    BY DEF Shrink, EndRead
  <2>2. f \in EngineRecord /\ f.state = eng[e].state /\ f.jobs = eng[e].jobs
    BY <1>0 DEF EngineRecord
  <2> HIDE DEF f
  <2>3. eng = [eng EXCEPT ![e] = eng[e]]
    BY DEF IInv, Types
  <2> QED BY <1>0, <1>5, <2>1, <2>2, <2>3, EngineStep
<1>9. \A q, r \in writers' : q = r
  BY <1>1 DEF IInv, Permits
<1> QED BY <1>0, <1>1, <1>5, <1>6, <1>7, <1>8, <1>9, PayloadStep DEF IInv, Types

\* IngestPayload.Release with the leases in what, some of which are lost.
LEMMA ReleaseStep ==
  ASSUME IInv, UNCHANGED <<assignment, orphans>>, NEW p \in Payloads, pay[p].at \notin {"dead", "queued"},
         NEW what, ReleaseLeases(p, what), ReleasePayload(p),
         NEW y \in EngineRecord, eng' \in {eng, [eng EXCEPT ![home[p]] = y]},
         y.state = eng[home[p]].state, y.jobs = eng[home[p]].jobs
  PROVE  IInv'
<1> DEFINE x == [Fresh EXCEPT !.at = "over"]
<1>1. /\ hold' \in [Payloads -> Nat] /\ \A q \in Payloads : q # p => hold'[q] = hold[q]
      /\ queue' \subseteq Payloads /\ writers' \subseteq writers
      /\ \A q \in writers : q # p => q \in writers'
  BY Releases
<1>2. x \in PayloadRecord /\ x.at = "over" /\ Account(x, hold'[p])
  BY <1>1, EndIsAccounted
<1>3. pay' = [pay EXCEPT ![p] = x]
  BY DEF ReleasePayload
<1> HIDE DEF x
<1>4. /\ eng' \in [Engines -> EngineRecord]
      /\ \A f \in Engines : eng'[f].state = eng[f].state
      /\ Queues'
  <2>1. home[p] \in Engines /\ eng[home[p]] \in EngineRecord
    BY DEF IInv, Types
  <2>2. eng = [eng EXCEPT ![home[p]] = eng[home[p]]]
    BY DEF IInv, Types
  <2> QED BY <1>3, <2>1, <2>2, EngineStep
<1>5. /\ writers' \subseteq Payloads /\ \A q, r \in writers' : q = r
  BY <1>1 DEF IInv, Permits, Types
<1> QED BY <1>1, <1>2, <1>3, <1>4, <1>5, PayloadStep

LEMMA ReleaseSteps ==
  ASSUME IInv, UNCHANGED assignment, NEW p \in Payloads,
         \/ Unread(p) \/ Unqueued(p) \/ Refused(p) \/ Unwritten(p)
         \/ \E result \in {"canonical", "failed"} : Persisted(p, result)
  PROVE  IInv'
<1> DEFINE e == home[p]
<1>0. e \in Engines /\ eng[e] \in EngineRecord /\ rec[p] \in Recordings
  BY DEF IInv, Types
<1>1. CASE Unread(p)
  <2> DEFINE y == [eng[e] EXCEPT !.overflowing = FALSE]
  <2>1. y \in EngineRecord /\ y.state = eng[e].state /\ y.jobs = eng[e].jobs
    BY <1>0 DEF EngineRecord
  <2>2. eng' \in {eng, [eng EXCEPT ![e] = y]} /\ orphans' = orphans /\ pay[p].at \notin {"dead", "queued"}
    BY <1>1 DEF Unread, At
  <2> HIDE DEF y
  <2> QED BY <1>1, <2>1, <2>2, ReleaseStep DEF Unread
<1>2. CASE Unqueued(p)
  <2> DEFINE y == [eng[e] EXCEPT !.slots = @ - 1]
  <2>1. y \in EngineRecord /\ y.state = eng[e].state /\ y.jobs = eng[e].jobs
    BY <1>0 DEF EngineRecord
  <2>2. eng' \in {eng, [eng EXCEPT ![e] = y]} /\ orphans' = orphans /\ pay[p].at \notin {"dead", "queued"}
    BY <1>2 DEF Unqueued, At
  <2> HIDE DEF y
  <2> QED BY <1>2, <2>1, <2>2, ReleaseStep DEF Unqueued
<1>3. ASSUME NEW what, NEW result, Complete(p, what, result), pay[p].at \notin {"dead", "queued"}
      PROVE  IInv'
  <2> DEFINE y == [eng[e] EXCEPT !.failed = @ \cup {rec[p]}]
  <2>1. y \in EngineRecord /\ y.state = eng[e].state /\ y.jobs = eng[e].jobs
    BY <1>0 DEF EngineRecord
  <2>2. eng' \in {eng, [eng EXCEPT ![e] = y]} /\ orphans' = orphans
    BY <1>3 DEF Complete
  <2> HIDE DEF y
  <2> QED BY <1>3, <2>1, <2>2, ReleaseStep DEF Complete
<1>4. CASE Refused(p) \/ Unwritten(p)
  BY <1>3, <1>4 DEF Refused, Unwritten, At
<1>5. CASE \E result \in {"canonical", "failed"} : Persisted(p, result)
  BY <1>3, <1>5 DEF Persisted, At
<1> QED BY <1>1, <1>2, <1>4, <1>5

\* A step of p to a phase in which nothing more is needed than before.
LEMMA PhaseChange ==
  ASSUME NEW x \in PayloadRecord, NEW h \in Nat, Account(x, h),
         x.at \notin {"shrink", "dead"},
         NEW to \in Phases \ {"new", "shrink", "reserve", "grant", "copy", "dead"}
  PROVE  LET y == [x EXCEPT !.at = to]
         IN  y \in PayloadRecord /\ y.at = to /\ Account(y, h)
<1> DEFINE y == [x EXCEPT !.at = to]
<1>1. /\ y \in PayloadRecord /\ y.at = to /\ y.cap = x.cap /\ y.old = x.old
      /\ y.reserved = x.reserved /\ y.remote = x.remote
  BY DEF PayloadRecord
<1>2. /\ x.cap + x.old <= x.reserved /\ x.reserved <= h /\ x.reserved <= x.remote /\ x.old = 0
      /\ x.cap \in Nat /\ x.reserved \in Nat /\ x.remote \in Nat
  BY LimitsAreNumbers DEF Account, PayloadRecord
<1> HIDE DEF y
<1>3. Account(y, h)
  BY <1>1, <1>2 DEF Account
<1> QED BY <1>1, <1>3 DEF y

\* The phases in which a call of a payload failed.
LEMMA FailedPhases ==
  \A call \in Waiting :
    Failed[call] \in Phases \ {"new", "shrink", "reserve", "grant", "copy", "dead", "persist"}
BY DEF Waiting, Failed, Phases, Reading, Submitting, Writing

LEMMA SubmittingSteps ==
  ASSUME IInv, UNCHANGED assignment, NEW p \in Payloads,
         Submit(p) \/ TakeSlot(p) \/ Queued(p) \/ Deadline(p)
  PROVE  IInv'
<1> DEFINE x == pay[p] h == hold[p] e == home[p]
<1>0. /\ x \in PayloadRecord /\ Account(x, h) /\ h \in Nat /\ p \in DOMAIN pay
      /\ hold \in [Payloads -> Nat] /\ e \in Engines /\ eng[e] \in EngineRecord
      /\ x.at \notin {"shrink", "dead", "queued"}
  BY DEF IInv, Types, Accounted, Submit, TakeSlot, Queued, Deadline, IsWaiting, Waiting, At
<1>a. ASSUME NEW to \in Phases \ {"new", "shrink", "reserve", "grant", "copy", "dead", "persist"},
             Goto(p, to)
      PROVE  \E y \in PayloadRecord : /\ pay' = [pay EXCEPT ![p] = y] /\ y.at = to
                                      /\ Account(y, h)
  <2> DEFINE y == [x EXCEPT !.at = to]
  <2>1. y \in PayloadRecord /\ y.at = to /\ Account(y, h)
    BY <1>0, PhaseChange
  <2>2. pay' = [pay EXCEPT ![p] = y]
    BY <1>a DEF Goto
  <2> QED BY <2>1, <2>2
<1>b. \A q, r \in writers : q = r
  BY DEF IInv, Permits
<1>1. CASE Submit(p)
  <2>1. CASE Goto(p, "slot")
    <3>1. "slot" \in Phases \ {"new", "shrink", "reserve", "grant", "copy", "dead", "persist"}
      BY DEF Phases, Submitting
    <3> QED BY <1>0, <1>1, <1>a, <2>1, <3>1, LocalStep DEF Submit
  <2>2. CASE Abandon(p)
    <3> DEFINE y == [x EXCEPT !.at = "unread", !.want = 0]
    <3>1. y \in PayloadRecord /\ y.at = "unread"
      BY <1>0 DEF PayloadRecord, Phases, Reading
    <3>2. y.remote = x.remote /\ y.reserved = x.reserved /\ y.cap = x.cap /\ y.old = x.old
      BY <1>0 DEF PayloadRecord
    <3>3. pay' = [pay EXCEPT ![p] = y]
      BY <2>2 DEF Abandon
    <3> HIDE DEF y
    <3>4. Account(y, h)
      BY <1>0, <3>1, <3>2 DEF PayloadRecord, Account
    <3> QED BY <1>0, <1>1, <3>1, <3>3, <3>4, LocalStep DEF Submit
  <2> QED BY <1>1, <2>1, <2>2 DEF Submit
<1>2. CASE TakeSlot(p)
  <2> DEFINE f == [eng[e] EXCEPT !.slots = @ + 1]
  <2>1. f \in EngineRecord /\ f.state = eng[e].state /\ f.jobs = eng[e].jobs
    <3>1. eng[e].slots + 1 \in Int
      BY <1>0 DEF EngineRecord
    <3> QED BY <1>0, <3>1 DEF EngineRecord
  <2>2. eng' = [eng EXCEPT ![e] = f] /\ Goto(p, "lease") /\ UNCHANGED <<host, orphans>>
    BY <1>2 DEF TakeSlot
  <2> HIDE DEF f
  <2>3. /\ eng' \in [Engines -> EngineRecord]
        /\ \A g \in Engines : eng'[g].state = eng[g].state
        /\ Queues'
    BY <1>0, <2>1, <2>2, EngineStep DEF Goto
  <2>4. "lease" \in Phases \ {"new", "shrink", "reserve", "grant", "copy", "dead", "persist"}
    BY DEF Phases, Submitting
  <2>5. PICK y \in PayloadRecord : pay' = [pay EXCEPT ![p] = y] /\ y.at = "lease" /\ Account(y, h)
    BY <1>a, <2>2, <2>4
  <2> QED BY <1>0, <1>b, <2>2, <2>3, <2>5, PayloadStep DEF host, IInv, Types
<1>3. CASE Queued(p)
  <2> DEFINE f == [eng[e] EXCEPT !.jobs = Append(@, p)]
  <2>1. f \in EngineRecord /\ f.state = eng[e].state /\ f.jobs = Append(eng[e].jobs, p)
    <3>1. Append(eng[e].jobs, p) \in Seq(Payloads)
      BY <1>0 DEF EngineRecord
    <3> QED BY <1>0, <3>1 DEF EngineRecord
  <2>2. /\ eng' = [eng EXCEPT ![e] = f] /\ Goto(p, "queued") /\ UNCHANGED orphans
        /\ hold' = hold /\ writers' = writers /\ queue' = queue \cup {p}
    BY <1>3 DEF Queued, Apply
  <2> HIDE DEF f
  <2>3. /\ eng' \in [Engines -> EngineRecord]
        /\ \A g \in Engines : eng'[g].state = eng[g].state
    BY <1>0, <2>1, <2>2 DEF IInv, Types
  <2>4. Queues'
    <3>1. /\ eng'[e].jobs = Append(eng[e].jobs, p)
          /\ \A g \in Engines : g # e => eng'[g].jobs = eng[g].jobs
      BY <1>0, <2>1, <2>2 DEF IInv, Types
    <3>2. /\ pay'[p].at = "queued"
          /\ \A q \in Payloads : q # p => pay'[q] = pay[q]
      BY <1>0, <2>2 DEF Goto, IInv, Types, PayloadRecord
    <3>3. \A g \in Engines : /\ eng[g].jobs \in Seq(Payloads)
                             /\ \A i \in 1 .. Len(eng[g].jobs) : eng[g].jobs[i] # p
      BY <1>0 DEF IInv, Types, EngineRecord, Queues, At
    <3> SUFFICES ASSUME NEW g \in Engines
                 PROVE  LET jobs == eng'[g].jobs IN
                        /\ \A i \in 1 .. Len(jobs) : home[jobs[i]] = g /\ pay'[jobs[i]].at = "queued"
                        /\ \A i, j \in 1 .. Len(jobs) : jobs[i] = jobs[j] => i = j
      BY DEF Queues, At, assignment
    <3> DEFINE old == eng[g].jobs
    <3>4. /\ \A i \in 1 .. Len(old) : home[old[i]] = g /\ pay'[old[i]].at = "queued"
          /\ \A i, j \in 1 .. Len(old) : old[i] = old[j] => i = j
      BY <3>2, <3>3 DEF IInv, Queues, At
    <3>5. CASE g # e
      BY <3>1, <3>4, <3>5
    <3>6. CASE g = e
      <4>1. eng'[g].jobs = Append(old, p) /\ old \in Seq(Payloads) /\ home[p] = g
        BY <3>1, <3>3, <3>6
      <4>2. \A i \in 1 .. Len(old) : old[i] # p
        BY <3>3
      <4> HIDE DEF old
      <4> QED BY <3>2, <3>4, <4>1, <4>2
    <3> QED BY <3>5, <3>6
  <2>5. "queued" \in Phases \ {"new", "shrink", "reserve", "grant", "copy", "dead", "persist"}
    BY DEF Phases
  <2>6. PICK y \in PayloadRecord : pay' = [pay EXCEPT ![p] = y] /\ y.at = "queued" /\ Account(y, h)
    BY <1>a, <2>2, <2>5
  <2> QED BY <1>0, <1>b, <2>2, <2>3, <2>4, <2>6, PayloadStep DEF IInv, Types
<1>4. CASE Deadline(p)
  <2>1. Failed[x.at] \in Phases \ {"new", "shrink", "reserve", "grant", "copy", "dead", "persist"}
    BY <1>4, FailedPhases DEF Deadline, IsWaiting
  <2> QED BY <1>0, <1>4, <1>a, <2>1, LocalStep DEF Deadline
<1> QED BY <1>1, <1>2, <1>3, <1>4

\* The Host admits a call of p and applies it.
LEMMA Applied ==
  ASSUME IInv, NEW p \in Payloads, NEW call \in Waiting, NEW n \in Nat,
         Admits(call, p, n), Apply(call, p, n)
  PROVE  /\ hold' \in [Payloads -> Nat] /\ \A q \in Payloads : q # p => hold'[q] = hold[q]
         /\ hold'[p] = IF call = "grant" THEN n ELSE hold[p]
         /\ queue' \subseteq Payloads /\ writers' \subseteq Payloads
         /\ writers \subseteq writers' /\ \A q, r \in writers' : q = r
<1>1. call = "permit" => writers \subseteq {p}
  BY DEF IInv, Permits, Admits, AcquireWriterAdmits
<1> QED BY <1>1 DEF IInv, Types, Permits, Apply

LEMMA GrantedStep ==
  ASSUME IInv, UNCHANGED assignment, NEW p \in Payloads, Granted(p)
  PROVE  IInv'
<1> DEFINE x == pay[p]
           y == [x EXCEPT !.at = IF x.next > 0 THEN "copy" ELSE "reading",
                          !.reserved = @ + x.want, !.want = 0]
<1>0. /\ x \in PayloadRecord /\ Account(x, hold[p]) /\ x.at = "grant"
      /\ p \in DOMAIN pay /\ pay' = [pay EXCEPT ![p] = y] /\ UNCHANGED <<eng, orphans>>
  BY DEF IInv, Types, Accounted, Granted, At
<1>n. x.reserved + x.want \in Nat /\ x.remote \in Nat
  BY <1>0 DEF PayloadRecord
<1>1. /\ hold' \in [Payloads -> Nat] /\ \A q \in Payloads : q # p => hold'[q] = hold[q]
      /\ hold'[p] = x.remote
      /\ queue' \subseteq Payloads /\ writers' \subseteq Payloads
      /\ writers \subseteq writers' /\ \A q, r \in writers' : q = r
  <2>1. "grant" \in Waiting /\ Admits("grant", p, x.remote)
    BY DEF Waiting, Admits, Granted
  <2> QED BY <1>0, <1>n, <2>1, Applied DEF Granted
<1>2. y \in PayloadRecord /\ y.at \in {"copy", "reading"} /\ (y.at = "copy" => x.next > 0)
  BY <1>0, <1>n DEF PayloadRecord, Phases, Reading
<1>3. /\ y.reserved = x.reserved + x.want /\ y.want = 0 /\ y.remote = x.remote
      /\ y.cap = x.cap /\ y.old = x.old /\ y.next = x.next
  BY <1>0 DEF PayloadRecord
<1> HIDE DEF y
<1>4. Account(y, hold'[p])
  BY <1>0, <1>n, <1>1, <1>2, <1>3, LimitsAreNumbers DEF PayloadRecord, Account
<1>5. eng' \in [Engines -> EngineRecord] /\ Queues'
  BY <1>0, QueuesKept DEF IInv, Types
<1> QED BY <1>0, <1>1, <1>2, <1>4, <1>5, PayloadStep

LEMMA PermittedStep ==
  ASSUME IInv, UNCHANGED assignment, NEW p \in Payloads, Permitted(p)
  PROVE  IInv'
<1> DEFINE x == pay[p] y == [x EXCEPT !.at = "persist"]
<1>0. /\ x \in PayloadRecord /\ Account(x, hold[p]) /\ hold \in [Payloads -> Nat]
      /\ x.at = "permit" /\ pay' = [pay EXCEPT ![p] = y] /\ UNCHANGED <<eng, orphans, hold>>
      /\ writers' = writers \cup {p} /\ queue' \subseteq Payloads
  BY DEF IInv, Types, Accounted, Permitted, Goto, At
<1>1. y \in PayloadRecord /\ y.at = "persist" /\ Account(y, hold[p])
  BY <1>0, PhaseChange DEF Phases, Writing
<1> HIDE DEF y
<1>2. writers' \subseteq Payloads /\ \A q, r \in writers' : q = r
  BY <1>0 DEF IInv, Types, Permits, Permitted, AcquireWriterAdmits
<1>3. eng' \in [Engines -> EngineRecord] /\ Queues'
  BY <1>0, QueuesKept DEF IInv, Types
<1> QED BY <1>0, <1>1, <1>2, <1>3, PayloadStep

LEMMA CallLostStep ==
  ASSUME IInv, UNCHANGED assignment, NEW p \in Payloads, CallLost(p)
  PROVE  IInv'
<1> DEFINE x == pay[p] y == [x EXCEPT !.at = Failed[x.at]]
<1>0. /\ x \in PayloadRecord /\ Account(x, hold[p]) /\ hold \in [Payloads -> Nat]
      /\ x.at \in Waiting /\ pay' = [pay EXCEPT ![p] = y] /\ UNCHANGED <<eng, orphans>>
      /\ x.remote \in Nat
  BY DEF IInv, Types, Accounted, CallLost, Goto, IsWaiting, PayloadRecord
<1>1. /\ hold' \in [Payloads -> Nat] /\ \A q \in Payloads : q # p => hold'[q] = hold[q]
      /\ hold'[p] \in {hold[p], x.remote}
      /\ queue' \subseteq Payloads /\ writers' \subseteq Payloads
      /\ writers \subseteq writers' /\ \A q, r \in writers' : q = r
  <2>1. CASE UNCHANGED host
    BY <1>0, <2>1 DEF host, IInv, Types, Permits
  <2>2. CASE Admits(x.at, p, x.remote) /\ Apply(x.at, p, x.remote)
    BY <1>0, <2>2, Applied
  <2> QED BY <2>1, <2>2 DEF CallLost
<1>2. Account(x, hold'[p])
  <2>1. x.reserved <= x.remote
    BY <1>0 DEF Account, PayloadRecord
  <2>2. x.reserved <= hold'[p]
    BY <1>0, <1>1, <2>1 DEF Account
  <2> QED BY <1>0, <2>2 DEF Account
<1>3. y \in PayloadRecord /\ y.at \notin {"dead", "persist"} /\ Account(y, hold'[p])
  <2>1. x.at \notin {"shrink", "dead"}
    BY <1>0 DEF Waiting
  <2> QED BY <1>0, <1>1, <1>2, <2>1, PhaseChange, FailedPhases
<1> HIDE DEF y
<1>4. eng' \in [Engines -> EngineRecord] /\ Queues'
  BY <1>0, QueuesKept DEF IInv, Types, Waiting
<1>5. x.at \notin {"dead", "queued"}
  BY <1>0 DEF Waiting
<1> QED BY <1>0, <1>1, <1>3, <1>4, <1>5, PayloadStep

LEMMA PayloadSteps ==
  ASSUME IInv, UNCHANGED assignment, NEW p \in Payloads,
         \/ \E hint \in 0 .. MaxPayloadBytes : BeginRead(p, hint)
         \/ At(p, "new") /\ Submit(p)
         \/ ReadFails(p) \/ CallLost(p) \/ Step(p)
  PROVE  IInv'
BY ReadingSteps, GrowStep, ShrinkStep, ReleaseSteps, SubmittingSteps, GrantedStep, PermittedStep,
   CallLostStep DEF Step

LEMMA DequeueStep ==
  ASSUME IInv, UNCHANGED assignment, NEW e \in Engines, Dequeue(e)
  PROVE  IInv'
<1> DEFINE jobs == eng[e].jobs
           p == Head(jobs)
           f == [eng[e] EXCEPT !.jobs = Tail(@), !.slots = @ - 1]
           to == IF rec[p] \in eng[e].failed THEN "refused" ELSE "permit"
           x == [pay[p] EXCEPT !.at = to]
<1>0. /\ jobs \in Seq(Payloads) /\ jobs # <<>> /\ eng[e] \in EngineRecord
      /\ hold \in [Payloads -> Nat]
  BY DEF IInv, Types, EngineRecord, Dequeue
<1>1. p = jobs[1] /\ 1 \in 1 .. Len(jobs) /\ p \in Payloads
  BY <1>0
<1>2. home[p] = e /\ pay[p].at = "queued" /\ pay[p] \in PayloadRecord /\ Account(pay[p], hold[p])
  BY <1>1 DEF IInv, Types, Accounted, Queues, At
<1>3. /\ eng' = [eng EXCEPT ![e] = f] /\ pay' = [pay EXCEPT ![p] = x]
      /\ UNCHANGED <<host, orphans>>
  BY DEF Dequeue, Goto
<1>4. x \in PayloadRecord /\ x.at \in {"refused", "permit"} /\ Account(x, hold[p])
  <2>1. to \in Phases \ {"new", "shrink", "reserve", "grant", "copy", "dead"}
    BY DEF Phases, Writing
  <2>2. to \in {"refused", "permit"}
    OBVIOUS
  <2>3. hold[p] \in Nat /\ pay[p].at \notin {"shrink", "dead"}
    BY <1>0, <1>1, <1>2
  <2> HIDE DEF to, p
  <2>4. x \in PayloadRecord /\ x.at = to /\ Account(x, hold[p])
    BY <1>2, <2>1, <2>3, PhaseChange
  <2> QED BY <2>2, <2>4
<1>5. f \in EngineRecord /\ f.state = eng[e].state /\ f.jobs = Tail(jobs)
  <2>1. Tail(jobs) \in Seq(Payloads) /\ eng[e].slots - 1 \in Int
    BY <1>0 DEF EngineRecord
  <2> QED BY <1>0, <2>1 DEF EngineRecord
<1> HIDE DEF x, f
<1>6. /\ eng' \in [Engines -> EngineRecord]
      /\ \A g \in Engines : eng'[g].state = eng[g].state
  BY <1>3, <1>5 DEF IInv, Types
<1>7. Queues'
  <2>1. /\ eng'[e].jobs = Tail(jobs)
        /\ \A g \in Engines : g # e => eng'[g].jobs = eng[g].jobs
    BY <1>3, <1>5 DEF IInv, Types
  <2>2. \A q \in Payloads : q # p => pay'[q] = pay[q]
    BY <1>3 DEF IInv, Types
  <2> SUFFICES ASSUME NEW g \in Engines
               PROVE  LET new == eng'[g].jobs IN
                      /\ \A i \in 1 .. Len(new) : home[new[i]] = g /\ pay'[new[i]].at = "queued"
                      /\ \A i, j \in 1 .. Len(new) : new[i] = new[j] => i = j
    BY DEF Queues, At, assignment
  <2> DEFINE old == eng[g].jobs
  <2>3. /\ old \in Seq(Payloads)
        /\ \A i \in 1 .. Len(old) : home[old[i]] = g /\ pay[old[i]].at = "queued"
        /\ \A i, j \in 1 .. Len(old) : old[i] = old[j] => i = j
    BY DEF IInv, Types, EngineRecord, Queues, At
  <2>4. \A i \in 1 .. Len(old) : old[i] \in Payloads
    BY <2>3
  <2>5. CASE g # e
    <3>1. \A i \in 1 .. Len(old) : old[i] # p
      BY <1>2, <2>3, <2>5
    <3> QED BY <2>1, <2>2, <2>3, <2>4, <2>5, <3>1
  <2>6. CASE g = e
    <3>1. /\ eng'[g].jobs = Tail(old) /\ old # <<>> /\ p = old[1]
      BY <1>0, <1>1, <2>1, <2>6
    <3> HIDE DEF old, p
    <3>2. /\ Len(Tail(old)) = Len(old) - 1 /\ Len(old) \in Nat
          /\ \A i \in 1 .. Len(Tail(old)) : Tail(old)[i] = old[i + 1] /\ i + 1 \in 1 .. Len(old)
      BY <2>3, <3>1
    <3>3. \A i \in 1 .. Len(Tail(old)) : old[i + 1] # p
      BY <2>3, <3>1, <3>2
    <3> QED BY <2>2, <2>3, <2>4, <3>1, <3>2, <3>3
  <2> QED BY <2>5, <2>6
<1>8. \A q, r \in writers : q = r
  BY DEF IInv, Permits
<1> QED BY <1>0, <1>1, <1>2, <1>3, <1>4, <1>6, <1>7, <1>8, PayloadStep DEF host, IInv, Types

\* Admission and death of an Engine.
LEMMA EngineSteps ==
  ASSUME IInv, UNCHANGED assignment, NEW e \in Engines,
         Close(e) \/ Drained(e) \/ Die(e) \/ ReleaseOwner(e)
  PROVE  IInv'
<1> USE DEF IInv
<1>0. /\ eng \in [Engines -> EngineRecord] /\ pay \in [Payloads -> PayloadRecord]
      /\ hold \in [Payloads -> Nat]
  BY DEF Types
<1>1. CASE Close(e) \/ Drained(e)
  <2> DEFINE to == IF Close(e) THEN "closed" ELSE "done" f == [eng[e] EXCEPT !.state = to]
  <2>1. /\ eng' = [eng EXCEPT ![e] = f] /\ UNCHANGED <<pay, host, orphans>> /\ Alive(e)
    BY <1>1 DEF Close, Drained, Alive
  <2>2. f \in EngineRecord /\ f.state \in {"closed", "done"} /\ f.jobs = eng[e].jobs
    BY <1>0 DEF EngineRecord
  <2> HIDE DEF f
  <2>3. /\ eng' \in [Engines -> EngineRecord]
        /\ \A g \in Engines : Alive(g) => Alive(g)'
        /\ \A g \in Engines : eng'[g].jobs = eng[g].jobs
    BY <1>0, <2>1, <2>2 DEF Alive
  <2>4. Types' /\ Accounted' /\ Permits'
    BY <2>1, <2>3 DEF Types, Accounted, Permits, host, assignment, At
  <2>5. Buried'
    BY <2>1, <2>3 DEF Buried, Types, At, assignment
  <2>6. Queues'
    BY <2>1, <2>3 DEF Queues, At, assignment
  <2> QED BY <2>4, <2>5, <2>6
<1>2. CASE Die(e)
  <2> DEFINE d == [Fresh EXCEPT !.at = "dead"]
             f == [Service EXCEPT !.state = "dead"]
             calls == {[call |-> pay[p].at, of |-> p, bytes |-> pay[p].remote] :
                        p \in {p \in Payloads : home[p] = e /\ IsWaiting(p)}}
  <2>1. /\ eng' = [eng EXCEPT ![e] = f]
        /\ pay' = [p \in Payloads |-> IF home[p] = e THEN d ELSE pay[p]]
        /\ orphans' = orphans \cup calls /\ UNCHANGED host
    BY <1>2 DEF Die
  <2>2. d \in PayloadRecord /\ d.at = "dead" /\ \A n \in Nat : Account(d, n)
    BY EndIsAccounted
  <2>3. f \in EngineRecord /\ f.state = "dead" /\ f.jobs = <<>>
    <3>1. /\ 0 \in Int /\ <<>> \in Seq(Payloads) /\ {} \in SUBSET Recordings /\ FALSE \in BOOLEAN
      OBVIOUS
    <3> QED BY <3>1 DEF EngineRecord, Service
  <2>4. calls \subseteq [call : Waiting, of : Payloads, bytes : Nat]
    BY <1>0 DEF IsWaiting, PayloadRecord
  <2>5. \A o \in calls : o.of \in Payloads /\ home[o.of] = e
    OBVIOUS
  <2> HIDE DEF d, f, calls
  <2>6. Types'
    BY <2>1, <2>2, <2>3, <2>4 DEF Types, host, assignment
  <2>7. Accounted'
    BY <1>0, <2>1, <2>2 DEF Accounted, host
  <2>8. Permits'
    BY <2>1, <2>2 DEF Permits, At, host
  <2>9. Buried'
    <3>1. \A p \in Payloads : ~Alive(home[p])' => pay'[p].at = "dead"
      BY <1>0, <2>1, <2>2, <2>3 DEF Buried, Alive, At, assignment, Types
    <3>2. \A o \in orphans' : pay'[o.of].at = "dead"
      BY <2>1, <2>2, <2>5 DEF Buried, At, Types
    <3> QED BY <3>1, <3>2 DEF Buried, At
  <2>10. Queues'
    <3>1. /\ eng'[e].jobs = <<>> /\ \A g \in Engines : g # e => eng'[g].jobs = eng[g].jobs
      BY <1>0, <2>1, <2>3
    <3> SUFFICES ASSUME NEW g \in Engines
                 PROVE  LET new == eng'[g].jobs IN
                        /\ \A i \in 1 .. Len(new) : home[new[i]] = g /\ pay'[new[i]].at = "queued"
                        /\ \A i, j \in 1 .. Len(new) : new[i] = new[j] => i = j
      BY DEF Queues, At, assignment
    <3>2. CASE g = e
      BY <3>1, <3>2
    <3>3. CASE g # e
      <4>1. \A i \in 1 .. Len(eng[g].jobs) : eng[g].jobs[i] \in Payloads
        BY <1>0 DEF EngineRecord
      <4> QED BY <2>1, <3>1, <3>3, <4>1 DEF Queues, At
    <3> QED BY <3>2, <3>3
  <2> QED BY <2>6, <2>7, <2>8, <2>9, <2>10
<1>3. CASE ReleaseOwner(e)
  <2> DEFINE f == [eng[e] EXCEPT !.state = "reclaimed"]
  <2>1. /\ eng' = [eng EXCEPT ![e] = f] /\ eng[e].state = "dead" /\ UNCHANGED <<pay, orphans>>
        /\ hold' = [p \in Payloads |-> IF home[p] = e THEN 0 ELSE hold[p]]
        /\ queue' \subseteq queue /\ writers' = {p \in writers : home[p] # e}
    BY <1>3 DEF ReleaseOwner
  <2>2. f \in EngineRecord /\ f.state = "reclaimed" /\ f.jobs = eng[e].jobs
    BY <1>0 DEF EngineRecord
  <2> HIDE DEF f
  <2>3. /\ eng' \in [Engines -> EngineRecord]
        /\ \A g \in Engines : Alive(g)' = Alive(g)
        /\ \A g \in Engines : eng'[g].jobs = eng[g].jobs
    BY <1>0, <2>1, <2>2 DEF Alive
  <2>4. \A p \in Payloads : home[p] = e => At(p, "dead")
    BY <2>1 DEF Buried, Alive
  <2>5. Types'
    BY <2>1, <2>3 DEF Types, assignment
  <2>6. Accounted'
    BY <1>0, <2>1, <2>4, LimitsAreNumbers DEF Accounted, Account, At, PayloadRecord
  <2>7. Permits'
    BY <2>1, <2>4 DEF Permits, At
  <2>8. Buried'
    BY <2>1, <2>3 DEF Buried, Types, At, assignment
  <2>9. Queues'
    BY <2>1, <2>3 DEF Queues, At, assignment
  <2> QED BY <2>5, <2>6, <2>7, <2>8, <2>9
<1> QED BY <1>1, <1>2, <1>3

\* A call that outlived its Engine.
LEMMA OrphanSteps ==
  ASSUME IInv, UNCHANGED assignment, NEW o \in orphans, OrphanAdmitted(o) \/ OrphanExpires(o)
  PROVE  IInv'
<1> DEFINE p == o.of
<1>0. /\ p \in Payloads /\ pay[p].at = "dead" /\ o.call \in Waiting /\ o.bytes \in Nat
      /\ orphans' \subseteq orphans /\ UNCHANGED <<pay, eng>>
  BY DEF IInv, Types, Buried, At, OrphanAdmitted, OrphanExpires
<1>1. /\ hold' \in [Payloads -> Nat] /\ \A q \in Payloads : q # p => hold'[q] = hold[q]
      /\ queue' \subseteq Payloads /\ writers' \subseteq Payloads
      /\ writers \subseteq writers' /\ \A q, r \in writers' : q = r
  <2>1. CASE OrphanAdmitted(o)
    BY <1>0, <2>1, Applied DEF OrphanAdmitted
  <2>2. CASE OrphanExpires(o)
    BY <2>2 DEF OrphanExpires, host, IInv, Types, Permits
  <2> QED BY <2>1, <2>2
<1> USE DEF IInv
<1>2. Types'
  BY <1>0, <1>1 DEF Types, assignment
<1>3. Accounted'
  <2>1. Account(pay[p], hold[p]) /\ pay[p].reserved = 0
    BY <1>0 DEF Accounted, Account
  <2>2. Account(pay[p], hold'[p])
    BY <1>0, <1>1, <2>1 DEF Account
  <2> QED BY <1>0, <1>1, <2>2 DEF Accounted
<1>4. Permits'
  BY <1>0, <1>1 DEF Permits, At, Alive, assignment
<1>5. Buried'
  BY <1>0, <1>1 DEF Buried, At, Alive, assignment
<1>6. Queues'
  BY <1>0, <1>1 DEF Queues, At, Alive, assignment
<1> QED BY <1>2, <1>3, <1>4, <1>5, <1>6

-----------------------------------------------------------------------------
(* Theorems.                                                               *)

LEMMA Initially == Init => IInv
<1> SUFFICES ASSUME Init PROVE IInv
  OBVIOUS
<1>1. /\ Fresh \in PayloadRecord /\ Fresh.at = "new" /\ Account(Fresh, 0)
  BY LimitsAreNumbers DEF Fresh, PayloadRecord, Phases, Account
<1>2. Service \in EngineRecord /\ Service.state = "open" /\ Service.jobs = <<>>
  BY DEF Service, EngineRecord
<1>3. home \in [Payloads -> Engines] /\ rec \in [Payloads -> Recordings]
  BY IngestAssumption DEF IngestAssumption, Init
<1>4. Types
  BY <1>1, <1>2, <1>3 DEF Types, Init
<1>5. Accounted /\ Permits /\ Buried /\ Queues
  BY <1>1, <1>2, <1>3 DEF Accounted, Permits, Buried, Queues, Alive, At, Init
<1> QED BY <1>4, <1>5 DEF IInv

LEMMA Inductive == IInv /\ [Next]_vars => IInv'
<1> SUFFICES ASSUME IInv, [Next]_vars PROVE IInv'
  OBVIOUS
<1>1. CASE UNCHANGED vars
  BY <1>1 DEF vars, host, assignment, IInv, Types, Accounted, Permits, Buried, Queues, Alive, At
<1>2. CASE Next
  <2>1. UNCHANGED assignment
    BY <1>2 DEF Next
  <2> QED BY <1>2, <2>1, PayloadSteps, DequeueStep, EngineSteps, OrphanSteps DEF Next
<1> QED BY <1>1, <1>2

\* The Host holds what the arrays of every payload need, whatever calls to it
\* were lost: what a client asks for covers its arrays, the one it is about to
\* allocate included (reserve, releasePayloadReservation).
THEOREM HostIsCovering == Spec => []HostCoversArrays
<1>1. IInv => HostCoversArrays
  BY LimitsAreNumbers
     DEF IInv, Types, PayloadRecord, Accounted, Account, HostCoversArrays, Arrays
<1> QED BY <1>1, Initially, Inductive, PTL DEF Spec

\* At most one payload is being persisted in all Engines, the calls that outlive
\* a dead Engine included (AcquireWriter, ReleaseOwner).
THEOREM OneWriter == Spec => []OneWriterPersists
<1>1. IInv => OneWriterPersists
  BY DEF IInv, Permits, OneWriterPersists
<1> QED BY <1>1, Initially, Inductive, PTL DEF Spec
=============================================================================
