-------------------------- MODULE RecordingsProofs --------------------------
(***************************************************************************)
(* Theorems about what is kept of Recordings: the jobs that verify and     *)
(* export them with the deletions they must agree with (Jobs), the frames  *)
(* that preview them (Previews), and the archive that publishes, seals and *)
(* syncs one of them (Archive).                                            *)
(*                                                                         *)
(* They hold for any set of Recordings, workers, segments and manifests,   *)
(* any number of jobs and attempts, and any number of faults, crashes and  *)
(* power losses.                                                           *)
(***************************************************************************)
EXTENDS Archive, MCJobs, MCPreviews, TLAPS, FiniteSetTheorems, WellFoundedInduction

-----------------------------------------------------------------------------
(* Jobs.                                                                   *)

IsJob(x) ==
  /\ x = [kind |-> x.kind, rec |-> x.rec, state |-> x.state]
  /\ x.kind \in Kinds \/ x = NoJob
IsTask(t) == t = [job |-> t.job, step |-> t.step, err |-> t.err]
Claims(t) == t.step \in {"work", "publish", "finish"}

\* The maps, by their domains; a job that was not created is in none of them.
JobsShape ==
  /\ issued \in 0 .. MaxJobs /\ jobFaults \in Nat
  /\ DOMAIN jobs = Ids /\ DOMAIN jobsDisk.jobs = Ids /\ DOMAIN artifact = Ids
  /\ jobsDisk = [jobs |-> jobsDisk.jobs, results |-> jobsDisk.results]
  /\ \A j \in Ids : IsJob(jobs[j]) /\ IsJob(jobsDisk.jobs[j])
  /\ \A j \in Ids : j > issued => jobs[j] = NoJob /\ jobsDisk.jobs[j] = NoJob
  /\ DOMAIN held = Recordings

\* A channel holds jobs of its Service, and tombstones.
QueuesOfKind ==
  /\ queue \in [Kinds -> Seq(1 .. issued)]
  /\ \A k \in Kinds : \A i \in 1 .. Len(queue[k]) : jobs[queue[k][i]].kind \in {k, "none"}

\* The task of a worker: until it finishes, nobody else takes its export or its
\* directory; an export to be reported has its artifact.
ExportTask(t) ==
  /\ Claims(t) => t.job \in 1 .. issued /\ jobs[t.job].kind = "export" /\ jobs[t.job].state = "running"
  /\ t.step = "finish" /\ t.err = "" => artifact[t.job] = "output"
  /\ t.step = "sweep" => t.job \in 1 .. issued /\ jobs[t.job].state \notin {"queued", "running", "completed"}
  /\ t.step \in {"idle", "work", "publish", "finish", "sweep"}
IntegrityTask(t) ==
  t.step # "idle" => t.job \in 1 .. issued /\ jobs[t.job].kind \in {"integrity", "none"}
WorkersApart ==
  /\ DOMAIN work = Kinds /\ \A k \in Kinds : DOMAIN work[k] = Workers
  /\ \A k \in Kinds, w \in Workers : IsTask(work[k][w])
  /\ \A w \in Workers : ExportTask(work["export"][w]) /\ IntegrityTask(work["integrity"][w])
  /\ \A w, v \in Workers : w # v /\ Claims(work["export"][w]) /\ Claims(work["export"][v])
       => work["export"][w].job # work["export"][v].job

RemovedIsForgotten == \A j \in removing : j \in 1 .. issued /\ jobs[j] = NoJob

JobsInv == JobsShape /\ QueuesOfKind /\ WorkersApart /\ RemovedIsForgotten /\ CompletedIsDurable /\ DeletionIsAlone

LEMMA JobsStart ==
  ASSUME JobsInit
  PROVE  JobsInv
<1>1. MaxJobs \in Nat /\ Ids \subseteq Nat
  BY JobsAssumption DEF Ids
<1>2. JobsShape /\ RemovedIsForgotten /\ CompletedIsDurable /\ DeletionIsAlone
  BY <1>1 DEF JobsInit, JobsShape, NoJob, IsJob, RemovedIsForgotten, CompletedIsDurable, DeletionIsAlone,
       JobInProgress, InProgress, ActiveJobs, IsActive
<1>3. QueuesOfKind
  BY <1>1 DEF JobsInit, QueuesOfKind
<1>4. WorkersApart
  <2>1. \A w \in Workers : work["export"][w] = NoWork /\ work["integrity"][w] = NoWork
    BY DEF JobsInit, Kinds
  <2>2. /\ DOMAIN work = Kinds /\ \A k \in Kinds : DOMAIN work[k] = Workers
        /\ \A k \in Kinds, w \in Workers : IsTask(work[k][w])
    BY DEF JobsInit, NoWork, IsTask
  <2>3. NoWork.step = "idle"
    BY DEF NoWork
  <2>4. ~Claims(NoWork) /\ ExportTask(NoWork) /\ IntegrityTask(NoWork)
    BY <2>3 DEF Claims, ExportTask, IntegrityTask
  <2> QED BY <2>1, <2>2, <2>4 DEF WorkersApart
<1> QED BY <1>2, <1>3, <1>4 DEF JobsInv

\* A job whose state is set, and the others.
LEMMA WithForm ==
  ASSUME JobsShape, NEW j, NEW state, j \in Ids => jobs[j].kind \in Kinds
  PROVE  /\ DOMAIN With(j, state) = Ids
         /\ \A i \in Ids : IsJob(With(j, state)[i])
         /\ \A i \in Ids : i # j => With(j, state)[i] = jobs[i]
         /\ j \in Ids => With(j, state)[j] = [kind |-> jobs[j].kind, rec |-> jobs[j].rec, state |-> state]
<1>1. \A i \in Ids : jobs[i] = [kind |-> jobs[i].kind, rec |-> jobs[i].rec, state |-> jobs[i].state]
  BY DEF JobsShape, IsJob
<1>2. DOMAIN jobs = Ids
  BY DEF JobsShape
<1>3. DOMAIN With(j, state) = Ids /\ \A i \in Ids : i # j => With(j, state)[i] = jobs[i]
  BY <1>2 DEF With
<1>4. ASSUME j \in Ids
      PROVE  With(j, state)[j] = [kind |-> jobs[j].kind, rec |-> jobs[j].rec, state |-> state]
  <2>1. With(j, state)[j] = [jobs[j] EXCEPT !.state = state]
    BY <1>2, <1>4 DEF With
  <2>2. PICK job : job = jobs[j] /\ job = [kind |-> job.kind, rec |-> job.rec, state |-> job.state]
    BY <1>1, <1>4
  <2>3. [job EXCEPT !.state = state] = [kind |-> job.kind, rec |-> job.rec, state |-> state]
    BY <2>2
  <2> QED BY <2>1, <2>2, <2>3
<1>5. \A i \in Ids : IsJob(With(j, state)[i])
  <2>1. \A i \in Ids : IsJob(jobs[i])
    BY DEF JobsShape
  <2>2. j \in Ids => IsJob(With(j, state)[j])
    BY <1>4 DEF IsJob
  <2> QED BY <1>3, <2>1, <2>2
<1> QED BY <1>3, <1>4, <1>5

\* What a save writes of each job.
LEMMA SavedForm ==
  ASSUME JobsShape, NEW k, NEW new, NEW res
  PROVE  /\ Saved(k, new, res) = [jobs |-> Saved(k, new, res).jobs, results |-> Saved(k, new, res).results]
         /\ DOMAIN Saved(k, new, res).jobs = Ids
         /\ \A i \in Ids : Saved(k, new, res).jobs[i] \in {new[i], jobsDisk.jobs[i]}
         /\ \A i \in Ids : new[i].kind = k => Saved(k, new, res).jobs[i] = new[i]
BY DEF Saved

\* What is pruned, and what a new job looks like.
LEMMA NewJobForm ==
  ASSUME JobsShape, issued < MaxJobs, NEW k \in Kinds, NEW r, NEW pruned
  PROVE  /\ issued + 1 \in Ids /\ issued + 1 \in Nat
         /\ DOMAIN Without(pruned) = Ids
         /\ \A i \in Ids : Without(pruned)[i] = IF i \in pruned THEN NoJob ELSE jobs[i]
         /\ DOMAIN NewJob(k, r) = Ids
         /\ NewJob(k, r)[issued + 1] = [kind |-> k, rec |-> r, state |-> "queued"]
         /\ \A i \in Ids \ {issued + 1} : NewJob(k, r)[i] = IF i \in Pruned(k) THEN NoJob ELSE jobs[i]
<1>1. issued \in 0 .. MaxJobs /\ MaxJobs \in Nat
  BY JobsAssumption DEF JobsShape
<1>2. issued + 1 \in Ids /\ issued + 1 \in Nat
  BY <1>1 DEF Ids
<1>3. \A p : DOMAIN Without(p) = Ids /\ \A i \in Ids : Without(p)[i] = IF i \in p THEN NoJob ELSE jobs[i]
  BY DEF Without
<1> QED BY <1>2, <1>3 DEF NewJob

\* The state files are left alone, or one Service writes one of the maps there.
Stores(maps) == jobsDisk' = jobsDisk \/ \E k \in Kinds, new \in maps : \E res : jobsDisk' = Saved(k, new, res)

JobMap(new) == \A i \in Ids : IsJob(new[i]) /\ (i > issued' => new[i] = NoJob)

LEMMA SavesStore ==
  ASSUME NEW k \in Kinds
  PROVE  /\ \A res : SaveOk(k, res) => Stores({jobs'}) /\ jobsDisk' = Saved(k, jobs', res) /\ jobFaults' = jobFaults
         /\ \A n1, res1 : SaveFails({Saved(k, n1, res1)}) => Stores({n1}) /\ Fault
         /\ \A n1, res1, n2, res2 : SaveFails({Saved(k, n1, res1), Saved(k, n2, res2)}) => Stores({n1, n2}) /\ Fault
BY DEF SaveOk, SaveFails, Stores

LEMMA ShapeStep ==
  ASSUME JobsShape, issued' \in issued .. MaxJobs, jobFaults' \in Nat, NEW maps, Stores(maps),
         DOMAIN jobs' = Ids, JobMap(jobs'), \A new \in maps : JobMap(new),
         DOMAIN artifact' = Ids, DOMAIN held' = Recordings
  PROVE  JobsShape'
<1>1. issued' \in 0 .. MaxJobs /\ issued' >= issued /\ issued \in Nat /\ issued' \in Nat
  BY DEF JobsShape
<1>2. \A i \in Ids : i \in Nat
  BY DEF Ids
<1>3. /\ jobsDisk' = [jobs |-> jobsDisk'.jobs, results |-> jobsDisk'.results] /\ DOMAIN jobsDisk'.jobs = Ids
      /\ \A i \in Ids : jobsDisk'.jobs[i] = jobsDisk.jobs[i] \/ \E new \in maps : jobsDisk'.jobs[i] = new[i]
  <2>1. CASE jobsDisk' = jobsDisk
    BY <2>1 DEF JobsShape
  <2>2. CASE jobsDisk' # jobsDisk
    <3>1. PICK k \in Kinds, new \in maps : \E res : jobsDisk' = Saved(k, new, res)
      BY <2>2 DEF Stores
    <3>2. PICK res : jobsDisk' = Saved(k, new, res)
      BY <3>1
    <3> QED BY <3>1, <3>2, SavedForm
  <2> QED BY <2>1, <2>2
<1>4. \A i \in Ids : IsJob(jobsDisk'.jobs[i]) /\ (i > issued' => jobsDisk'.jobs[i] = NoJob)
  <2> SUFFICES ASSUME NEW i \in Ids PROVE IsJob(jobsDisk'.jobs[i]) /\ (i > issued' => jobsDisk'.jobs[i] = NoJob)
    OBVIOUS
  <2>1. IsJob(jobsDisk.jobs[i]) /\ (i > issued' => jobsDisk.jobs[i] = NoJob)
    BY <1>1, <1>2 DEF JobsShape
  <2> QED BY <1>3, <2>1 DEF JobMap
<1> QED BY <1>1, <1>3, <1>4 DEF JobsShape, JobMap

\* A job that is completed already keeps its artifact and is written as it is,
\* or a fault took it from the file; a new one is written.
LEMMA DurableStep ==
  ASSUME JobsShape, CompletedIsDurable, jobFaults' \in Nat, jobFaults' >= jobFaults, NEW maps, Stores(maps),
         \A i \in Ids : jobs'[i].state = "completed" =>
           \/ /\ jobs'[i] = jobs[i]
              /\ \A new \in maps : new[i].state = "completed" \/ (new[i].state = "none" /\ jobFaults' > 0)
              /\ jobs[i].kind = "export" => artifact'[i] = artifact[i]
           \/ jobsDisk'.jobs[i].state = "completed" /\ (jobs'[i].kind = "export" => artifact'[i] = "output")
  PROVE  CompletedIsDurable'
<1> SUFFICES ASSUME NEW i \in Ids, jobs'[i].state = "completed"
             PROVE  /\ jobsDisk'.jobs[i].state \in {"completed", "none"}
                    /\ jobsDisk'.jobs[i].state = "none" => jobFaults' > 0
                    /\ jobs'[i].kind = "export" => artifact'[i] = "output"
  BY DEF CompletedIsDurable
<1>1. CASE jobsDisk'.jobs[i].state = "completed" /\ (jobs'[i].kind = "export" => artifact'[i] = "output")
  BY <1>1
<1>2. CASE /\ jobs'[i] = jobs[i]
           /\ \A new \in maps : new[i].state = "completed" \/ (new[i].state = "none" /\ jobFaults' > 0)
           /\ jobs[i].kind = "export" => artifact'[i] = artifact[i]
  <2>1. /\ jobsDisk.jobs[i].state \in {"completed", "none"} /\ (jobsDisk.jobs[i].state = "none" => jobFaults > 0)
        /\ jobs[i].kind = "export" => artifact[i] = "output"
    BY <1>2 DEF CompletedIsDurable
  <2>2. jobFaults > 0 => jobFaults' > 0
    BY DEF JobsShape
  <2>3. jobsDisk'.jobs[i] = jobsDisk.jobs[i] \/ \E new \in maps : jobsDisk'.jobs[i] = new[i]
    <3>1. CASE jobsDisk' = jobsDisk
      BY <3>1
    <3>2. CASE jobsDisk' # jobsDisk
      <4>1. PICK k \in Kinds, new \in maps : \E res : jobsDisk' = Saved(k, new, res)
        BY <3>2 DEF Stores
      <4>2. PICK res : jobsDisk' = Saved(k, new, res)
        BY <4>1
      <4> QED BY <4>1, <4>2, SavedForm
    <3> QED BY <3>1, <3>2
  <2> QED BY <1>2, <2>1, <2>2, <2>3
<1> QED BY <1>1, <1>2

\* The instance counts with the Cardinality of its own copy of FiniteSets.
LEMMA JobsCardinality ==
  ASSUME NEW S
  PROVE  Cardinality(S) = Cardinality(S)
BY DEF Cardinality, Cardinality

LEMMA JobMinIsIn ==
  ASSUME NEW S \in SUBSET Nat, S # {}
  PROVE  Min(S) \in S
<1> DEFINE R == OpToRel(<, Nat)
<1>1. IsWellFoundedOn(R, Nat)
  BY NatLessThanWellFounded
<1>2. \A x, y \in Nat : x < y => <<x, y>> \in R
  BY DEF OpToRel
<1> HIDE DEF R
<1>3. PICK x \in S : \A y \in S : ~(<<y, x>> \in R)
  BY <1>1, WFMin
<1>4. \A y \in S : ~(y < x)
  BY <1>2, <1>3
<1>5. \A y \in S : x =< y
  BY <1>4
<1> QED BY <1>3, <1>5 DEF Min

\* A Start prunes terminal jobs of its Service only.
LEMMA PrunedIsTerminal ==
  ASSUME JobsShape, NEW k \in Kinds,
         \/ k = "integrity" /\ (Cardinality(History(k)) >= MaxHistory => Terminal(k) # {})
         \/ k = "export" /\ CanPrune(k)
  PROVE  Pruned(k) \subseteq Terminal(k)
<1>1. CASE Cardinality(History(k)) < MaxHistory
  BY <1>1 DEF Pruned
<1>2. CASE ~(Cardinality(History(k)) < MaxHistory)
  <2>1. CASE k = "export"
    BY <1>2, <2>1 DEF CanPrune
  <2>2. CASE k = "integrity"
    <3>1. History(k) \in SUBSET Ids /\ IsFiniteSet(Ids)
      <4>1. MaxJobs \in Nat
        BY JobsAssumption
      <4> QED BY <4>1, FS_Interval DEF History, Ids
    <3>2. Cardinality(History(k)) \in Nat /\ MaxHistory \in Nat
      BY JobsAssumption, <3>1, FS_Subset, FS_CardinalityType, JobsCardinality
    <3>3. Terminal(k) # {} /\ Terminal(k) \in SUBSET Nat
      BY <1>2, <2>2, <3>2 DEF Terminal, Ids
    <3>4. Pruned(k) = {Min(Terminal(k))}
      BY <1>2, <2>2 DEF Pruned
    <3> QED BY <3>3, <3>4, JobMinIsIn
  <2> QED BY <2>1, <2>2 DEF Kinds
<1> QED BY <1>1, <1>2

\* Admission creates one job and forgets terminal ones; where it fails, it may
\* only have forgotten them.
LEMMA StartForm ==
  ASSUME JobsInv, NEW r \in Recordings, StartIntegrity(r) \/ StartExport(r)
  PROVE  /\ JobsShape' /\ CompletedIsDurable'
         /\ issued' = issued + 1 /\ r \in kept /\ held[r] = "free" /\ UNCHANGED <<kept, held, tags, work, removing>>
         /\ \A i \in Ids \ {issued + 1} : jobs'[i] = jobs[i] \/ (jobs'[i] = NoJob /\ ~IsActive(jobs[i].state) /\ jobs[i].kind \in Kinds)
         /\ \A i \in Ids : jobs'[i] # jobs[i] \/ artifact'[i] = artifact[i]
         /\ \E k \in Kinds :
              /\ \/ queue' = queue
                 \/ queue' = [queue EXCEPT ![k] = Append(queue[k], issued + 1)]
              /\ jobs'[issued + 1] = NoJob \/ jobs'[issued + 1] = [kind |-> k, rec |-> r, state |-> "queued"]
<1>0. JobsShape /\ CompletedIsDurable
  BY DEF JobsInv
<1>1. issued < MaxJobs /\ r \in kept /\ held[r] = "free" /\ issued' = issued + 1
  BY DEF StartIntegrity, StartExport, Admits
<1>2. issued \in Nat /\ MaxJobs \in Nat /\ issued + 1 \in Ids /\ jobFaults \in Nat
  BY JobsAssumption, <1>0, <1>1 DEF JobsShape, Ids
<1>3. \A i \in Ids : i \in Nat /\ IsJob(jobs[i]) /\ (i > issued => jobs[i] = NoJob)
  BY <1>0 DEF JobsShape, Ids
<1>4. IsJob(NoJob) /\ NoJob.state = "none" /\ NoJob.kind = "none"
  BY DEF IsJob, NoJob
<1>5. \A k \in Kinds : JobMap(NewJob(k, r)) /\ JobMap(jobs) /\ \A p : JobMap(Without(p))
  <2>1. JobMap(jobs)
    BY <1>1, <1>2, <1>3 DEF JobMap
  <2>2. ASSUME NEW p PROVE JobMap(Without(p))
    <3>1. \A i \in Ids : Without(p)[i] = IF i \in p THEN NoJob ELSE jobs[i]
      BY DEF Without
    <3> QED BY <1>4, <2>1, <3>1 DEF JobMap
  <2>3. ASSUME NEW k \in Kinds PROVE JobMap(NewJob(k, r))
    <3>1. /\ NewJob(k, r)[issued + 1] = [kind |-> k, rec |-> r, state |-> "queued"]
          /\ \A i \in Ids \ {issued + 1} : NewJob(k, r)[i] = IF i \in Pruned(k) THEN NoJob ELSE jobs[i]
      BY <1>0, <1>1, NewJobForm
    <3>2. IsJob(NewJob(k, r)[issued + 1])
      BY <3>1 DEF IsJob
    <3> QED BY <1>1, <1>2, <1>4, <2>1, <3>1, <3>2 DEF JobMap
  <2> QED BY <2>1, <2>2, <2>3
<1>6. issued' \in issued .. MaxJobs
  BY <1>1, <1>2
<1>7. \A k \in Kinds : \A i \in Terminal(k) : i \in Ids /\ ~IsActive(jobs[i].state) /\ jobs[i].kind \in Kinds
  BY DEF Terminal
<1>8. CASE StartIntegrity(r)
  <2> DEFINE k == "integrity"
  <2>1. /\ UNCHANGED <<kept, held, tags, work, removing, artifact>> /\ queue' = [queue EXCEPT ![k] = Append(queue[k], issued + 1)]
    BY <1>8 DEF StartIntegrity, removal, projections
  <2>2. Pruned(k) \subseteq Terminal(k) /\ k \in Kinds
    BY <1>0, <1>8, PrunedIsTerminal DEF StartIntegrity, Kinds
  <2>3. /\ NewJob(k, r)[issued + 1] = [kind |-> k, rec |-> r, state |-> "queued"]
        /\ \A i \in Ids \ {issued + 1} : NewJob(k, r)[i] = IF i \in Pruned(k) THEN NoJob ELSE jobs[i]
        /\ DOMAIN NewJob(k, r) = Ids
    BY <1>0, <1>1, <2>2, NewJobForm
  <2>4. jobs[issued + 1] = NoJob
    BY <1>2, <1>3
  <2>5. CASE jobs' = NewJob(k, r) /\ SaveOk(k, results)
    <3>1. Stores({jobs'}) /\ jobsDisk' = Saved(k, jobs', results) /\ jobFaults' = jobFaults
      BY <2>2, <2>5, SavesStore
    <3>2. JobsShape'
      BY <1>0, <1>2, <1>5, <1>6, <2>1, <2>2, <2>3, <2>5, <3>1, ShapeStep DEF JobsShape
    <3>3. CompletedIsDurable'
      BY <1>0, <1>2, <1>4, <2>1, <2>3, <2>5, <3>1, DurableStep
    <3> QED BY <1>1, <1>7, <2>1, <2>2, <2>3, <2>5, <3>2, <3>3
  <2>6. CASE jobs' = jobs /\ SaveFails({Saved(k, NewJob(k, r), results)})
    <3>1. Stores({NewJob(k, r)}) /\ Fault
      BY <2>2, <2>6, SavesStore
    <3>2. jobFaults' \in Nat /\ jobFaults' > 0 /\ jobFaults' >= jobFaults
      BY <1>2, <3>1 DEF Fault
    <3>3. JobsShape'
      BY <1>0, <1>5, <1>6, <2>1, <2>2, <2>6, <3>1, <3>2, ShapeStep DEF JobsShape
    <3>4. CompletedIsDurable'
      <4>1. \A i \in Ids : jobs[i].state = "completed" => NewJob(k, r)[i].state = "completed" \/ NewJob(k, r)[i].state = "none"
        BY <1>4, <2>3, <2>4
      <4> QED BY <1>0, <2>1, <2>6, <3>1, <3>2, <4>1, DurableStep
    <3> QED BY <1>1, <2>1, <2>2, <2>4, <2>6, <3>3, <3>4
  <2> QED BY <1>8, <2>5, <2>6 DEF StartIntegrity
<1>9. CASE StartExport(r)
  <2> DEFINE k == "export"
  <2> DEFINE pruned == IF CanPrune(k) THEN Pruned(k) ELSE {}
  <2>1. /\ UNCHANGED <<kept, held, tags, work, removing>> /\ k \in Kinds
        /\ artifact' = [j \in Ids |-> IF j \in pruned THEN "none" ELSE artifact[j]]
    BY <1>9 DEF StartExport, removal, projections, Kinds
  <2>2. pruned \subseteq Terminal(k) /\ (CanPrune(k) => Pruned(k) = pruned)
    BY <1>0, <2>1, PrunedIsTerminal
  <2> HIDE DEF pruned
  <2>3. /\ NewJob(k, r)[issued + 1] = [kind |-> k, rec |-> r, state |-> "queued"]
        /\ CanPrune(k) => \A i \in Ids \ {issued + 1} : NewJob(k, r)[i] = IF i \in pruned THEN NoJob ELSE jobs[i]
        /\ DOMAIN NewJob(k, r) = Ids /\ DOMAIN Without(pruned) = Ids
        /\ \A i \in Ids : Without(pruned)[i] = IF i \in pruned THEN NoJob ELSE jobs[i]
    BY <1>0, <1>1, <2>1, <2>2, NewJobForm
  <2>4. jobs[issued + 1] = NoJob /\ issued + 1 \notin pruned
    BY <1>2, <1>3, <1>4, <1>7, <2>1, <2>2 DEF Kinds
  <2>5. \A i \in pruned : i \in Ids /\ jobs[i] # NoJob
    BY <1>4, <1>7, <2>1, <2>2 DEF Kinds
  <2>6. CASE CanPrune(k) /\ jobs' = NewJob(k, r) /\ SaveOk(k, results) /\ queue' = [queue EXCEPT ![k] = Append(queue[k], issued + 1)]
    <3>1. Stores({jobs'}) /\ jobsDisk' = Saved(k, jobs', results) /\ jobFaults' = jobFaults
      BY <2>1, <2>6, SavesStore
    <3>2. JobsShape'
      BY <1>0, <1>2, <1>5, <1>6, <2>1, <2>3, <2>6, <3>1, ShapeStep DEF JobsShape
    <3>3. CompletedIsDurable'
      BY <1>0, <1>2, <1>4, <2>1, <2>3, <2>6, <3>1, DurableStep
    <3>4. \A i \in Ids \ {issued + 1} : jobs'[i] = jobs[i] \/ (jobs'[i] = NoJob /\ ~IsActive(jobs[i].state) /\ jobs[i].kind \in Kinds)
      BY <1>7, <2>1, <2>2, <2>3, <2>6
    <3>5. \A i \in Ids : jobs'[i] # jobs[i] \/ artifact'[i] = artifact[i]
      BY <2>1, <2>3, <2>4, <2>5, <2>6
    <3> QED BY <1>1, <2>1, <2>3, <2>6, <3>2, <3>3, <3>4, <3>5
  <2>7. CASE CanPrune(k) /\ jobs' = Without(pruned) /\ queue' = queue
    <3>1. \/ Stores({jobs'}) /\ jobFaults' = jobFaults
          \/ Stores({NewJob(k, r)}) /\ Fault
      <4>1. CASE SaveOk(k, results)
        BY <2>1, <4>1, SavesStore
      <4>2. CASE SaveFails({Saved(k, NewJob(k, r), results)})
        BY <2>1, <4>2, SavesStore
      <4>3. CASE Fault /\ jobsDisk' = Saved(k, NewJob(k, r), results)
        BY <2>1, <4>3 DEF Stores
      <4> QED BY <1>9, <2>2, <2>4, <2>7, <4>1, <4>2, <4>3, <2>3 DEF StartExport
    <3>2. jobFaults' \in Nat /\ jobFaults' >= jobFaults /\ (Fault => jobFaults' > 0)
      BY <1>2, <3>1 DEF Fault
    <3>3. JobsShape'
      <4>1. CASE Stores({jobs'})
        BY <1>0, <1>5, <1>6, <2>1, <2>3, <2>7, <3>2, <4>1, ShapeStep DEF JobsShape
      <4>2. CASE Stores({NewJob(k, r)})
        BY <1>0, <1>5, <1>6, <2>1, <2>3, <2>7, <3>2, <4>2, ShapeStep DEF JobsShape
      <4> QED BY <3>1, <4>1, <4>2
    <3>4. \A i \in Ids : jobs'[i].state = "completed" => jobs'[i] = jobs[i] /\ artifact'[i] = artifact[i] /\ i # issued + 1 /\ i \notin pruned
      BY <1>4, <2>1, <2>3, <2>4, <2>7
    <3>5. CompletedIsDurable'
      <4>1. CASE Stores({jobs'})
        BY <1>0, <3>2, <3>4, <4>1, DurableStep
      <4>2. CASE Stores({NewJob(k, r)})
        BY <1>0, <2>3, <2>7, <3>2, <3>4, <4>2, DurableStep
      <4> QED BY <3>1, <4>1, <4>2
    <3>6. \A i \in Ids \ {issued + 1} : jobs'[i] = jobs[i] \/ (jobs'[i] = NoJob /\ ~IsActive(jobs[i].state) /\ jobs[i].kind \in Kinds)
      BY <1>7, <2>1, <2>2, <2>3, <2>7
    <3>7. \A i \in Ids : jobs'[i] # jobs[i] \/ artifact'[i] = artifact[i]
      BY <2>1, <2>3, <2>4, <2>5, <2>7
    <3>8. jobs'[issued + 1] = NoJob
      BY <1>2, <2>3, <2>4, <2>7
    <3> QED BY <1>1, <2>1, <2>7, <3>3, <3>5, <3>6, <3>7, <3>8
  <2>8. CASE ~CanPrune(k) /\ UNCHANGED <<jobs, queue, jobsDisk, jobFaults>>
    <3>1. pruned = {} /\ \A i \in Ids : artifact'[i] = artifact[i]
      BY <2>1, <2>8 DEF pruned
    <3>2. Stores({})
      BY <2>8 DEF Stores
    <3>3. JobsShape'
      BY <1>0, <1>2, <1>5, <1>6, <2>1, <2>8, <3>2, ShapeStep DEF JobsShape
    <3>4. CompletedIsDurable'
      BY <2>8, <1>0, <3>1 DEF CompletedIsDurable
    <3> QED BY <1>1, <2>1, <2>4, <2>8, <3>1, <3>3, <3>4
  <2> QED BY <1>9, <2>2, <2>6, <2>7, <2>8 DEF StartExport, pruned
<1> QED BY <1>8, <1>9

\* A step that sets the state of one job, and saves that or another state of it.
LEMMA SetJob ==
  ASSUME JobsShape, CompletedIsDurable, NEW j \in Ids, j <= issued, jobs[j].kind \in Kinds, NEW state, jobs' = With(j, state),
         issued' = issued, jobFaults' \in Nat, jobFaults' >= jobFaults, held' = held,
         NEW maps, Stores(maps), \A new \in maps : \E s : new = With(j, s),
         DOMAIN artifact' = Ids, \A i \in Ids \ {j} : artifact'[i] = artifact[i],
         state = "completed" => jobsDisk'.jobs[j].state = "completed" /\ (jobs[j].kind = "export" => artifact'[j] = "output")
  PROVE  /\ JobsShape' /\ CompletedIsDurable'
         /\ \A i \in Ids \ {j} : jobs'[i] = jobs[i]
         /\ jobs'[j].kind = jobs[j].kind /\ jobs'[j].rec = jobs[j].rec /\ jobs'[j].state = state
<1>1. \A i \in Ids : i \in Nat /\ (i > issued => jobs[i] = NoJob)
  BY DEF JobsShape, Ids
<1>2. issued \in Nat /\ issued \in issued .. MaxJobs /\ DOMAIN held = Recordings
  BY DEF JobsShape
<1>3. ASSUME NEW s
      PROVE  JobMap(With(j, s)) /\ \A i \in Ids \ {j} : With(j, s)[i] = jobs[i]
  <2>1. /\ \A i \in Ids : IsJob(With(j, s)[i])
        /\ \A i \in Ids \ {j} : With(j, s)[i] = jobs[i]
    <3>1. \A i \in Ids : IsJob(With(j, s)[i])
      BY WithForm
    <3>2. ASSUME NEW i \in Ids, i # j
          PROVE  With(j, s)[i] = jobs[i]
      BY <3>2 DEF With, JobsShape
    <3> QED BY <3>1, <3>2
  <2>2. j \in Nat /\ ~(j > issued')
    BY <1>1, <1>2
  <2> QED BY <1>1, <2>1, <2>2 DEF JobMap
<1>4. JobMap(jobs') /\ DOMAIN jobs' = Ids /\ \A i \in Ids \ {j} : jobs'[i] = jobs[i]
  <2>1. DOMAIN With(j, state) = Ids
    BY WithForm
  <2> QED BY <1>3, <2>1 DEF JobMap
<1>5. \A new \in maps : JobMap(new) /\ \A i \in Ids \ {j} : new[i] = jobs[i]
  BY <1>3
<1>6. jobs'[j] = [kind |-> jobs[j].kind, rec |-> jobs[j].rec, state |-> state]
  BY WithForm
<1>7. JobsShape'
  BY <1>2, <1>4, <1>5, ShapeStep
<1>8. CompletedIsDurable'
  BY <1>4, <1>5, <1>6, DurableStep
<1> QED BY <1>4, <1>6, <1>7, <1>8

\* What no step but a Start and a restart does: make a job active, or change
\* what it is about.
SameJobs ==
  \A i \in Ids :
    \/ jobs'[i] = jobs[i]
    \/ jobs'[i] = NoJob /\ ~IsActive(jobs[i].state)
    \/ /\ jobs'[i].kind = jobs[i].kind /\ jobs'[i].rec = jobs[i].rec
       /\ IsActive(jobs'[i].state) => IsActive(jobs[i].state)
       /\ jobs'[i].state = "completed" => jobs[i].state = "running"

LEMMA ControlForm ==
  ASSUME JobsInv, NEW j \in Ids, Controls(j)
  PROVE  /\ JobsShape' /\ CompletedIsDurable' /\ SameJobs
         /\ UNCHANGED <<issued, queue, work, kept, held, tags>>
         /\ \A i \in Ids : i # j => jobs'[i] = jobs[i] /\ artifact'[i] = artifact[i]
         /\ \/ jobs'[j] = jobs[j]
            \/ /\ artifact' = artifact
               /\ jobs[j].kind = "export" => jobs[j].state # "running" /\ jobs'[j].state \in {"canceled", "none"}
         /\ artifact' = artifact \/ j \in removing
         /\ removing' \subseteq removing \/ (removing' = removing \cup {j} /\ jobs'[j] = NoJob /\ j <= issued)
<1>0. JobsShape /\ CompletedIsDurable /\ RemovedIsForgotten
  BY DEF JobsInv
<1>1. issued \in Nat /\ jobFaults \in Nat /\ j \in Nat /\ DOMAIN artifact = Ids /\ (j > issued => jobs[j] = NoJob)
      /\ (Fault => jobFaults' \in Nat /\ jobFaults' > 0 /\ jobFaults' >= jobFaults)
  BY <1>0 DEF JobsShape, Fault, Ids
<1>2. NoJob.kind = "none" /\ NoJob.state = "none" /\ IsJob(NoJob)
  BY DEF NoJob, IsJob
<1>3. CASE CancelIntegrity(j)
  <2>1. /\ jobs' = With(j, "canceled") /\ IsActive(jobs[j].state) /\ jobs[j].kind = "integrity"
        /\ UNCHANGED <<issued, queue, work, kept, held, tags, artifact, removing>>
    BY <1>3 DEF CancelIntegrity, ActiveJobs, removal, projections
  <2>2. Stores({jobs'}) /\ jobFaults' \in Nat /\ jobFaults' >= jobFaults
    <3>1. SaveOk("integrity", results') \/ SaveFails({Saved("integrity", jobs', results')})
      BY <1>3 DEF CancelIntegrity
    <3> QED BY <1>1, <3>1, SavesStore DEF Kinds
  <2>3. j <= issued
    BY <1>1, <1>2, <2>1
  <2>4. /\ JobsShape' /\ CompletedIsDurable' /\ \A i \in Ids \ {j} : jobs'[i] = jobs[i]
        /\ jobs'[j].kind = jobs[j].kind /\ jobs'[j].rec = jobs[j].rec /\ jobs'[j].state = "canceled"
    BY <1>0, <1>1, <2>1, <2>2, <2>3, SetJob DEF Kinds
  <2> QED BY <2>1, <2>4 DEF SameJobs
<1>4. CASE CancelExport(j)
  <2>1. CASE jobs[j].state = "running"
    <3>1. UNCHANGED <<jobs, jobsDisk, jobFaults, issued, queue, work, kept, held, tags, artifact, removing>>
      BY <1>4, <2>1 DEF CancelExport, removal, projections
    <3>2. JobsShape' /\ CompletedIsDurable'
      BY <1>0, <3>1 DEF JobsShape, CompletedIsDurable
    <3> QED BY <3>1, <3>2 DEF SameJobs
  <2>2. CASE jobs[j].state # "running"
    <3>1. /\ jobs' = With(j, "canceled") /\ IsActive(jobs[j].state) /\ jobs[j].kind = "export"
          /\ UNCHANGED <<issued, queue, work, kept, held, tags, artifact, removing>>
      BY <1>4, <2>2 DEF CancelExport, ActiveJobs, removal, projections
    <3>2. Stores({jobs'}) /\ jobFaults' \in Nat /\ jobFaults' >= jobFaults
      <4>1. SaveOk("export", results) \/ SaveFails({Saved("export", jobs', results)})
        BY <1>4, <2>2 DEF CancelExport
      <4> QED BY <1>1, <4>1, SavesStore DEF Kinds
    <3>3. j <= issued
      BY <1>1, <1>2, <3>1
    <3>4. /\ JobsShape' /\ CompletedIsDurable' /\ \A i \in Ids \ {j} : jobs'[i] = jobs[i]
          /\ jobs'[j].kind = jobs[j].kind /\ jobs'[j].rec = jobs[j].rec /\ jobs'[j].state = "canceled"
      BY <1>0, <1>1, <3>1, <3>2, <3>3, SetJob DEF Kinds
    <3> QED BY <2>2, <3>1, <3>4 DEF SameJobs
  <2> QED BY <2>1, <2>2
<1>5. CASE DeleteExport(j)
  <2>1. /\ ~IsActive(jobs[j].state) /\ jobs[j].kind = "export" /\ j <= issued
        /\ UNCHANGED <<issued, queue, work, kept, held, tags, artifact>>
    BY <1>1, <1>2, <1>5 DEF DeleteExport, Terminal, removal, projections
  <2>2. /\ \A i \in Ids : Without({j})[i] = IF i \in {j} THEN NoJob ELSE jobs[i]
        /\ DOMAIN Without({j}) = Ids
    BY DEF Without
  <2>3. JobMap(jobs) /\ JobMap(Without({j})) /\ issued' \in issued .. MaxJobs
    <3>1. issued' \in issued .. MaxJobs /\ issued' = issued
      BY <1>0, <1>1, <2>1 DEF JobsShape
    <3>2. JobMap(jobs)
      BY <1>0, <3>1 DEF JobsShape, JobMap
    <3>3. JobMap(Without({j}))
      BY <1>2, <2>2, <3>2 DEF JobMap
    <3> QED BY <3>1, <3>2, <3>3
  <2>4. CASE jobs' = Without({j}) /\ SaveOk("export", results) /\ removing' = removing \cup {j}
    <3>1. Stores({jobs'}) /\ jobFaults' = jobFaults
      BY <2>4, SavesStore DEF Kinds
    <3>2. JobsShape'
      BY <1>0, <1>1, <2>1, <2>2, <2>3, <2>4, <3>1, ShapeStep DEF JobsShape
    <3>3. CompletedIsDurable'
      <4>1. \A i \in Ids : jobs'[i].state = "completed" => jobs'[i] = jobs[i] /\ artifact'[i] = artifact[i]
        BY <2>1, <2>2, <2>4 DEF NoJob
      <4>2. jobFaults' \in Nat /\ jobFaults' >= jobFaults /\ CompletedIsDurable /\ JobsShape
        BY <1>0, <1>1, <1>2, <3>1
      <4>3. \A new \in {jobs'} : new = jobs'
        OBVIOUS
      <4> QED BY <3>1, <4>1, <4>2, <4>3, DurableStep
    <3>4. jobs'[j] = NoJob /\ \A i \in Ids \ {j} : jobs'[i] = jobs[i]
      BY <2>2, <2>4
    <3>5. jobs[j].state # "running"
      BY <2>1 DEF IsActive
    <3> QED BY <1>2, <2>1, <2>4, <3>2, <3>3, <3>4, <3>5 DEF SameJobs
  <2>5. CASE UNCHANGED <<jobs, removing>> /\ SaveFails({Saved("export", Without({j}), results), Saved("export", jobs, results)})
    <3>1. Stores({Without({j}), jobs}) /\ Fault
      BY <2>5, SavesStore DEF Kinds
    <3>2. JobsShape'
      BY <1>0, <1>1, <2>1, <2>3, <2>5, <3>1, ShapeStep DEF JobsShape
    <3>3. jobFaults' \in Nat /\ jobFaults' >= jobFaults /\ jobFaults' > 0 /\ CompletedIsDurable /\ JobsShape
      BY <1>0, <1>1, <1>2, <3>1
    <3>4. \A i \in Ids : jobs'[i].state = "completed" =>
            /\ jobs'[i] = jobs[i] /\ artifact'[i] = artifact[i]
            /\ jobs[i].state = "completed" /\ Without({j})[i].state \in {"completed", "none"}
      BY <2>1, <2>2, <2>5 DEF NoJob
    <3>5. \A i \in Ids, new \in {Without({j}), jobs} :
            jobs'[i].state = "completed" => new[i].state = "completed" \/ (new[i].state = "none" /\ jobFaults' > 0)
      BY <3>3, <3>4
    <3>6. CompletedIsDurable'
      BY ONLY <3>1, <3>3, <3>4, <3>5, DurableStep
    <3> QED BY <2>1, <2>5, <3>2, <3>6 DEF SameJobs
  <2> QED BY <1>5, <2>4, <2>5 DEF DeleteExport
<1>6. CASE RemoveDirectory(j)
  <2>1. /\ UNCHANGED <<jobs, jobsDisk, issued, jobFaults, queue, work, kept, held, tags>>
        /\ artifact' = [artifact EXCEPT ![j] = "none"] /\ removing' \subseteq removing /\ j \in removing
    BY <1>6 DEF RemoveDirectory, removal, projections
  <2>2. jobs[j] = NoJob
    BY <1>0, <2>1 DEF RemovedIsForgotten
  <2>3. \A i \in Ids : i # j => artifact'[i] = artifact[i]
    BY <2>1
  <2>4. JobsShape'
    BY <1>0, <2>1 DEF JobsShape
  <2>5. CompletedIsDurable'
    BY <1>0, <1>2, <2>1, <2>2, <2>3 DEF CompletedIsDurable
  <2> QED BY <2>1, <2>3, <2>4, <2>5 DEF SameJobs
<1> QED BY <1>3, <1>4, <1>5, <1>6 DEF Controls

\* The task of another worker is as good as it was when its job and its
\* directory are.
LEMMA TaskStays ==
  ASSUME JobsShape, SameJobs, issued' = issued, NEW t, t.step # "idle" => t.job \in 1 .. issued,
         Claims(t) => jobs'[t.job] = jobs[t.job] /\ artifact'[t.job] = artifact[t.job]
  PROVE  /\ ExportTask(t) => ExportTask(t)'
         /\ IntegrityTask(t) => IntegrityTask(t)'
<1>1. t.job \in 1 .. issued => t.job \in Ids
  BY JobsAssumption DEF JobsShape, Ids
<1>2. NoJob.kind = "none" /\ NoJob.state = "none"
  BY DEF NoJob
<1>3. ASSUME ExportTask(t) PROVE ExportTask(t)'
  <2>1. /\ t.step = "finish" /\ t.err = "" => artifact'[t.job] = "output"
        /\ Claims(t) => t.job \in 1 .. issued' /\ jobs'[t.job].kind = "export" /\ jobs'[t.job].state = "running"
        /\ t.step \in {"idle", "work", "publish", "finish", "sweep"}
    BY <1>3 DEF ExportTask, Claims
  <2>2. t.step = "sweep" => t.job \in 1 .. issued' /\ jobs'[t.job].state \notin {"queued", "running", "completed"}
    <3> SUFFICES ASSUME t.step = "sweep"
                 PROVE  t.job \in 1 .. issued' /\ jobs'[t.job].state \notin {"queued", "running", "completed"}
      OBVIOUS
    <3>1. t.job \in Ids /\ t.job \in 1 .. issued' /\ jobs[t.job].state \notin {"queued", "running", "completed"}
      BY <1>1, <1>3 DEF ExportTask
    <3> QED BY <1>2, <3>1 DEF SameJobs, IsActive
  <2> QED BY <2>1, <2>2 DEF ExportTask
<1>4. ASSUME IntegrityTask(t) PROVE IntegrityTask(t)'
  BY <1>1, <1>2, <1>4 DEF IntegrityTask, SameJobs
<1> QED BY <1>3, <1>4

\* A worker turns to another task, or none does.
LEMMA WorkStep ==
  ASSUME JobsShape, WorkersApart, SameJobs, issued' = issued, NEW k \in Kinds, NEW w \in Workers, NEW task,
         work' = [work EXCEPT ![k][w] = task], IsTask(task),
         \A v \in Workers : v # w /\ Claims(work["export"][v]) =>
           /\ jobs'[work["export"][v].job] = jobs[work["export"][v].job]
           /\ artifact'[work["export"][v].job] = artifact[work["export"][v].job],
         k = "export" => /\ ExportTask(task)'
                         /\ Claims(task) => \A v \in Workers : v # w /\ Claims(work["export"][v]) => work["export"][v].job # task.job,
         k = "integrity" => /\ IntegrityTask(task)'
                            /\ Claims(work["export"][w]) => /\ jobs'[work["export"][w].job] = jobs[work["export"][w].job]
                                                            /\ artifact'[work["export"][w].job] = artifact[work["export"][w].job]
  PROVE  WorkersApart'
<1>1. /\ DOMAIN work' = Kinds /\ \A l \in Kinds : DOMAIN work'[l] = Workers
      /\ work'[k][w] = task
      /\ \A l \in Kinds, v \in Workers : l # k \/ v # w => work'[l][v] = work[l][v]
  BY DEF WorkersApart
<1>2. {"export", "integrity"} = Kinds
  BY DEF Kinds
<1>3. \A l \in Kinds, v \in Workers : IsTask(work'[l][v])
  BY <1>1 DEF WorkersApart
<1>4. ASSUME NEW v \in Workers, v # w \/ k # "export"
      PROVE  ExportTask(work["export"][v])'
  <2>1. PICK t : t = work["export"][v]
    OBVIOUS
  <2>2. work'["export"][v] = t
    BY <1>1, <1>2, <1>4, <2>1
  <2>3. ExportTask(t)
    BY <2>1 DEF WorkersApart
  <2>4. t.step # "idle" => t.job \in 1 .. issued
    BY <2>3 DEF ExportTask, Claims
  <2>5. Claims(t) => jobs'[t.job] = jobs[t.job] /\ artifact'[t.job] = artifact[t.job]
    BY <1>2, <1>4, <2>1
  <2>6. ExportTask(t)'
    BY <2>3, <2>4, <2>5, TaskStays
  <2> QED BY <2>2, <2>6 DEF ExportTask, Claims
<1>5. ASSUME NEW v \in Workers, v # w \/ k # "integrity"
      PROVE  IntegrityTask(work["integrity"][v])'
  <2>1. PICK t : t = work["integrity"][v]
    OBVIOUS
  <2>2. work'["integrity"][v] = t
    BY <1>1, <1>2, <1>5, <2>1
  <2>3. IntegrityTask(t)
    BY <2>1 DEF WorkersApart
  <2>4. t.step # "idle" => t.job \in 1 .. issued /\ t.job \in Ids /\ jobs[t.job].kind \in {"integrity", "none"}
    BY JobsAssumption, <2>3 DEF IntegrityTask, JobsShape, Ids
  <2>5. t.step # "idle" => t.job \in 1 .. issued' /\ jobs'[t.job].kind \in {"integrity", "none"}
    BY <2>4 DEF SameJobs, NoJob
  <2> QED BY <2>2, <2>5 DEF IntegrityTask
<1>6. \A v \in Workers : ExportTask(work["export"][v])' /\ IntegrityTask(work["integrity"][v])'
  <2> SUFFICES ASSUME NEW v \in Workers
               PROVE  ExportTask(work["export"][v])' /\ IntegrityTask(work["integrity"][v])'
    OBVIOUS
  <2>1. CASE v = w /\ k = "export"
    <3>1. work'["export"][v] = task
      BY <1>1, <2>1
    <3> QED BY <1>5, <2>1, <3>1 DEF ExportTask, Claims
  <2>2. CASE v = w /\ k = "integrity"
    <3>1. work'["integrity"][v] = task
      BY <1>1, <2>2
    <3> QED BY <1>4, <2>2, <3>1 DEF IntegrityTask
  <2>3. CASE v # w
    BY <1>4, <1>5, <2>3
  <2> QED BY <1>2, <2>1, <2>2, <2>3
<1>7. ASSUME NEW u \in Workers, NEW v \in Workers, u # v, Claims(work'["export"][u]), Claims(work'["export"][v])
      PROVE  work'["export"][u].job # work'["export"][v].job
  <2>1. CASE k = "export" /\ u = w
    BY <1>1, <1>2, <1>7, <2>1
  <2>2. CASE k = "export" /\ v = w
    BY <1>1, <1>2, <1>7, <2>2
  <2>3. CASE k = "integrity" \/ (u # w /\ v # w)
    <3>1. work'["export"][u] = work["export"][u] /\ work'["export"][v] = work["export"][v]
      BY <1>1, <1>2, <2>3
    <3> QED BY <1>7, <3>1 DEF WorkersApart
  <2> QED BY <1>2, <2>1, <2>2, <2>3
<1> QED BY <1>1, <1>3, <1>6, <1>7 DEF WorkersApart, Claims, IsTask

\* No worker turns to another task.
LEMMA WorkSame ==
  ASSUME JobsShape, WorkersApart, SameJobs, issued' = issued, work' = work,
         \A v \in Workers : Claims(work["export"][v]) =>
           /\ jobs'[work["export"][v].job] = jobs[work["export"][v].job]
           /\ artifact'[work["export"][v].job] = artifact[work["export"][v].job]
  PROVE  WorkersApart'
<1>1. ASSUME NEW v \in Workers
      PROVE  ExportTask(work["export"][v])' /\ IntegrityTask(work["integrity"][v])'
  <2>1. PICK t, u : t = work["export"][v] /\ u = work["integrity"][v]
    OBVIOUS
  <2>2. ExportTask(t) /\ IntegrityTask(u)
    BY <2>1 DEF WorkersApart
  <2>3. ExportTask(t)'
    <3>1. t.step # "idle" => t.job \in 1 .. issued
      BY <2>2 DEF ExportTask, Claims
    <3> QED BY <2>1, <2>2, <3>1, TaskStays
  <2>4. IntegrityTask(u)'
    <3>1. u.step # "idle" => u.job \in 1 .. issued /\ u.job \in Ids
      BY JobsAssumption, <2>2 DEF IntegrityTask, JobsShape, Ids
    <3> QED BY <2>2, <3>1 DEF IntegrityTask, SameJobs, NoJob
  <2> QED BY <2>1, <2>3, <2>4 DEF ExportTask, IntegrityTask, Claims
<1>2. \A v, w \in Workers : v # w /\ Claims(work'["export"][v]) /\ Claims(work'["export"][w]) => work'["export"][v].job # work'["export"][w].job
  BY DEF WorkersApart
<1> QED BY <1>1, <1>2 DEF WorkersApart, Claims, IsTask

LEMMA QueueHead ==
  ASSUME NEW S, NEW q \in Seq(S), q # <<>>
  PROVE  /\ Head(q) = q[1] /\ q[1] \in S /\ 1 \in 1 .. Len(q)
         /\ Tail(q) \in Seq(S) /\ Len(Tail(q)) = Len(q) - 1 /\ Len(q) \in Nat
         /\ \A i \in 1 .. Len(Tail(q)) : Tail(q)[i] = q[i + 1] /\ i + 1 \in 1 .. Len(q)
OBVIOUS

\* A channel loses its head, or none does.
QueueShortens ==
  queue' = queue \/ \E k \in Kinds : queue[k] # <<>> /\ queue' = [queue EXCEPT ![k] = Tail(queue[k])]

Calm == JobsShape' /\ CompletedIsDurable' /\ SameJobs /\ QueueShortens /\ UNCHANGED <<issued, kept, held, tags, removing>>

LEMMA TakeStep ==
  ASSUME JobsInv, NEW k \in Kinds, NEW w \in Workers, TakeJob(k, w)
  PROVE  Calm /\ WorkersApart'
<1>0. JobsShape /\ CompletedIsDurable /\ WorkersApart /\ QueuesOfKind
  BY DEF JobsInv
<1>1. issued \in Nat /\ jobFaults \in Nat /\ DOMAIN artifact = Ids /\ 1 .. issued \subseteq Ids
      /\ (Fault => jobFaults' \in Nat /\ jobFaults' > 0 /\ jobFaults' >= jobFaults)
  BY JobsAssumption, <1>0 DEF JobsShape, Fault, Ids
<1>2. PICK j : j = Head(queue[k])
  OBVIOUS
<1>3. j \in 1 .. issued /\ jobs[j].kind \in {k, "none"}
  <2>1. queue[k] # <<>> /\ queue[k] \in Seq(1 .. issued)
    BY <1>0 DEF TakeJob, QueuesOfKind
  <2>2. Head(queue[k]) = queue[k][1] /\ queue[k][1] \in 1 .. issued /\ 1 \in 1 .. Len(queue[k])
    BY <2>1, QueueHead
  <2> QED BY <1>0, <1>2, <2>2 DEF QueuesOfKind
<1>4. jobs[j].state = "queued" /\ jobs[j].kind = k /\ j \in Ids /\ j <= issued /\ j \in Nat
  <2>1. jobs[j].state = "queued" /\ j \in Ids
    BY <1>1, <1>2, <1>3 DEF TakeJob
  <2>2. jobs[j].kind # "none"
    <3>1. PICK x : x = jobs[j]
      OBVIOUS
    <3>2. x.kind \in Kinds \/ x = NoJob
      BY <1>0, <2>1, <3>1 DEF JobsShape, IsJob
    <3>3. x # NoJob
      BY <2>1, <3>1 DEF NoJob
    <3> QED BY <3>1, <3>2, <3>3 DEF Kinds
  <2> QED BY <1>1, <1>3, <2>1, <2>2
<1>5. /\ QueueShortens /\ UNCHANGED <<issued, kept, held, tags, removing>>
  BY DEF TakeJob, QueueShortens, removal, projections
<1>6. /\ \A i \in Ids : i # j => jobs'[i] = jobs[i] /\ artifact'[i] = artifact[i]
      /\ \A v \in Workers : Claims(work["export"][v]) => work["export"][v].job # j /\ work["export"][v].job \in Ids
  <2>1. \A v \in Workers : Claims(work["export"][v]) => work["export"][v].job # j /\ work["export"][v].job \in Ids
    BY <1>0, <1>1, <1>4 DEF WorkersApart, ExportTask
  <2>2. \A i \in Ids : i # j => jobs'[i] = jobs[i]
    BY <1>0, <1>2 DEF TakeJob, Running, With, JobsShape
  <2>3. \A i \in Ids : i # j => artifact'[i] = artifact[i]
    BY <1>1, <1>2 DEF TakeJob
  <2> QED BY <2>1, <2>2, <2>3
<1>7. CASE jobs' = Running(j) /\ SaveOk(k, results') /\ Sets(k, w, [job |-> j, step |-> "work", err |-> ""])
           /\ artifact' = IF k = "export" THEN [artifact EXCEPT ![j] = "work"] ELSE artifact
  <2>1. Stores({jobs'}) /\ jobFaults' = jobFaults
    BY <1>7, SavesStore
  <2>0. DOMAIN artifact' = Ids /\ jobs' = With(j, "running")
    BY <1>1, <1>7 DEF Running
  <2>2. /\ JobsShape' /\ CompletedIsDurable' /\ \A i \in Ids \ {j} : jobs'[i] = jobs[i]
        /\ jobs'[j].kind = jobs[j].kind /\ jobs'[j].rec = jobs[j].rec /\ jobs'[j].state = "running"
    BY <1>0, <1>1, <1>4, <1>5, <1>6, <2>0, <2>1, SetJob
  <2>3. SameJobs
    BY <1>4, <1>6, <2>2 DEF SameJobs, IsActive
  <2>4. PICK task : task = [job |-> j, step |-> "work", err |-> ""]
    OBVIOUS
  <2>5. IsTask(task) /\ work' = [work EXCEPT ![k][w] = task] /\ task.job = j
    BY <1>7, <2>4 DEF IsTask, Sets
  <2>6. k = "export" => ExportTask(task)'
    BY <1>3, <1>4, <1>5, <2>2, <2>4 DEF ExportTask, Claims
  <2>7. k = "integrity" => IntegrityTask(task)'
    BY <1>3, <1>4, <1>5, <2>2, <2>4 DEF IntegrityTask
  <2>8. WorkersApart'
    BY <1>0, <1>5, <1>6, <2>3, <2>5, <2>6, <2>7, WorkStep
  <2> QED BY <1>5, <2>2, <2>3, <2>8 DEF Calm
<1>8. CASE /\ jobs' = With(j, "failed") /\ SaveFails({Saved(k, Running(j), Verifying(k, j)), Saved(k, jobs', results)})
           /\ UNCHANGED <<results, work, artifact>>
  <2>1. Stores({Running(j), jobs'}) /\ Fault
    BY <1>8, SavesStore
  <2>2. /\ JobsShape' /\ CompletedIsDurable' /\ \A i \in Ids \ {j} : jobs'[i] = jobs[i]
        /\ jobs'[j].kind = jobs[j].kind /\ jobs'[j].rec = jobs[j].rec /\ jobs'[j].state = "failed"
    BY <1>0, <1>1, <1>4, <1>5, <1>6, <1>8, <2>1, SetJob DEF Running
  <2>3. SameJobs
    BY <1>4, <1>6, <2>2 DEF SameJobs, IsActive
  <2>4. WorkersApart'
    BY <1>0, <1>5, <1>6, <1>8, <2>3, WorkSame
  <2> QED BY <1>5, <2>2, <2>3, <2>4 DEF Calm
<1> QED BY <1>2, <1>7, <1>8 DEF TakeJob

\* A task in hand, and the jobs of the other workers.
LEMMA TaskInHand ==
  ASSUME JobsInv, NEW w \in Workers
  PROVE  /\ 1 .. issued \subseteq Ids /\ issued \in Nat /\ jobFaults \in Nat /\ DOMAIN artifact = Ids
         /\ Fault => jobFaults' \in Nat /\ jobFaults' > 0 /\ jobFaults' >= jobFaults
         /\ \A k \in Kinds : IsTask(work[k][w])
         /\ ExportTask(work["export"][w]) /\ IntegrityTask(work["integrity"][w])
         /\ \A v \in Workers : Claims(work["export"][v]) =>
              /\ work["export"][v].job \in Ids /\ jobs[work["export"][v].job].kind = "export"
              /\ jobs[work["export"][v].job].state = "running"
         /\ \A v \in Workers : v # w /\ Claims(work["export"][v]) /\ work["export"][w].step # "idle" =>
              work["export"][v].job # work["export"][w].job
<1>1. JobsShape /\ WorkersApart
  BY DEF JobsInv
<1>2. 1 .. issued \subseteq Ids /\ issued \in Nat /\ jobFaults \in Nat /\ DOMAIN artifact = Ids
  BY JobsAssumption, <1>1 DEF JobsShape, Ids
<1>3. Fault => jobFaults' \in Nat /\ jobFaults' > 0 /\ jobFaults' >= jobFaults
  BY <1>2 DEF Fault
<1>4. /\ \A k \in Kinds : IsTask(work[k][w])
      /\ ExportTask(work["export"][w]) /\ IntegrityTask(work["integrity"][w])
  BY <1>1 DEF WorkersApart
<1>5. \A v \in Workers : Claims(work["export"][v]) =>
        /\ work["export"][v].job \in Ids /\ jobs[work["export"][v].job].kind = "export"
        /\ jobs[work["export"][v].job].state = "running"
  BY <1>1, <1>2 DEF WorkersApart, ExportTask
<1>6. ASSUME NEW v \in Workers, v # w, Claims(work["export"][v]), work["export"][w].step # "idle"
      PROVE  work["export"][v].job # work["export"][w].job
  <2>1. CASE Claims(work["export"][w])
    BY <1>1, <1>6, <2>1 DEF WorkersApart
  <2>2. CASE work["export"][w].step = "sweep"
    BY <1>4, <1>5, <1>6, <2>2 DEF ExportTask
  <2> QED BY <1>4, <1>6, <2>1, <2>2 DEF ExportTask, Claims
<1> QED BY <1>2, <1>3, <1>4, <1>5, <1>6

LEMMA TaskForm ==
  ASSUME NEW t, IsTask(t), NEW s, NEW e
  PROVE  [t EXCEPT !.step = s, !.err = e] = [job |-> t.job, step |-> s, err |-> e]
<1>1. PICK x : x = [t EXCEPT !.step = s]
  OBVIOUS
<1>2. x = [job |-> t.job, step |-> s, err |-> t.err]
  BY <1>1 DEF IsTask
<1>3. [x EXCEPT !.err = e] = [job |-> x.job, step |-> x.step, err |-> e]
  <2>1. x = [job |-> x.job, step |-> x.step, err |-> x.err]
    BY <1>2
  <2> QED BY <2>1
<1>4. [t EXCEPT !.step = s, !.err = e] = [x EXCEPT !.err = e]
  BY <1>1
<1> QED BY <1>2, <1>3, <1>4

\* Where the jobs and their files are left alone.
LEMMA IdleStep ==
  ASSUME JobsInv, UNCHANGED <<jobs, jobsDisk, issued, kept, held, tags, removing, jobFaults>>, QueueShortens,
         DOMAIN artifact' = Ids, \A j \in Ids : jobs[j].state = "completed" => artifact'[j] = artifact[j]
  PROVE  Calm
<1>1. JobsShape /\ CompletedIsDurable
  BY DEF JobsInv
<1>2. JobsShape'
  BY <1>1 DEF JobsShape
<1>3. CompletedIsDurable'
  BY <1>1 DEF CompletedIsDurable
<1> QED BY <1>2, <1>3 DEF Calm, SameJobs

LEMMA ExportStep ==
  ASSUME JobsInv, NEW w \in Workers, Export(w) \/ Publish(w) \/ Sweep(w)
  PROVE  Calm /\ WorkersApart'
<1>0. JobsShape /\ WorkersApart
  BY DEF JobsInv
<1>1. PICK t : t = work["export"][w]
  OBVIOUS
<1>2. /\ IsTask(t) /\ ExportTask(t) /\ t.step \in {"work", "publish", "sweep"}
      /\ t.job \in Ids /\ t.job \in 1 .. issued /\ jobs[t.job].state # "completed" /\ t.step # "idle"
  <2>1. t.step \in {"work", "publish", "sweep"}
    BY <1>1 DEF Export, Publish, Sweep
  <2> QED BY <1>1, <2>1, TaskInHand DEF ExportTask, Claims, Kinds
<1>a. NoWork.step = "idle" /\ ~Claims(NoWork)
  BY DEF NoWork, Claims
<1>3. /\ UNCHANGED <<jobs, jobsDisk, issued, kept, held, tags, removing, jobFaults, queue>>
      /\ DOMAIN artifact' = Ids /\ \A j \in Ids : j # t.job => artifact'[j] = artifact[j]
  BY <1>1, TaskInHand DEF Export, Publish, Sweep, removal, projections
<1>4. Calm
  BY <1>2, <1>3, IdleStep DEF QueueShortens
<1>5. PICK task : /\ Sets("export", w, task) /\ IsTask(task) /\ task.job \in {t.job, 0}
                  /\ \/ task = NoWork
                     \/ /\ task.job = t.job /\ task.step \in {"publish", "finish"} /\ Claims(t)
                        /\ task.step = "finish" /\ task.err = "" => artifact'[t.job] = "output"
  <2>1. CASE Sweep(w)
    BY <1>1, <2>1 DEF Sweep, IsTask, NoWork
  <2>2. CASE Publish(w)
    <3>1. PICK err \in {"", "failed"}, state \in {"work", "output"} :
            /\ err = "" => state = "output"
            /\ Sets("export", w, [t EXCEPT !.step = "finish", !.err = err])
            /\ artifact' = [artifact EXCEPT ![t.job] = state]
      BY <1>1, <2>2 DEF Publish
    <3>2. [t EXCEPT !.step = "finish", !.err = err] = [job |-> t.job, step |-> "finish", err |-> err]
      BY <1>2, TaskForm
    <3>3. artifact'[t.job] = state
      BY <1>2, <3>1, TaskInHand
    <3>4. Claims(t)
      BY <1>1, <2>2 DEF Publish, Claims
    <3> QED BY <3>1, <3>2, <3>3, <3>4 DEF IsTask
  <2>3. CASE Export(w)
    <3>1. PICK err \in Inputs :
            Sets("export", w, [t EXCEPT !.step = IF t.job \in canceled \/ err # "" THEN "finish" ELSE "publish",
                                        !.err = IF t.job \in canceled THEN "canceled" ELSE err])
      BY <1>1, <2>3 DEF Export
    <3>2. PICK s, e : /\ s = IF t.job \in canceled \/ err # "" THEN "finish" ELSE "publish"
                      /\ e = IF t.job \in canceled THEN "canceled" ELSE err
      OBVIOUS
    <3>3. [t EXCEPT !.step = s, !.err = e] = [job |-> t.job, step |-> s, err |-> e]
      BY <1>2, TaskForm
    <3>4. s \in {"publish", "finish"} /\ (s = "finish" => e # "")
      BY <3>1, <3>2 DEF Inputs
    <3>5. Claims(t)
      BY <1>1, <2>3 DEF Export, Claims
    <3>6. PICK task : task = [job |-> t.job, step |-> s, err |-> e]
      OBVIOUS
    <3>7. Sets("export", w, task)
      BY <3>1, <3>2, <3>3, <3>6
    <3>8. IsTask(task) /\ task.job = t.job /\ task.step = s /\ task.err = e
      BY <3>6 DEF IsTask
    <3> QED BY <3>4, <3>5, <3>7, <3>8
  <2> QED BY <2>1, <2>2, <2>3
<1>6. ExportTask(task)'
  <2>1. CASE task = NoWork
    BY <2>1 DEF NoWork, ExportTask, Claims
  <2>2. CASE /\ Claims(t) /\ task.job = t.job /\ task.step \in {"publish", "finish"}
             /\ task.step = "finish" /\ task.err = "" => artifact'[t.job] = "output"
    BY <1>2, <1>3, <2>2 DEF ExportTask, Claims
  <2> QED BY <1>5, <2>1, <2>2
<1>7. \A v \in Workers : v # w /\ Claims(work["export"][v]) =>
        /\ jobs'[work["export"][v].job] = jobs[work["export"][v].job]
        /\ artifact'[work["export"][v].job] = artifact[work["export"][v].job]
        /\ work["export"][v].job # t.job
  BY <1>1, <1>2, <1>3, TaskInHand
<1>8. Claims(task) => task.job = t.job
  BY <1>5, <1>a
<1>9. SameJobs /\ issued' = issued /\ work' = [work EXCEPT !["export"][w] = task]
  BY <1>4, <1>5 DEF Calm, Sets
<1>10. WorkersApart'
  <2>1. IsTask(task) /\ "export" \in Kinds /\ "export" # "integrity"
    BY <1>5 DEF Kinds
  <2>2. \A v \in Workers : v # w /\ Claims(work["export"][v]) =>
          /\ jobs'[work["export"][v].job] = jobs[work["export"][v].job]
          /\ artifact'[work["export"][v].job] = artifact[work["export"][v].job]
    BY <1>7
  <2>3. Claims(task) => \A v \in Workers : v # w /\ Claims(work["export"][v]) => work["export"][v].job # task.job
    BY <1>7, <1>8
  <2> QED BY <1>0, <1>6, <1>9, <2>1, <2>2, <2>3, WorkStep
<1> QED BY <1>4, <1>10

LEMMA VerifyStep ==
  ASSUME JobsInv, NEW w \in Workers, Verify(w) \/ \E k \in Kinds : DropEntry(k, w)
  PROVE  Calm /\ WorkersApart'
<1>0. JobsShape /\ WorkersApart
  BY DEF JobsInv
<1>1. /\ UNCHANGED <<jobs, jobsDisk, issued, kept, held, tags, removing, jobFaults, artifact>> /\ QueueShortens
      /\ DOMAIN artifact' = Ids
  BY TaskInHand DEF Verify, DropEntry, removal, projections, QueueShortens
<1>2. Calm
  BY <1>1, IdleStep
<1>3. CASE Verify(w)
  <2>1. PICK t : t = work["integrity"][w]
    OBVIOUS
  <2>2. IsTask(t) /\ IntegrityTask(t) /\ t.step # "idle"
    BY <1>3, <2>1, TaskInHand DEF Verify, Kinds
  <2>3. PICK err \in {"", "failed"} : Sets("integrity", w, [t EXCEPT !.step = "finish", !.err = err])
    BY <1>3, <2>1 DEF Verify
  <2>4. PICK task : task = [t EXCEPT !.step = "finish", !.err = err]
    OBVIOUS
  <2>5. task = [job |-> t.job, step |-> "finish", err |-> err]
    BY <2>2, <2>4 DEF IsTask
  <2>6. IsTask(task) /\ IntegrityTask(task)'
    BY <1>1, <2>2, <2>5 DEF IsTask, IntegrityTask
  <2>7. WorkersApart'
    BY <1>0, <1>1, <1>2, <2>3, <2>4, <2>6, WorkStep DEF Kinds, Sets, Calm
  <2> QED BY <1>2, <2>7
<1>4. CASE \E k \in Kinds : DropEntry(k, w)
  <2>1. work' = work
    BY <1>4 DEF DropEntry
  <2>2. WorkersApart'
    BY <1>0, <1>1, <1>2, <2>1, WorkSame DEF Calm
  <2> QED BY <1>2, <2>2
<1> QED BY <1>3, <1>4

LEMMA FinishIntegrityStep ==
  ASSUME JobsInv, NEW w \in Workers, FinishIntegrity(w)
  PROVE  Calm /\ WorkersApart'
<1>0. JobsShape /\ WorkersApart /\ CompletedIsDurable
  BY DEF JobsInv
<1>1. PICK t, j : t = work["integrity"][w] /\ j = t.job
  OBVIOUS
<1>2. IntegrityTask(t) /\ t.step # "idle" /\ j \in 1 .. issued /\ j \in Ids /\ jobs[j].kind \in {"integrity", "none"} /\ j <= issued
  <2>1. IntegrityTask(t) /\ t.step # "idle"
    BY <1>1, TaskInHand DEF FinishIntegrity
  <2> QED BY <1>1, <2>1, TaskInHand DEF IntegrityTask
<1>3. /\ UNCHANGED <<issued, kept, held, tags, removing, artifact>> /\ QueueShortens /\ Sets("integrity", w, NoWork)
  BY DEF FinishIntegrity, removal, projections, QueueShortens
<1>4. \A v \in Workers : Claims(work["export"][v]) => work["export"][v].job \in Ids /\ jobs[work["export"][v].job].kind = "export"
  BY TaskInHand
<1>5. IsTask(NoWork) /\ IntegrityTask(NoWork)'
  BY DEF IsTask, NoWork, IntegrityTask
<1>6. CASE UNCHANGED <<jobs, jobsDisk, jobFaults>>
  <2>1. Calm
    BY <1>3, <1>6, IdleStep, TaskInHand
  <2>2. WorkersApart'
    BY <1>0, <1>3, <1>5, <1>6, <2>1, WorkStep DEF Calm, Kinds, Sets
  <2> QED BY <2>1, <2>2
<1>7. CASE jobs[j].state = "running"
  <2>1. jobs[j].kind = "integrity"
    <3>1. PICK x : x = jobs[j]
      OBVIOUS
    <3>2. x.kind \in Kinds \/ x = NoJob
      BY <1>0, <1>2, <3>1 DEF JobsShape, IsJob
    <3>3. x # NoJob
      BY <1>7, <3>1 DEF NoJob
    <3> QED BY <1>2, <3>1, <3>2, <3>3 DEF Kinds
  <2>2. PICK done \in {"completed", "failed"} : done = IF t.err = "" THEN "completed" ELSE "failed"
    OBVIOUS
  <2>3. PICK s \in {"completed", "failed"} :
          /\ jobs' = With(j, s) /\ Stores({jobs', With(j, done)}) /\ jobFaults' \in Nat /\ jobFaults' >= jobFaults
          /\ s = "completed" => jobsDisk'.jobs[j].state = "completed"
    <3>1. CASE jobs' = With(j, done) /\ SaveOk("integrity", results')
      <4>1. Stores({jobs', With(j, done)}) /\ jobFaults' = jobFaults /\ jobsDisk' = Saved("integrity", jobs', results')
        <5>1. Stores({jobs'}) /\ jobFaults' = jobFaults /\ jobsDisk' = Saved("integrity", jobs', results')
          BY <3>1, SavesStore DEF Kinds
        <5> QED BY <5>1 DEF Stores
      <4>2. PICK new : new = With(j, done)
        OBVIOUS
      <4>3. new[j] = [kind |-> jobs[j].kind, rec |-> jobs[j].rec, state |-> done]
        BY <1>0, <1>2, <2>1, <4>2, WithForm DEF Kinds
      <4>4. \A res : Saved("integrity", new, res).jobs[j] = new[j]
        BY <1>2, <2>1, <4>3 DEF Saved
      <4>5. jobsDisk'.jobs[j].state = done
        BY <3>1, <4>1, <4>2, <4>3, <4>4
      <4> QED BY <3>1, <4>1, <4>5, TaskInHand
    <3>2. ASSUME NEW verdict, jobs' = With(j, "failed"),
                 SaveFails({Saved("integrity", With(j, done), verdict), Saved("integrity", jobs', results')})
          PROVE  jobs' = With(j, "failed") /\ Stores({jobs', With(j, done)}) /\ jobFaults' \in Nat /\ jobFaults' >= jobFaults
      <4>1. Stores({With(j, done), jobs'}) /\ Fault
        BY <3>2, SavesStore DEF Kinds
      <4> QED BY <3>2, <4>1, TaskInHand DEF Stores
    <3> QED BY <1>1, <1>7, <2>2, <3>1, <3>2 DEF FinishIntegrity
  <2>4. \A new \in {jobs', With(j, done)} : \E state : new = With(j, state)
    BY <2>3
  <2>5. DOMAIN artifact' = Ids
    BY <1>3, TaskInHand
  <2>6. /\ JobsShape' /\ CompletedIsDurable' /\ \A i \in Ids \ {j} : jobs'[i] = jobs[i]
        /\ jobs'[j].kind = jobs[j].kind /\ jobs'[j].rec = jobs[j].rec /\ jobs'[j].state = s
    BY <1>0, <1>2, <1>3, <2>1, <2>3, <2>4, <2>5, SetJob DEF Kinds
  <2>7. SameJobs
    BY <1>7, <2>3, <2>6 DEF SameJobs, IsActive
  <2>8. \A v \in Workers : Claims(work["export"][v]) =>
          /\ jobs'[work["export"][v].job] = jobs[work["export"][v].job]
          /\ artifact'[work["export"][v].job] = artifact[work["export"][v].job]
    BY <1>3, <1>4, <2>1, <2>6
  <2>9. WorkersApart'
    BY <1>0, <1>3, <1>5, <2>7, <2>8, WorkStep DEF Kinds, Sets
  <2> QED BY <1>3, <2>6, <2>7, <2>9 DEF Calm
<1> QED BY <1>1, <1>6, <1>7 DEF FinishIntegrity

LEMMA FinishExportStep ==
  ASSUME JobsInv, NEW w \in Workers, FinishExport(w)
  PROVE  Calm /\ WorkersApart'
<1>0. JobsShape /\ WorkersApart /\ CompletedIsDurable
  BY DEF JobsInv
<1>1. PICK t, j : t = work["export"][w] /\ j = t.job
  OBVIOUS
<1>2. /\ IsTask(t) /\ t.step = "finish" /\ (t.err = "" => artifact[j] = "output")
      /\ j \in 1 .. issued /\ j \in Ids /\ jobs[j].kind = "export" /\ jobs[j].state = "running" /\ j <= issued
  <2>1. IsTask(t) /\ ExportTask(t) /\ t.step = "finish"
    BY <1>1, TaskInHand DEF FinishExport, Kinds
  <2>2. Claims(t)
    BY <2>1 DEF Claims
  <2>3. j \in 1 .. issued /\ jobs[j].kind = "export" /\ jobs[j].state = "running" /\ (t.err = "" => artifact[j] = "output")
    BY <1>1, <2>1, <2>2 DEF ExportTask
  <2>4. 1 .. issued \subseteq Ids /\ issued \in Nat
    BY TaskInHand
  <2>5. j \in Ids /\ j <= issued
    <3>1. j \in 1 .. issued
      BY <2>3
    <3> QED BY <2>4, <3>1
  <2> QED BY <2>1, <2>3, <2>5
<1>3. /\ UNCHANGED <<issued, kept, held, tags, removing, artifact>> /\ QueueShortens /\ DOMAIN artifact' = Ids
  BY TaskInHand DEF FinishExport, removal, projections, QueueShortens
<1>4. \A v \in Workers : v # w /\ Claims(work["export"][v]) => work["export"][v].job \in Ids /\ work["export"][v].job # j
  BY <1>1, <1>2, TaskInHand
<1>5. PICK sweeps : sweeps = [t EXCEPT !.step = "sweep"]
  OBVIOUS
<1>6. sweeps.step = "sweep" /\ sweeps.job = j /\ IsTask(sweeps)
  BY <1>1, <1>2, <1>5 DEF IsTask
<1>7. NoWork.step = "idle" /\ IsTask(NoWork)
  BY DEF NoWork, IsTask
<1>8. PICK err, done : /\ err = Outcome(t)
                       /\ done = CASE err = "" -> "completed" [] err = "canceled" -> "canceled" [] OTHER -> "failed"
  OBVIOUS
<1>9. done \in {"completed", "canceled", "failed"} /\ (done = "completed" <=> err = "") /\ (err = "" => t.err = "")
  BY <1>8 DEF Outcome
<1>10. PICK s \in {"completed", "canceled", "failed"}, task \in {NoWork, sweeps} :
         /\ jobs' = With(j, s) /\ Stores({jobs', With(j, done)}) /\ jobFaults' \in Nat /\ jobFaults' >= jobFaults
         /\ s = "completed" => jobsDisk'.jobs[j].state = "completed" /\ artifact[j] = "output"
         /\ task = NoWork <=> s = "completed"
         /\ Sets("export", w, task)
  <2>1. sweeps # NoWork
    BY <1>6, <1>7
  <2>2. CASE jobs' = With(j, done) /\ SaveOk("export", results) /\ Sets("export", w, IF err = "" THEN NoWork ELSE sweeps)
    <3>1. Stores({jobs', With(j, done)}) /\ jobFaults' = jobFaults /\ jobsDisk' = Saved("export", jobs', results)
      <4>1. Stores({jobs'}) /\ jobFaults' = jobFaults /\ jobsDisk' = Saved("export", jobs', results)
        BY <2>2, SavesStore DEF Kinds
      <4> QED BY <4>1 DEF Stores
    <3>2. PICK new : new = With(j, done)
      OBVIOUS
    <3>3. new[j] = [kind |-> jobs[j].kind, rec |-> jobs[j].rec, state |-> done]
      BY <1>0, <1>2, <3>2, WithForm DEF Kinds
    <3>4. j \in Ids /\ new[j].kind = "export" /\ new[j].state = done /\ jobsDisk' = Saved("export", new, results)
      <4>1. new[j].kind = "export" /\ new[j].state = done
        <5>1. jobs[j].kind = "export"
          BY <1>2
        <5>2. new[j].kind = jobs[j].kind
          BY ONLY <3>3
        <5>3. new[j].state = done
          BY ONLY <3>3
        <5> QED BY ONLY <5>1, <5>2, <5>3
      <4>2. jobsDisk' = Saved("export", new, results)
        BY <2>2, <3>1, <3>2
      <4> QED BY <1>2, <4>1, <4>2
    <3>5. jobsDisk'.jobs[j].state = done
      BY <3>4 DEF Saved
    <3>6. PICK task \in {NoWork, sweeps} : task = IF err = "" THEN NoWork ELSE sweeps
      OBVIOUS
    <3>7. jobFaults' \in Nat /\ jobFaults' >= jobFaults
      BY <3>1, TaskInHand
    <3>8. task = NoWork <=> done = "completed"
      BY <1>9, <2>1, <3>6
    <3>9. Sets("export", w, task)
      BY <2>2, <3>6
    <3> QED BY <1>2, <1>9, <2>2, <3>1, <3>5, <3>7, <3>8, <3>9
  <2>3. CASE /\ jobs' = With(j, "failed") /\ Sets("export", w, sweeps)
             /\ SaveFails({Saved("export", With(j, done), results), Saved("export", jobs', results)})
    <3>1. Stores({With(j, done), jobs'}) /\ Fault
      BY <2>3, SavesStore DEF Kinds
    <3>2. Stores({jobs', With(j, done)})
      BY <3>1 DEF Stores
    <3> QED BY <2>1, <2>3, <3>1, <3>2, TaskInHand
  <2> QED BY <1>1, <1>5, <1>8, <2>2, <2>3 DEF FinishExport
<1>11. \A new \in {jobs', With(j, done)} : \E state : new = With(j, state)
  BY <1>10
<1>12. /\ JobsShape' /\ CompletedIsDurable' /\ \A i \in Ids \ {j} : jobs'[i] = jobs[i]
       /\ jobs'[j].kind = jobs[j].kind /\ jobs'[j].rec = jobs[j].rec /\ jobs'[j].state = s
  BY <1>0, <1>2, <1>3, <1>10, <1>11, SetJob DEF Kinds
<1>13. SameJobs
  BY <1>2, <1>10, <1>12 DEF SameJobs, IsActive
<1>14. ExportTask(task)' /\ ~Claims(task) /\ IsTask(task)
  <2>1. CASE task = NoWork
    BY <1>7, <2>1 DEF ExportTask, Claims
  <2>2. CASE task = sweeps /\ s # "completed"
    BY <1>2, <1>3, <1>6, <1>10, <1>12, <2>2 DEF ExportTask, Claims
  <2> QED BY <1>10, <2>1, <2>2
<1>15. \A v \in Workers : v # w /\ Claims(work["export"][v]) =>
          /\ jobs'[work["export"][v].job] = jobs[work["export"][v].job]
          /\ artifact'[work["export"][v].job] = artifact[work["export"][v].job]
  BY <1>3, <1>4, <1>12
<1>16. WorkersApart'
  BY <1>0, <1>3, <1>10, <1>13, <1>14, <1>15, WorkStep DEF Kinds, Sets
<1> QED BY <1>3, <1>12, <1>13, <1>16 DEF Calm

LEMMA QueueGrows ==
  ASSUME NEW S, NEW T, S \subseteq T, NEW q \in Seq(S)
  PROVE  q \in Seq(T) /\ \A i \in 1 .. Len(q) : q[i] \in S
OBVIOUS

\* What the channels hold stays of its Service; an admitted job is appended.
LEMMA QueuesStep ==
  ASSUME JobsShape, QueuesOfKind, issued' \in Nat, issued' >= issued,
         \A i \in 1 .. issued : jobs'[i].kind \in {jobs[i].kind, "none"},
         \/ QueueShortens
         \/ \E k \in Kinds : /\ queue' = [queue EXCEPT ![k] = Append(queue[k], issued + 1)]
                             /\ issued' = issued + 1 /\ jobs'[issued + 1].kind \in {k, "none"}
  PROVE  QueuesOfKind'
<1>1. issued \in Nat
  BY DEF JobsShape
<1>2. \A k \in Kinds : queue[k] \in Seq(1 .. issued) /\ \A i \in 1 .. Len(queue[k]) : jobs[queue[k][i]].kind \in {k, "none"}
  BY DEF QueuesOfKind
<1>3. DOMAIN queue = Kinds
  BY DEF QueuesOfKind
<1>4. ASSUME NEW q, q \in Seq(1 .. issued)
      PROVE  q \in Seq(1 .. issued')
  <2>1. 1 .. issued \subseteq 1 .. issued'
    BY <1>1
  <2> QED BY <1>4, <2>1, QueueGrows
<1>5. ASSUME NEW k \in Kinds, NEW q, q \in Seq(1 .. issued'), DOMAIN queue' = Kinds, queue'[k] = q,
             \A i \in 1 .. Len(q) : jobs'[q[i]].kind \in {k, "none"}
      PROVE  queue'[k] \in Seq(1 .. issued') /\ \A i \in 1 .. Len(queue'[k]) : jobs'[queue'[k][i]].kind \in {k, "none"}
  BY <1>5
<1>6. ASSUME NEW k \in Kinds
      PROVE  /\ queue[k] \in Seq(1 .. issued')
             /\ \A i \in 1 .. Len(queue[k]) : queue[k][i] \in 1 .. issued /\ jobs'[queue[k][i]].kind \in {k, "none"}
  <2>1. PICK q : q = queue[k]
    OBVIOUS
  <2>2. q \in Seq(1 .. issued) /\ \A i \in 1 .. Len(q) : jobs[q[i]].kind \in {k, "none"}
    BY <1>2, <2>1
  <2>3. q \in Seq(1 .. issued')
    BY <1>4, <2>2
  <2>4. \A i \in 1 .. Len(q) : q[i] \in 1 .. issued
    BY <2>2, QueueGrows
  <2>5. \A i \in 1 .. Len(q) : jobs'[q[i]].kind \in {k, "none"}
    BY <2>2, <2>4
  <2> QED BY <2>1, <2>3, <2>4, <2>5
<1>7. CASE queue' = queue
  BY <1>3, <1>6, <1>7 DEF QueuesOfKind
<1>8. ASSUME NEW l \in Kinds, NEW q, queue' = [queue EXCEPT ![l] = q], q \in Seq(1 .. issued'),
             \A i \in 1 .. Len(q) : jobs'[q[i]].kind \in {l, "none"}
      PROVE  QueuesOfKind'
  <2>1. DOMAIN queue' = Kinds /\ queue'[l] = q /\ \A k \in Kinds : k # l => queue'[k] = queue[k]
    BY <1>3, <1>8
  <2>2. \A k \in Kinds : queue'[k] \in Seq(1 .. issued') /\ \A i \in 1 .. Len(queue'[k]) : jobs'[queue'[k][i]].kind \in {k, "none"}
    <3> SUFFICES ASSUME NEW k \in Kinds
                 PROVE  queue'[k] \in Seq(1 .. issued') /\ \A i \in 1 .. Len(queue'[k]) : jobs'[queue'[k][i]].kind \in {k, "none"}
      OBVIOUS
    <3>1. CASE k = l
      BY <1>8, <2>1, <3>1
    <3>2. CASE k # l
      <4>1. queue'[k] = queue[k]
        BY <2>1, <3>2
      <4> QED BY <1>6, <4>1
    <3> QED BY <3>1, <3>2
  <2>3. queue' = [k \in Kinds |-> queue'[k]]
    BY <1>3, <1>8
  <2>4. queue' \in [Kinds -> Seq(1 .. issued')]
    BY <2>2, <2>3
  <2> QED BY <2>2, <2>4 DEF QueuesOfKind
<1>9. CASE \E k \in Kinds : queue[k] # <<>> /\ queue' = [queue EXCEPT ![k] = Tail(queue[k])]
  <2>1. PICK k \in Kinds : queue[k] # <<>> /\ queue' = [queue EXCEPT ![k] = Tail(queue[k])]
    BY <1>9
  <2>2. PICK q : q = queue[k]
    OBVIOUS
  <2>3. q # <<>> /\ q \in Seq(1 .. issued') /\ \A i \in 1 .. Len(q) : jobs'[q[i]].kind \in {k, "none"}
    BY <1>6, <2>1, <2>2
  <2>4. PICK S : S = 1 .. issued'
    OBVIOUS
  <2>5. /\ Tail(q) \in Seq(S)
        /\ \A i \in 1 .. Len(Tail(q)) : Tail(q)[i] = q[i + 1] /\ i + 1 \in 1 .. Len(q)
    BY <2>3, <2>4, QueueHead
  <2>6. \A i \in 1 .. Len(Tail(q)) : jobs'[Tail(q)[i]].kind \in {k, "none"}
    BY <2>3, <2>5
  <2>7. queue' = [queue EXCEPT ![k] = Tail(q)] /\ Tail(q) \in Seq(1 .. issued')
    BY <2>1, <2>2, <2>4, <2>5
  <2> QED BY <1>8, <2>6, <2>7
<1>10. CASE \E k \in Kinds : /\ queue' = [queue EXCEPT ![k] = Append(queue[k], issued + 1)]
                             /\ issued' = issued + 1 /\ jobs'[issued + 1].kind \in {k, "none"}
  <2>1. PICK k \in Kinds : /\ queue' = [queue EXCEPT ![k] = Append(queue[k], issued + 1)]
                           /\ issued' = issued + 1 /\ jobs'[issued + 1].kind \in {k, "none"}
    BY <1>10
  <2>2. PICK q, S, n : q = queue[k] /\ S = 1 .. issued' /\ n = issued + 1
    OBVIOUS
  <2>3. q \in Seq(S) /\ n \in S /\ jobs'[n].kind \in {k, "none"} /\ \A i \in 1 .. Len(q) : jobs'[q[i]].kind \in {k, "none"}
    BY <1>1, <1>6, <2>1, <2>2
  <2>4. Append(q, n) \in Seq(S) /\ \A i \in 1 .. Len(Append(q, n)) : Append(q, n)[i] = n \/ (i \in 1 .. Len(q) /\ Append(q, n)[i] = q[i])
    BY <2>3
  <2>5. \A i \in 1 .. Len(Append(q, n)) : jobs'[Append(q, n)[i]].kind \in {k, "none"}
    BY <2>3, <2>4
  <2> QED BY <1>8, <2>1, <2>2, <2>4, <2>5
<1> QED BY <1>7, <1>9, <1>10 DEF QueueShortens

\* No job becomes active, and nothing of a deletion moves.
LEMMA AloneStays ==
  ASSUME DeletionIsAlone, SameJobs, UNCHANGED <<kept, held, tags>>
  PROVE  DeletionIsAlone'
<1> SUFFICES ASSUME NEW r \in Recordings, JobInProgress(r)'
             PROVE  JobInProgress(r)
  BY DEF DeletionIsAlone
<1>1. PICK k \in Kinds, i \in Ids : jobs'[i].kind = k /\ IsActive(jobs'[i].state) /\ jobs'[i].rec = r
  BY DEF JobInProgress, InProgress, ActiveJobs
<1>2. ~IsActive(NoJob.state)
  BY DEF NoJob, IsActive
<1>3. jobs[i].kind = k /\ IsActive(jobs[i].state) /\ jobs[i].rec = r
  BY <1>1, <1>2 DEF SameJobs
<1> QED BY <1>3 DEF JobInProgress, InProgress, ActiveJobs

LEMMA CalmKeeps ==
  ASSUME JobsInv, JobsShape', CompletedIsDurable', WorkersApart', SameJobs, QueueShortens,
         UNCHANGED <<issued, kept, held, tags>>,
         removing' \subseteq removing \/ \E j \in 1 .. issued : removing' = removing \cup {j} /\ jobs'[j] = NoJob
  PROVE  JobsInv'
<1>1. JobsShape /\ RemovedIsForgotten /\ QueuesOfKind /\ DeletionIsAlone
  BY DEF JobsInv
<1>2. issued \in Nat /\ 1 .. issued \subseteq Ids
  BY JobsAssumption, <1>1 DEF JobsShape, Ids
<1>3. NoJob.kind = "none"
  BY DEF NoJob
<1>4. \A i \in Ids : jobs'[i].kind \in {jobs[i].kind, "none"}
  BY <1>3 DEF SameJobs
<1>5. QueuesOfKind'
  BY <1>1, <1>2, <1>4, QueuesStep
<1>6. \A i \in Ids : jobs[i] = NoJob => jobs'[i] = NoJob
  <2> SUFFICES ASSUME NEW i \in Ids, jobs[i] = NoJob PROVE jobs'[i] = NoJob
    OBVIOUS
  <2>1. jobs'[i].kind = "none"
    BY <1>3, <1>4
  <2>2. jobs'[i].kind \in Kinds \/ jobs'[i] = NoJob
    BY DEF JobsShape, IsJob
  <2> QED BY <2>1, <2>2 DEF Kinds
<1>7. RemovedIsForgotten'
  BY <1>1, <1>2, <1>6 DEF RemovedIsForgotten
<1>8. DeletionIsAlone'
  BY <1>1, AloneStays
<1> QED BY <1>5, <1>7, <1>8 DEF JobsInv

LEMMA WorkerKeeps ==
  ASSUME JobsInv, NEW w \in Workers, WorkerStep(w)
  PROVE  JobsInv'
<1>1. Calm /\ WorkersApart'
  BY TakeStep, VerifyStep, FinishIntegrityStep, ExportStep, FinishExportStep DEF WorkerStep
<1> QED BY <1>1, CalmKeeps DEF Calm

LEMMA ControlKeeps ==
  ASSUME JobsInv, NEW j \in Ids, Controls(j)
  PROVE  JobsInv'
<1>1. JobsShape /\ WorkersApart /\ RemovedIsForgotten
  BY DEF JobsInv
<1>2. j \in Nat /\ j >= 1 /\ issued \in Nat /\ 1 .. issued \subseteq Ids
  BY JobsAssumption, <1>1 DEF JobsShape, Ids
<1>3. /\ JobsShape' /\ CompletedIsDurable' /\ SameJobs
      /\ UNCHANGED <<issued, queue, work, kept, held, tags>>
      /\ \A i \in Ids : i # j => jobs'[i] = jobs[i] /\ artifact'[i] = artifact[i]
      /\ jobs'[j] = jobs[j] \/ (artifact' = artifact /\ (jobs[j].kind = "export" => jobs[j].state # "running"))
      /\ artifact' = artifact \/ j \in removing
      /\ removing' \subseteq removing \/ (removing' = removing \cup {j} /\ jobs'[j] = NoJob /\ j <= issued)
  BY ControlForm
<1>4. ASSUME NEW v \in Workers, Claims(work["export"][v])
      PROVE  /\ jobs'[work["export"][v].job] = jobs[work["export"][v].job]
             /\ artifact'[work["export"][v].job] = artifact[work["export"][v].job]
  <2>1. PICK i : i = work["export"][v].job
    OBVIOUS
  <2>2. i \in Ids /\ jobs[i].kind = "export" /\ jobs[i].state = "running"
    BY <1>2, <1>4, <2>1, <1>1 DEF WorkersApart, ExportTask
  <2>3. i \notin removing
    BY <1>1, <2>2 DEF RemovedIsForgotten, NoJob
  <2> QED BY <1>3, <2>1, <2>2, <2>3
<1>5. WorkersApart'
  BY <1>1, <1>3, <1>4, WorkSame
<1> QED BY <1>2, <1>3, <1>5, CalmKeeps DEF QueueShortens

LEMMA StartKeeps ==
  ASSUME JobsInv, NEW r \in Recordings, StartIntegrity(r) \/ StartExport(r)
  PROVE  JobsInv'
<1>0. JobsShape /\ WorkersApart /\ RemovedIsForgotten /\ QueuesOfKind /\ DeletionIsAlone
  BY DEF JobsInv
<1>1. /\ JobsShape' /\ CompletedIsDurable'
      /\ issued' = issued + 1 /\ r \in kept /\ held[r] = "free" /\ UNCHANGED <<kept, held, tags, work, removing>>
      /\ \A i \in Ids \ {issued + 1} : jobs'[i] = jobs[i] \/ (jobs'[i] = NoJob /\ ~IsActive(jobs[i].state) /\ jobs[i].kind \in Kinds)
      /\ \A i \in Ids : jobs'[i] # jobs[i] \/ artifact'[i] = artifact[i]
  BY StartForm
<1>2. PICK k \in Kinds : /\ \/ queue' = queue
                            \/ queue' = [queue EXCEPT ![k] = Append(queue[k], issued + 1)]
                         /\ jobs'[issued + 1] = NoJob \/ jobs'[issued + 1] = [kind |-> k, rec |-> r, state |-> "queued"]
  BY StartForm
<1>3. issued \in Nat /\ 1 .. issued \subseteq Ids /\ issued + 1 \notin 1 .. issued
  BY JobsAssumption, <1>0 DEF JobsShape, Ids
<1>4. NoJob.kind = "none" /\ NoJob.state = "none" /\ NoJob.rec = "none" /\ ~IsActive("none")
  BY DEF NoJob, IsActive
<1>5. QueuesOfKind'
  <2>1. \A i \in 1 .. issued : jobs'[i].kind \in {jobs[i].kind, "none"}
    BY <1>1, <1>3, <1>4
  <2>2. jobs'[issued + 1].kind \in {k, "none"}
    BY <1>2, <1>4
  <2>3. issued' \in Nat /\ issued' >= issued
    BY <1>1, <1>3
  <2> QED BY <1>0, <1>1, <1>2, <2>1, <2>2, <2>3, QueuesStep DEF QueueShortens
<1>6. RemovedIsForgotten'
  <2> SUFFICES ASSUME NEW j \in removing PROVE j \in 1 .. issued' /\ jobs'[j] = NoJob
    BY <1>1 DEF RemovedIsForgotten
  <2>1. j \in 1 .. issued /\ jobs[j] = NoJob
    BY <1>0 DEF RemovedIsForgotten
  <2> QED BY <1>1, <1>3, <2>1
<1>7. WorkersApart'
  <2>1. ASSUME NEW v \in Workers
        PROVE  ExportTask(work["export"][v])' /\ IntegrityTask(work["integrity"][v])'
    <3>1. PICK t, u : t = work["export"][v] /\ u = work["integrity"][v]
      OBVIOUS
    <3>2. ExportTask(t) /\ IntegrityTask(u)
      BY <1>0, <3>1 DEF WorkersApart
    <3>3. \A i \in 1 .. issued : i \in 1 .. issued' /\ (jobs'[i] = jobs[i] \/ (jobs'[i] = NoJob /\ ~IsActive(jobs[i].state)))
      BY <1>1, <1>3
    <3>4. ExportTask(t)'
      <4>1. Claims(t) => /\ t.job \in 1 .. issued' /\ jobs'[t.job].kind = "export" /\ jobs'[t.job].state = "running"
                         /\ artifact'[t.job] = artifact[t.job]
        <5> SUFFICES ASSUME Claims(t)
                     PROVE  /\ t.job \in 1 .. issued' /\ jobs'[t.job].kind = "export" /\ jobs'[t.job].state = "running"
                            /\ artifact'[t.job] = artifact[t.job]
          OBVIOUS
        <5>1. t.job \in 1 .. issued /\ jobs[t.job].kind = "export" /\ jobs[t.job].state = "running"
          BY <3>2 DEF ExportTask
        <5>2. jobs'[t.job] = jobs[t.job] /\ t.job \in Ids /\ t.job \in 1 .. issued'
          BY <1>3, <3>3, <5>1 DEF IsActive
        <5> QED BY <1>1, <5>1, <5>2
      <4>2. t.step = "sweep" => t.job \in 1 .. issued' /\ jobs'[t.job].state \notin {"queued", "running", "completed"}
        BY <1>4, <3>2, <3>3 DEF ExportTask
      <4> QED BY <3>2, <4>1, <4>2 DEF ExportTask, Claims
    <3>5. IntegrityTask(u)'
      BY <1>4, <3>2, <3>3 DEF IntegrityTask
    <3> QED BY <1>1, <3>1, <3>4, <3>5 DEF ExportTask, IntegrityTask, Claims
  <2>2. \A v, w \in Workers : v # w /\ Claims(work'["export"][v]) /\ Claims(work'["export"][w]) => work'["export"][v].job # work'["export"][w].job
    BY <1>0, <1>1 DEF WorkersApart
  <2> QED BY <1>0, <1>1, <2>1, <2>2 DEF WorkersApart, Claims, IsTask
<1>8. DeletionIsAlone'
  <2> SUFFICES ASSUME NEW q \in Recordings, JobInProgress(q)', held[q] \in {"delete", "retire", "forget"} \/ q \notin kept
               PROVE  JobInProgress(q)
    BY <1>0, <1>1 DEF DeletionIsAlone
  <2>1. PICK l \in Kinds, i \in Ids : jobs'[i].kind = l /\ IsActive(jobs'[i].state) /\ jobs'[i].rec = q
    BY DEF JobInProgress, InProgress, ActiveJobs
  <2>2. i # issued + 1
    BY <1>1, <1>2, <1>4, <2>1
  <2>3. jobs'[i] = jobs[i]
    BY <1>1, <1>4, <2>1, <2>2
  <2> QED BY <2>1, <2>3 DEF JobInProgress, InProgress, ActiveJobs
<1> QED BY <1>1, <1>5, <1>6, <1>7, <1>8 DEF JobsInv

LEMMA CloseKeeps ==
  ASSUME JobsInv, Close
  PROVE  JobsInv'
<1>0. JobsShape /\ WorkersApart /\ CompletedIsDurable
  BY DEF JobsInv
<1>1. /\ UNCHANGED <<issued, queue, work, artifact, removing, kept, held, tags>>
      /\ DOMAIN jobs' = Ids
      /\ \A i \in Ids : jobs'[i] = IF i \in ActiveJobs("integrity") THEN [jobs[i] EXCEPT !.state = "canceled"] ELSE jobs[i]
  BY DEF Close, removal, projections
<1>2. issued \in Nat /\ jobFaults \in Nat /\ DOMAIN artifact = Ids /\ issued' \in issued .. MaxJobs /\ 1 .. issued \subseteq Ids
      /\ (Fault => jobFaults' \in Nat /\ jobFaults' > 0 /\ jobFaults' >= jobFaults)
  BY JobsAssumption, <1>0, <1>1 DEF JobsShape, Fault, Ids
<1>3. \A i \in Ids : IsJob(jobs[i]) /\ (i > issued => jobs[i] = NoJob)
  BY <1>0 DEF JobsShape
<1>4. ASSUME NEW i \in Ids
      PROVE  \/ jobs'[i] = jobs[i]
             \/ /\ jobs'[i] = [kind |-> "integrity", rec |-> jobs[i].rec, state |-> "canceled"]
                /\ jobs[i].kind = "integrity" /\ IsActive(jobs[i].state)
  <2>1. PICK x : x = jobs[i] /\ x = [kind |-> x.kind, rec |-> x.rec, state |-> x.state]
    BY <1>3 DEF IsJob
  <2>2. [x EXCEPT !.state = "canceled"] = [kind |-> x.kind, rec |-> x.rec, state |-> "canceled"]
    BY <2>1
  <2>3. i \in ActiveJobs("integrity") => jobs[i].kind = "integrity" /\ IsActive(jobs[i].state)
    BY DEF ActiveJobs
  <2> QED BY <1>1, <2>1, <2>2, <2>3
<1>5. ~IsActive("canceled") /\ ~IsActive(NoJob.state) /\ NoJob.kind = "none"
  BY DEF IsActive, NoJob
<1>6. \A i \in Ids : jobs'[i] = jobs[i] \/ (jobs'[i].kind = jobs[i].kind /\ jobs'[i].rec = jobs[i].rec /\ jobs'[i].state = "canceled")
  <2> SUFFICES ASSUME NEW i \in Ids, jobs'[i] # jobs[i]
               PROVE  jobs'[i].kind = jobs[i].kind /\ jobs'[i].rec = jobs[i].rec /\ jobs'[i].state = "canceled"
    OBVIOUS
  <2>1. PICK x : x = jobs'[i] /\ x = [kind |-> "integrity", rec |-> jobs[i].rec, state |-> "canceled"] /\ jobs[i].kind = "integrity"
    BY <1>4
  <2>2. x.kind = "integrity" /\ x.rec = jobs[i].rec /\ x.state = "canceled"
    BY ONLY <2>1
  <2> QED BY <2>1, <2>2
<1>7. SameJobs
  BY <1>5, <1>6 DEF SameJobs
<1>8. JobMap(jobs')
  <2> SUFFICES ASSUME NEW i \in Ids PROVE IsJob(jobs'[i]) /\ (i > issued' => jobs'[i] = NoJob)
    BY DEF JobMap
  <2>1. CASE jobs'[i] = jobs[i]
    BY <1>1, <1>3, <2>1
  <2>2. CASE jobs'[i] = [kind |-> "integrity", rec |-> jobs[i].rec, state |-> "canceled"] /\ jobs[i].kind = "integrity"
    <3>1. IsJob(jobs'[i])
      BY <2>2 DEF IsJob, Kinds
    <3>2. ~(i > issued)
      BY <1>3, <1>5, <2>2
    <3> QED BY <1>1, <3>1, <3>2
  <2> QED BY <1>4, <2>1, <2>2
<1>9. Stores({jobs'}) /\ jobFaults' \in Nat /\ jobFaults' >= jobFaults
  <2>1. SaveOk("integrity", results') \/ SaveFails({Saved("integrity", jobs', results')})
    BY DEF Close
  <2> QED BY <1>2, <2>1, SavesStore DEF Kinds
<1>10. JobsShape'
  BY <1>0, <1>1, <1>2, <1>8, <1>9, ShapeStep DEF JobsShape
<1>11. CompletedIsDurable'
  BY <1>0, <1>1, <1>6, <1>9, DurableStep
<1>12. \A v \in Workers : Claims(work["export"][v]) =>
         jobs'[work["export"][v].job] = jobs[work["export"][v].job]
  <2> SUFFICES ASSUME NEW v \in Workers, Claims(work["export"][v])
               PROVE  jobs'[work["export"][v].job] = jobs[work["export"][v].job]
    OBVIOUS
  <2>1. PICK i : i = work["export"][v].job
    OBVIOUS
  <2>2. i \in Ids /\ jobs[i].kind = "export"
    BY <1>0, <1>2, <2>1 DEF WorkersApart, ExportTask
  <2> QED BY <1>4, <2>1, <2>2
<1>13. WorkersApart'
  BY <1>0, <1>1, <1>7, <1>12, WorkSame
<1> QED BY <1>1, <1>7, <1>10, <1>11, <1>13, CalmKeeps DEF QueueShortens

\* A restart finds the files, and nobody works.
LEMMA RestartKeeps ==
  ASSUME JobsInv, Restart
  PROVE  JobsInv'
<1>0. JobsShape /\ DeletionIsAlone
  BY DEF JobsInv
<1>1. /\ DOMAIN jobs' = Ids /\ \A i \in Ids : jobs'[i] = Recovered(i)
      /\ jobsDisk' = [jobs |-> jobs', results |-> results'] /\ artifact' = Cleaned(jobs')
      /\ queue' = [k \in Kinds |-> <<>>] /\ work' = [k \in Kinds |-> [w \in Workers |-> NoWork]] /\ removing' = {}
      /\ held' = [r \in Recordings |-> "free"] /\ issued' = issued /\ Fault
  BY DEF Restart, OpenServices
<1>2. jobFaults' \in Nat /\ DOMAIN artifact' = Ids /\ issued \in Nat
  BY <1>0, <1>1 DEF JobsShape, Fault, Cleaned
<1>3. ~IsActive("failed") /\ ~IsActive(NoJob.state) /\ NoJob.kind = "none"
  BY DEF IsActive, NoJob
<1>4. ASSUME NEW i \in Ids
      PROVE  /\ IsJob(jobs'[i]) /\ (i > issued => jobs'[i] = NoJob) /\ ~IsActive(jobs'[i].state)
             /\ jobs'[i].state = "completed" /\ jobs'[i].kind = "export" => artifact[i] = "output"
  <2>1. PICK x : x = jobsDisk.jobs[i] /\ IsJob(x) /\ (i > issued => x = NoJob)
    BY <1>0 DEF JobsShape
  <2>2. CASE IsActive(x.state) \/ (x.kind = "export" /\ x.state = "completed" /\ artifact[i] # "output")
    <3>1. jobs'[i] = [x EXCEPT !.state = "failed"]
      BY <1>1, <2>1, <2>2 DEF Recovered
    <3>2. [x EXCEPT !.state = "failed"] = [kind |-> x.kind, rec |-> x.rec, state |-> "failed"]
      BY <2>1 DEF IsJob
    <3>3. x # NoJob
      BY <1>3, <2>2
    <3>4. IsJob(jobs'[i])
      BY <2>1, <3>1, <3>2, <3>3 DEF IsJob
    <3> QED BY <1>3, <2>1, <3>1, <3>2, <3>3, <3>4
  <2>3. CASE ~(IsActive(x.state) \/ (x.kind = "export" /\ x.state = "completed" /\ artifact[i] # "output"))
    <3>1. jobs'[i] = x
      BY <1>1, <2>1, <2>3 DEF Recovered
    <3> QED BY <2>1, <2>3, <3>1
  <2> QED BY <2>2, <2>3
<1>5. JobsShape'
  <2>1. jobsDisk'.jobs = jobs' /\ jobsDisk' = [jobs |-> jobsDisk'.jobs, results |-> jobsDisk'.results]
    BY <1>1
  <2> QED BY <1>0, <1>1, <1>2, <1>4, <2>1 DEF JobsShape
<1>6. CompletedIsDurable'
  <2>1. \A i \in Ids : jobs'[i].state = "completed" => artifact'[i] = artifact[i]
    BY <1>1 DEF Cleaned
  <2>2. jobsDisk'.jobs = jobs'
    BY <1>1
  <2> QED BY <1>4, <2>1, <2>2 DEF CompletedIsDurable
<1>7. QueuesOfKind' /\ RemovedIsForgotten'
  BY <1>1, <1>2 DEF QueuesOfKind, RemovedIsForgotten
<1>8. WorkersApart'
  <2>1. \A w \in Workers : work'["export"][w] = NoWork /\ work'["integrity"][w] = NoWork
    BY <1>1 DEF Kinds
  <2>2. /\ DOMAIN work' = Kinds /\ \A k \in Kinds : DOMAIN work'[k] = Workers
        /\ \A k \in Kinds, w \in Workers : IsTask(work'[k][w])
    BY <1>1 DEF NoWork, IsTask
  <2>3. NoWork.step = "idle" /\ NoWork.job = 0
    BY DEF NoWork
  <2>4. ~Claims(NoWork) /\ ExportTask(NoWork)' /\ IntegrityTask(NoWork)'
    BY <2>3 DEF Claims, ExportTask, IntegrityTask
  <2>5. \A w \in Workers : ExportTask(work["export"][w])' /\ IntegrityTask(work["integrity"][w])'
    BY <2>1, <2>4 DEF ExportTask, IntegrityTask, Claims
  <2>6. \A w \in Workers : ~Claims(work'["export"][w])
    BY <2>1, <2>4
  <2> QED BY <2>2, <2>5, <2>6 DEF WorkersApart, Claims, IsTask
<1>9. DeletionIsAlone'
  <2>1. \A r \in Recordings : ~JobInProgress(r)'
    BY <1>4 DEF JobInProgress, InProgress, ActiveJobs
  <2> QED BY <1>1, <2>1 DEF DeletionIsAlone
<1> QED BY <1>5, <1>6, <1>7, <1>8, <1>9 DEF JobsInv

\* The requests that only move tags, locks and the archive.
LEMMA ServerKeeps ==
  ASSUME JobsInv, UNCHANGED services, jobFaults' \in Nat, jobFaults' >= jobFaults, DOMAIN held' = Recordings,
         \A r \in Recordings :
           /\ held'[r] \in {"delete", "retire", "forget"} \/ r \notin kept' => ~JobInProgress(r)
           /\ held'[r] = "retire" => r \notin tags'
  PROVE  JobsInv'
<1>1. UNCHANGED <<jobs, jobsDisk, issued, queue, work, artifact, removing>>
  BY DEF services
<1>2. /\ JobsShape /\ QueuesOfKind /\ WorkersApart /\ RemovedIsForgotten /\ CompletedIsDurable /\ jobFaults \in Nat
  BY DEF JobsInv, JobsShape
<1>3. JobsShape'
  BY <1>1, <1>2 DEF JobsShape
<1>4. QueuesOfKind' /\ RemovedIsForgotten'
  BY <1>1, <1>2 DEF QueuesOfKind, RemovedIsForgotten
<1>5. WorkersApart'
  BY <1>1, <1>2 DEF WorkersApart, ExportTask, IntegrityTask, Claims, IsTask
<1>6. CompletedIsDurable'
  BY <1>1, <1>2 DEF CompletedIsDurable
<1>7. \A r \in Recordings : JobInProgress(r)' => JobInProgress(r)
  BY <1>1 DEF JobInProgress, InProgress, ActiveJobs
<1>8. DeletionIsAlone'
  BY <1>7 DEF DeletionIsAlone
<1> QED BY <1>3, <1>4, <1>5, <1>6, <1>8 DEF JobsInv

LEMMA DeletesKeep ==
  ASSUME JobsInv, NEW r \in Recordings, AppendEvent(r) \/ SetTags(r) \/ Deletes(r)
  PROVE  JobsInv'
<1>1. /\ jobFaults \in Nat /\ DOMAIN held = Recordings
      /\ \A q \in Recordings : /\ held[q] \in {"delete", "retire", "forget"} \/ q \notin kept => ~JobInProgress(q)
                               /\ held[q] = "retire" => q \notin tags
  BY DEF JobsInv, JobsShape, DeletionIsAlone
<1>2. UNCHANGED services
  BY DEF AppendEvent, SetTags, Deletes, ScanRetention, DeleteRecording, RetentionDelete, DeleteData,
       Forget
<1>3. jobFaults' \in Nat /\ jobFaults' >= jobFaults
  BY <1>1 DEF Fault, AppendEvent, SetTags, Deletes, ScanRetention, DeleteRecording, RetentionDelete,
       DeleteData, Forget
<1>4. DOMAIN held' = Recordings /\ \A q \in Recordings \ {r} : held'[q] = held[q] /\ (q \in kept <=> q \in kept') /\ (q \in tags <=> q \in tags')
  BY <1>1 DEF AppendEvent, SetTags, Deletes, ScanRetention, DeleteRecording, RetentionDelete,
       DeleteData, Forget, removal, projections
<1>5. /\ held'[r] \in {"delete", "retire", "forget"} \/ r \notin kept' => ~JobInProgress(r)
      /\ held'[r] = "retire" => r \notin tags'
  <2>1. CASE AppendEvent(r) \/ ScanRetention(r)
    BY <1>1, <2>1 DEF AppendEvent, ScanRetention, removal, projections
  <2>2. CASE SetTags(r)
    BY <1>1, <2>2 DEF SetTags, removal
  <2>3. CASE DeleteRecording(r)
    BY <1>1, <2>3 DEF DeleteRecording, projections
  <2>4. CASE RetentionDelete(r)
    BY <1>1, <2>4 DEF RetentionDelete, StillRetainable, Retainable, projections
  <2>5. CASE DeleteData(r)
    BY <1>1, <2>5 DEF DeleteData, projections
  <2>6. CASE Forget(r)
    BY <1>1, <2>6 DEF Forget
  <2> QED BY <2>1, <2>2, <2>3, <2>4, <2>5, <2>6 DEF Deletes
<1> QED BY <1>1, <1>2, <1>3, <1>4, <1>5, ServerKeeps

LEMMA JobsStep ==
  ASSUME JobsInv, [JobsNext]_jobsVars
  PROVE  JobsInv'
<1>1. CASE UNCHANGED jobsVars
  <2>1. UNCHANGED services /\ UNCHANGED <<kept, held, tags, jobFaults>>
    BY <1>1 DEF jobsVars, removal, projections
  <2> QED BY <2>1, ServerKeeps DEF JobsInv, JobsShape, DeletionIsAlone
<1>2. CASE JobsNext
  BY <1>2, StartKeeps, DeletesKeep, ControlKeeps, WorkerKeeps, CloseKeeps, RestartKeeps DEF JobsNext, Requests
<1> QED BY <1>1, <1>2

\* Whatever jobs run, fail and are recovered in between, a result that a Service
\* reports survives a crash.
THEOREM CompletedJobsAreDurable == JobsSpec => []CompletedIsDurable
<1>1. JobsInit => JobsInv
  BY JobsStart
<1>2. JobsInv /\ [JobsNext]_jobsVars => JobsInv'
  BY JobsStep
<1>3. JobsInv => CompletedIsDurable
  BY DEF JobsInv
<1> QED BY <1>1, <1>2, <1>3, PTL DEF JobsSpec

\* No Recording is deleted under a job, nor by the retention under a tag.
THEOREM RecordingsAreDeletedAlone == JobsSpec => []DeletionIsAlone
<1>1. JobsInit => JobsInv
  BY JobsStart
<1>2. JobsInv /\ [JobsNext]_jobsVars => JobsInv'
  BY JobsStep
<1>3. JobsInv => DeletionIsAlone
  BY DEF JobsInv
<1> QED BY <1>1, <1>2, <1>3, PTL DEF JobsSpec

-----------------------------------------------------------------------------
(* Previews.                                                               *)

IsIndex(x) == x = [items |-> x.items, failed |-> x.failed]

PreviewsShape ==
  /\ DOMAIN index = PreviewRecordings /\ DOMAIN indexDisk = PreviewRecordings /\ DOMAIN dirty = PreviewRecordings
  /\ DOMAIN frames = PreviewRecordings /\ DOMAIN deleting = PreviewRecordings
  /\ DOMAIN archived = PreviewRecordings /\ DOMAIN active = PreviewWorkers
  /\ \A r \in PreviewRecordings : IsIndex(index[r]) /\ IsIndex(indexDisk[r])

\* Neither a resident index nor a saved one lists a frame whose file is missing,
\* deleted Recordings included: the next process forgets who was deleted.
FramesBehindIndexes ==
  \A r \in PreviewRecordings : index[r].items \subseteq frames[r] /\ indexDisk[r].items \subseteq frames[r]

\* What DeleteForget leaves of a Recording in memory, and nothing brings back.
Forgotten(r) ==
  /\ r \notin mode /\ index[r] = NoIndex /\ dirty[r] = 0
  /\ \A w \in PreviewWorkers : Busy(w) => active[w].rec # r

\* How far a deletion came, and what is gone by then.
PreviewDeletions ==
  \A r \in PreviewRecordings :
    /\ deleting[r] # "none" => ~archived[r]
    /\ deleting[r] \in {"waiting", "files", "tree"} => r \in tomb
    /\ deleting[r] \in {"files", "tree", "done"} => Forgotten(r)
    /\ deleting[r] \in {"tree", "done"} => r \notin modeDisk
    /\ deleting[r] = "done" => frames[r] = {} /\ indexDisk[r] = NoIndex

PreviewsInv == PreviewsShape /\ FramesBehindIndexes /\ PreviewDeletions

LEMMA NoIndexIsIndex == IsIndex(NoIndex) /\ IsIndex(EmptyIndex) /\ NoIndex.items = {} /\ EmptyIndex.items = {}
BY DEF IsIndex, NoIndex, EmptyIndex

LEMMA PreviewsStart ==
  ASSUME PreviewsInit
  PROVE  PreviewsInv
<1>1. PreviewsShape
  BY NoIndexIsIndex DEF PreviewsInit, PreviewsShape
<1>2. FramesBehindIndexes
  BY NoIndexIsIndex DEF PreviewsInit, FramesBehindIndexes
<1>3. PreviewDeletions
  BY DEF PreviewsInit, PreviewDeletions
<1> QED BY <1>1, <1>2, <1>3 DEF PreviewsInv

\* What is loaded of a Recording is an index, and its frames are there.
LEMMA LoadedIsIndex ==
  ASSUME PreviewsShape, FramesBehindIndexes, NEW r \in PreviewRecordings
  PROVE  IsIndex(Loaded(r)) /\ Loaded(r).items \subseteq frames[r]
BY NoIndexIsIndex DEF PreviewsShape, FramesBehindIndexes, Loaded

\* Storing an index whose frames are there: a victim is resident, so what was
\* forgotten stays so.
LEMMA IndexStored ==
  ASSUME PreviewsShape, FramesBehindIndexes,
         NEW r, NEW idx, r \in PreviewRecordings => IsIndex(idx) /\ idx.items \subseteq frames'[r],
         NEW victims \in Victims(r), NEW save, NEW more, StoreIndex(r, idx, victims, save, more),
         \A v \in PreviewRecordings : frames[v] \subseteq frames'[v]
  PROVE  /\ DOMAIN index' = PreviewRecordings /\ DOMAIN indexDisk' = PreviewRecordings /\ DOMAIN dirty' = PreviewRecordings
         /\ \A v \in PreviewRecordings : IsIndex(index'[v]) /\ IsIndex(indexDisk'[v])
         /\ FramesBehindIndexes'
         /\ \A v \in PreviewRecordings : v # r /\ index[v] = NoIndex /\ dirty[v] = 0 =>
              index'[v] = NoIndex /\ dirty'[v] = 0 /\ indexDisk'[v] = indexDisk[v]
<1>1. \A v \in victims : v \in PreviewRecordings /\ index[v] # NoIndex
  BY DEF Victims, Resident
<1> DEFINE saved == {v \in victims : dirty[v] > 0} \cup (IF save /\ r \notin tomb THEN {r} ELSE {})
<1>2. /\ index' = [v \in PreviewRecordings |-> IF v = r THEN idx ELSE IF v \in victims THEN NoIndex ELSE index[v]]
      /\ indexDisk' = [v \in PreviewRecordings |-> IF v \notin saved THEN indexDisk[v]
                                                   ELSE IF v = r THEN idx ELSE index[v]]
      /\ dirty' = [v \in PreviewRecordings |-> IF v \in saved THEN 0 ELSE IF v = r THEN dirty[v] + more ELSE dirty[v]]
  BY DEF StoreIndex
<1>3. \A v \in saved : v = r \/ v \in victims
  OBVIOUS
<1> HIDE DEF saved
<1>4. \A v \in PreviewRecordings : index'[v] \in {NoIndex, index[v]} \/ (v = r /\ index'[v] = idx)
  BY <1>2
<1>5. \A v \in PreviewRecordings : indexDisk'[v] \in {indexDisk[v], index[v]} \/ (v = r /\ indexDisk'[v] = idx)
  BY <1>2
<1>6. \A v \in PreviewRecordings : IsIndex(index'[v]) /\ index'[v].items \subseteq frames'[v]
  BY <1>4, NoIndexIsIndex DEF PreviewsShape, FramesBehindIndexes
<1>7. \A v \in PreviewRecordings : IsIndex(indexDisk'[v]) /\ indexDisk'[v].items \subseteq frames'[v]
  BY <1>5 DEF PreviewsShape, FramesBehindIndexes
<1>8. FramesBehindIndexes'
  BY <1>6, <1>7 DEF FramesBehindIndexes
<1>9. ASSUME NEW v \in PreviewRecordings, v # r, index[v] = NoIndex, dirty[v] = 0
      PROVE  index'[v] = NoIndex /\ dirty'[v] = 0 /\ indexDisk'[v] = indexDisk[v]
  <2>1. v \notin victims /\ v \notin saved
    BY <1>1, <1>3, <1>9
  <2> QED BY <1>2, <1>9, <2>1
<1> QED BY <1>2, <1>6, <1>7, <1>8, <1>9

\* A step that deletes nothing keeps how far deletions are, if it leaves alone
\* what is forgotten.
LEMMA DeletionStays ==
  ASSUME PreviewDeletions, UNCHANGED <<archived, deleting, tomb>>, mode' \subseteq mode \cup {r \in PreviewRecordings : archived[r]},
         modeDisk' \subseteq modeDisk \cup {r \in PreviewRecordings : archived[r]},
         \A r \in PreviewRecordings : deleting[r] \in {"files", "tree", "done"} =>
           /\ index'[r] = NoIndex /\ dirty'[r] = 0 /\ indexDisk'[r] = indexDisk[r] /\ frames'[r] = frames[r]
           /\ \A w \in PreviewWorkers : Busy(w)' => active'[w].rec # r
  PROVE  PreviewDeletions'
<1> SUFFICES ASSUME NEW r \in PreviewRecordings
             PROVE  /\ deleting'[r] # "none" => ~archived'[r]
                    /\ deleting'[r] \in {"waiting", "files", "tree"} => r \in tomb'
                    /\ deleting'[r] \in {"files", "tree", "done"} => Forgotten(r)'
                    /\ deleting'[r] \in {"tree", "done"} => r \notin modeDisk'
                    /\ deleting'[r] = "done" => frames'[r] = {} /\ indexDisk'[r] = NoIndex
  BY DEF PreviewDeletions
<1>1. /\ deleting[r] # "none" => ~archived[r]
      /\ deleting[r] \in {"waiting", "files", "tree"} => r \in tomb
      /\ deleting[r] \in {"files", "tree", "done"} => r \notin mode
      /\ deleting[r] \in {"tree", "done"} => r \notin modeDisk
      /\ deleting[r] = "done" => frames[r] = {} /\ indexDisk[r] = NoIndex
  BY DEF PreviewDeletions, Forgotten
<1>2. deleting[r] \in {"files", "tree", "done"} => r \notin mode'
  BY <1>1
<1> QED BY <1>1, <1>2 DEF Forgotten

\* Steps that touch none of it.
LEMMA PreviewsStutter ==
  ASSUME PreviewsInv, UNCHANGED <<archived, deleting, tomb, mode, modeDisk, index, indexDisk, dirty, frames, active>>
  PROVE  PreviewsInv'
BY DEF PreviewsInv, PreviewsShape, FramesBehindIndexes, PreviewDeletions, Forgotten, Busy

LEMMA SetModeKeeps ==
  ASSUME PreviewsInv, NEW r \in PreviewRecordings, SetMode(r)
  PROVE  PreviewsInv'
<1>1. /\ UNCHANGED <<archived, deleting, tomb, index, indexDisk, dirty, frames, active>> /\ archived[r]
      /\ mode' \subseteq mode \cup {r} /\ modeDisk' \subseteq modeDisk \cup {r}
  BY DEF SetMode, archive, removals, indexes, tasks, policy
<1>2. PreviewsShape' /\ FramesBehindIndexes'
  BY <1>1 DEF PreviewsInv, PreviewsShape, FramesBehindIndexes
<1>3. PreviewDeletions'
  <2>1. \A q \in PreviewRecordings : deleting[q] \in {"files", "tree", "done"} => index[q] = NoIndex /\ dirty[q] = 0
    BY DEF PreviewsInv, PreviewDeletions, Forgotten
  <2>2. \A q \in PreviewRecordings : deleting[q] \in {"files", "tree", "done"} => \A w \in PreviewWorkers : Busy(w)' => active'[w].rec # q
    BY <1>1 DEF PreviewsInv, PreviewDeletions, Forgotten, Busy
  <2> QED BY <1>1, <2>1, <2>2, DeletionStays DEF PreviewsInv
<1> QED BY <1>2, <1>3 DEF PreviewsInv

\* A step that stores the index of a Recording that is not forgotten, and starts
\* and ends tasks of such Recordings only.
LEMMA StoreKeeps ==
  ASSUME PreviewsInv, UNCHANGED <<archived, deleting, tomb, mode, modeDisk>>,
         NEW r, NEW idx, r \in PreviewRecordings => IsIndex(idx) /\ idx.items \subseteq frames'[r],
         NEW victims \in Victims(r), NEW save, NEW more, StoreIndex(r, idx, victims, save, more),
         DOMAIN frames' = PreviewRecordings, \A v \in PreviewRecordings : frames[v] \subseteq frames'[v],
         \A v \in PreviewRecordings : v # r => frames'[v] = frames[v],
         r \in PreviewRecordings => deleting[r] \notin {"files", "tree", "done"},
         DOMAIN active' = PreviewWorkers,
         \A w \in PreviewWorkers : active'[w] = active[w] \/ active'[w] = NoTask \/ active'[w].rec = r
  PROVE  PreviewsInv'
<1>1. /\ DOMAIN index' = PreviewRecordings /\ DOMAIN indexDisk' = PreviewRecordings /\ DOMAIN dirty' = PreviewRecordings
      /\ \A v \in PreviewRecordings : IsIndex(index'[v]) /\ IsIndex(indexDisk'[v])
      /\ FramesBehindIndexes'
      /\ \A v \in PreviewRecordings : v # r /\ index[v] = NoIndex /\ dirty[v] = 0 =>
           index'[v] = NoIndex /\ dirty'[v] = 0 /\ indexDisk'[v] = indexDisk[v]
  BY IndexStored DEF PreviewsInv
<1>2. PreviewsShape'
  BY <1>1 DEF PreviewsInv, PreviewsShape
<1>3. PreviewDeletions'
  <2>1. ASSUME NEW v \in PreviewRecordings, deleting[v] \in {"files", "tree", "done"}
        PROVE  /\ index'[v] = NoIndex /\ dirty'[v] = 0 /\ indexDisk'[v] = indexDisk[v] /\ frames'[v] = frames[v]
               /\ \A w \in PreviewWorkers : Busy(w)' => active'[w].rec # v
    <3>1. v # r /\ index[v] = NoIndex /\ dirty[v] = 0 /\ \A w \in PreviewWorkers : Busy(w) => active[w].rec # v
      BY <2>1 DEF PreviewsInv, PreviewDeletions, Forgotten
    <3>2. \A w \in PreviewWorkers : Busy(w)' => active'[w].rec # v
      BY <3>1 DEF Busy
    <3> QED BY <1>1, <3>1, <3>2
  <2> QED BY <2>1, DeletionStays DEF PreviewsInv
<1> QED BY <1>1, <1>2, <1>3 DEF PreviewsInv

\* A Recording that is kept, previewed and not deleted, or worked on, is not forgotten.
LEMMA InUse ==
  ASSUME PreviewDeletions, NEW r \in PreviewRecordings,
         archived[r] \/ r \in mode \/ \E w \in PreviewWorkers : Busy(w) /\ active[w].rec = r
  PROVE  deleting[r] \notin {"files", "tree", "done"}
BY DEF PreviewDeletions, Forgotten

LEMMA RetryFailedKeeps ==
  ASSUME PreviewsInv, NEW r \in PreviewRecordings, RetryFailed(r)
  PROVE  PreviewsInv'
<1>1. /\ UNCHANGED <<archived, deleting, tomb, mode, modeDisk, frames, active>> /\ archived[r]
  BY DEF RetryFailed, archive, removals, tasks, policy
<1>2. PICK victims \in Victims(r), save \in BOOLEAN : StoreIndex(r, [Loaded(r) EXCEPT !.failed = EmptyIndex.failed], victims, save, 0)
  BY DEF RetryFailed
<1> DEFINE idx == [Loaded(r) EXCEPT !.failed = EmptyIndex.failed]
<1>3. IsIndex(Loaded(r)) /\ Loaded(r).items \subseteq frames[r]
  BY LoadedIsIndex DEF PreviewsInv
<1>4. IsIndex(idx) /\ idx.items = Loaded(r).items
  <2>1. PICK x : x = Loaded(r)
    OBVIOUS
  <2>2. PICK y : y = EmptyIndex.failed
    OBVIOUS
  <2>3. [x EXCEPT !.failed = y] = [items |-> x.items, failed |-> y]
    BY <1>3, <2>1 DEF IsIndex
  <2> QED BY <2>1, <2>2, <2>3 DEF IsIndex
<1>5. deleting[r] \notin {"files", "tree", "done"}
  BY <1>1, InUse DEF PreviewsInv
<1>6. DOMAIN frames = PreviewRecordings /\ DOMAIN active = PreviewWorkers
  BY DEF PreviewsInv, PreviewsShape
<1> HIDE DEF idx
<1>7. StoreIndex(r, idx, victims, save, 0)
  BY <1>2 DEF idx
<1> QED BY <1>1, <1>3, <1>4, <1>5, <1>6, <1>7, StoreKeeps

LEMMA ReconcileKeeps ==
  ASSUME PreviewsInv, NEW due, ReconcileOne(due)
  PROVE  PreviewsInv'
<1> DEFINE r == snap.rec
           idx == RecoveredIndex(r, Loaded(r))
<1>1. /\ UNCHANGED <<archived, deleting, tomb, mode, modeDisk, frames, active>> /\ r \in mode \ tomb
  BY DEF ReconcileOne, archive, removals, policy
<1>2. PICK victims, save : victims \in Victims(r) /\ StoreIndex(r, idx, victims, save, 0)
  BY DEF ReconcileOne
<1>3. r \in PreviewRecordings => IsIndex(idx) /\ idx.items \subseteq frames[r]
  <2>1. SUFFICES ASSUME r \in PreviewRecordings PROVE IsIndex(idx) /\ idx.items \subseteq frames[r]
    OBVIOUS
  <2>2. IsIndex(Loaded(r)) /\ Loaded(r).items \subseteq frames[r]
    BY <2>1, LoadedIsIndex DEF PreviewsInv
  <2>3. PICK x : x = Loaded(r)
    OBVIOUS
  <2>4. PICK found : found = {s \in 1 .. snap.count : s \in frames[r]}
    OBVIOUS
  <2>5. idx = IF r \in checked THEN x ELSE [x EXCEPT !.items = (x.items \cap found) \cup (found \ x.items)]
    BY <2>3, <2>4 DEF RecoveredIndex
  <2>6. CASE r \in checked
    BY <2>2, <2>3, <2>5, <2>6
  <2>7. CASE r \notin checked
    <3>1. idx = [items |-> (x.items \cap found) \cup (found \ x.items), failed |-> x.failed]
      BY <2>2, <2>3, <2>5, <2>7 DEF IsIndex
    <3>2. IsIndex(idx) /\ idx.items = (x.items \cap found) \cup (found \ x.items)
      BY <3>1 DEF IsIndex
    <3> QED BY <2>2, <2>3, <2>4, <3>2
  <2> QED BY <2>6, <2>7
<1>4. r \in PreviewRecordings => deleting[r] \notin {"files", "tree", "done"}
  BY <1>1, InUse DEF PreviewsInv
<1>5. DOMAIN frames = PreviewRecordings /\ DOMAIN active = PreviewWorkers
  BY DEF PreviewsInv, PreviewsShape
<1> HIDE DEF r, idx
<1> QED BY <1>1, <1>2, <1>3, <1>4, <1>5, StoreKeeps

\* The steps of workers that store nothing.
LEMMA WorkersRest ==
  ASSUME PreviewsInv, UNCHANGED <<archived, deleting, tomb, mode, modeDisk, index, indexDisk, dirty, frames>>,
         DOMAIN active' = PreviewWorkers, \A w \in PreviewWorkers : active'[w] = active[w] \/ active'[w] = NoTask
  PROVE  PreviewsInv'
<1>1. PreviewsShape' /\ FramesBehindIndexes'
  BY DEF PreviewsInv, PreviewsShape, FramesBehindIndexes
<1>2. PreviewDeletions'
  <2>1. \A q \in PreviewRecordings : deleting[q] \in {"files", "tree", "done"} => index[q] = NoIndex /\ dirty[q] = 0
    BY DEF PreviewsInv, PreviewDeletions, Forgotten
  <2>2. \A q \in PreviewRecordings : deleting[q] \in {"files", "tree", "done"} => \A w \in PreviewWorkers : Busy(w)' => active'[w].rec # q
    BY DEF PreviewsInv, PreviewDeletions, Forgotten, Busy
  <2> QED BY <2>1, <2>2, DeletionStays DEF PreviewsInv
<1> QED BY <1>1, <1>2 DEF PreviewsInv

LEMMA TakeTaskKeeps ==
  ASSUME PreviewsInv, NEW w \in PreviewWorkers, TakeTask(w)
  PROVE  PreviewsInv'
<1> DEFINE task == Head(taskQueue)
           r == task.rec
           idx == Loaded(r)
<1>1. UNCHANGED <<archived, deleting, tomb, mode, modeDisk, frames>>
  BY DEF TakeTask, archive, removals, policy
<1>2. DOMAIN frames = PreviewRecordings /\ DOMAIN active = PreviewWorkers
  BY DEF PreviewsInv, PreviewsShape
<1>3. CASE UNCHANGED <<active, indexes>>
  <2>1. UNCHANGED <<index, indexDisk, dirty, active>>
    BY <1>3 DEF indexes
  <2> QED BY <1>1, <2>1, PreviewsStutter
<1>4. CASE /\ r \in mode \ tomb
           /\ \E victims \in Victims(r) : StoreIndex(r, idx, victims, FALSE, 0)
           /\ active' = IF task.seg \in idx.items THEN active
                        ELSE [active EXCEPT ![w] = [rec |-> r, seg |-> task.seg, live |-> task.live,
                                                    attempt |-> idx.failed[task.seg] + 1]]
  <2>1. PICK victims \in Victims(r) : StoreIndex(r, idx, victims, FALSE, 0)
    BY <1>4
  <2>2. r \in PreviewRecordings => IsIndex(idx) /\ idx.items \subseteq frames[r]
    BY LoadedIsIndex DEF PreviewsInv
  <2>3. r \in PreviewRecordings => deleting[r] \notin {"files", "tree", "done"}
    BY <1>4, InUse DEF PreviewsInv
  <2>4. DOMAIN active' = PreviewWorkers /\ \A v \in PreviewWorkers : active'[v] = active[v] \/ active'[v].rec = r
    BY <1>2, <1>4
  <2> HIDE DEF r, idx
  <2> QED BY <1>1, <1>2, <2>1, <2>2, <2>3, <2>4, StoreKeeps
<1> QED BY <1>3, <1>4 DEF TakeTask

LEMMA DropResultKeeps ==
  ASSUME PreviewsInv, NEW w \in PreviewWorkers, DropResult(w)
  PROVE  PreviewsInv'
<1>1. /\ UNCHANGED <<archived, deleting, tomb, mode, modeDisk, index, indexDisk, dirty, frames>>
      /\ active' = [active EXCEPT ![w] = NoTask]
  BY DEF DropResult, Cleared, archive, removals, policy, indexes
<1>2. DOMAIN active = PreviewWorkers
  BY DEF PreviewsInv, PreviewsShape
<1> QED BY <1>1, <1>2, WorkersRest

LEMMA FinishTaskKeeps ==
  ASSUME PreviewsInv, NEW w \in PreviewWorkers, NEW outcome \in Outcomes, FinishTask(w, outcome)
  PROVE  PreviewsInv'
<1>1. PICK r, s, attempt :
        /\ r = active[w].rec /\ s = active[w].seg
        /\ attempt = IF outcome = "permanent" \/ active[w].attempt > MaxTaskRetries THEN MaxTaskRetries ELSE active[w].attempt
  OBVIOUS
<1>2. PICK idx : idx = Indexed(Loaded(r), s, outcome = "frame", attempt)
  OBVIOUS
<1>3. /\ UNCHANGED <<archived, deleting, tomb, mode, modeDisk>> /\ Busy(w)
      /\ frames' = IF outcome = "frame" THEN [frames EXCEPT ![r] = frames[r] \cup {s}] ELSE frames
      /\ active' = [active EXCEPT ![w] = NoTask]
  BY <1>1 DEF FinishTask, Published, Cleared, archive, removals, policy
<1>4. PICK victims, save : victims \in Victims(r) /\ StoreIndex(r, idx, victims, save, 1)
  BY <1>1, <1>2 DEF FinishTask
<1>5. DOMAIN frames = PreviewRecordings /\ DOMAIN active = PreviewWorkers
  BY DEF PreviewsInv, PreviewsShape
<1>6. /\ DOMAIN frames' = PreviewRecordings /\ \A v \in PreviewRecordings : v # r => frames'[v] = frames[v]
      /\ \A v \in PreviewRecordings : frames[v] \subseteq frames'[v]
      /\ r \in PreviewRecordings /\ outcome = "frame" => s \in frames'[r]
  BY <1>3, <1>5
<1>7. ASSUME r \in PreviewRecordings PROVE IsIndex(idx) /\ idx.items \subseteq frames'[r]
  <2>1. PICK x : x = Loaded(r)
    OBVIOUS
  <2>2. IsIndex(x) /\ x.items \subseteq frames[r]
    BY <1>7, <2>1, LoadedIsIndex DEF PreviewsInv
  <2>3. CASE outcome = "frame"
    <3>1. PICK y : y = [x EXCEPT !.items = x.items \cup {s}]
      OBVIOUS
    <3>2. y = [items |-> x.items \cup {s}, failed |-> x.failed]
      BY <2>2, <3>1 DEF IsIndex
    <3>3. idx = [y EXCEPT !.failed[s] = 0]
      BY <1>2, <2>1, <2>3, <3>1 DEF Indexed
    <3>4. IsIndex(idx) /\ idx.items = x.items \cup {s}
      BY <3>2, <3>3 DEF IsIndex
    <3> QED BY <1>6, <1>7, <2>2, <2>3, <3>4
  <2>4. CASE outcome # "frame"
    <3>1. idx = [x EXCEPT !.failed[s] = attempt]
      BY <1>2, <2>1, <2>4 DEF Indexed
    <3>2. IsIndex(idx) /\ idx.items = x.items
      BY <2>2, <3>1 DEF IsIndex
    <3> QED BY <1>6, <1>7, <2>2, <3>2
  <2> QED BY <2>3, <2>4
<1>8. r \in PreviewRecordings => deleting[r] \notin {"files", "tree", "done"}
  BY <1>1, <1>3, InUse DEF PreviewsInv
<1>9. DOMAIN active' = PreviewWorkers /\ \A v \in PreviewWorkers : active'[v] = active[v] \/ active'[v] = NoTask
  BY <1>3, <1>5
<1> QED BY <1>3, <1>4, <1>6, <1>7, <1>8, <1>9, StoreKeeps

-----------------------------------------------------------------------------
(* Deletion. *)

\* The steps of a deletion: one Recording moves on, the others stay.
LEMMA DeletionMoves ==
  ASSUME PreviewDeletions, NEW r \in PreviewRecordings,
         DOMAIN deleting = PreviewRecordings, DOMAIN archived = PreviewRecordings,
         NEW step, deleting' = [deleting EXCEPT ![r] = step], step # "none" /\ ~archived'[r],
         \A q \in PreviewRecordings : q # r => archived'[q] = archived[q],
         tomb \subseteq tomb', mode' \subseteq mode, modeDisk' \subseteq modeDisk, active' = active,
         \A q \in PreviewRecordings : index'[q] = index[q] \/ index'[q] = NoIndex,
         \A q \in PreviewRecordings : dirty'[q] = dirty[q] \/ dirty'[q] = 0,
         \A q \in PreviewRecordings : q # r => frames'[q] = frames[q] /\ indexDisk'[q] = indexDisk[q],
         step \in {"waiting", "files", "tree"} => r \in tomb',
         step \in {"files", "tree", "done"} => Forgotten(r)',
         step \in {"tree", "done"} => r \notin modeDisk',
         step = "done" => frames'[r] = {} /\ indexDisk'[r] = NoIndex
  PROVE  PreviewDeletions'
<1>1. deleting'[r] = step /\ \A q \in PreviewRecordings : q # r => deleting'[q] = deleting[q]
  OBVIOUS
<1>2. ASSUME NEW q \in PreviewRecordings, q # r
      PROVE  /\ deleting'[q] # "none" => ~archived'[q]
             /\ deleting'[q] \in {"waiting", "files", "tree"} => q \in tomb'
             /\ deleting'[q] \in {"files", "tree", "done"} => Forgotten(q)'
             /\ deleting'[q] \in {"tree", "done"} => q \notin modeDisk'
             /\ deleting'[q] = "done" => frames'[q] = {} /\ indexDisk'[q] = NoIndex
  <2>1. /\ deleting[q] # "none" => ~archived[q]
        /\ deleting[q] \in {"waiting", "files", "tree"} => q \in tomb
        /\ deleting[q] \in {"files", "tree", "done"} => Forgotten(q)
        /\ deleting[q] \in {"tree", "done"} => q \notin modeDisk
        /\ deleting[q] = "done" => frames[q] = {} /\ indexDisk[q] = NoIndex
    BY DEF PreviewDeletions
  <2>2. Forgotten(q) => Forgotten(q)'
    BY DEF Forgotten, Busy
  <2> QED BY <1>1, <1>2, <2>1, <2>2
<1>3. /\ deleting'[r] # "none" => ~archived'[r]
      /\ deleting'[r] \in {"waiting", "files", "tree"} => r \in tomb'
      /\ deleting'[r] \in {"files", "tree", "done"} => Forgotten(r)'
      /\ deleting'[r] \in {"tree", "done"} => r \notin modeDisk'
      /\ deleting'[r] = "done" => frames'[r] = {} /\ indexDisk'[r] = NoIndex
  BY <1>1
<1> QED BY <1>2, <1>3 DEF PreviewDeletions

LEMMA DeleteKeeps ==
  ASSUME PreviewsInv, NEW r \in PreviewRecordings,
         DeleteArchive(r) \/ DeleteMark(r) \/ DeleteForget(r) \/ DeletePolicyFile(r) \/ DeleteTree(r) \/ DeleteGivesUp(r)
  PROVE  PreviewsInv'
<1> USE DEF archive, policy, indexes, scan, tasks, removals, handoff
<1>1. /\ DOMAIN index = PreviewRecordings /\ DOMAIN indexDisk = PreviewRecordings /\ DOMAIN dirty = PreviewRecordings
      /\ DOMAIN frames = PreviewRecordings /\ DOMAIN deleting = PreviewRecordings
      /\ DOMAIN archived = PreviewRecordings /\ DOMAIN active = PreviewWorkers
      /\ \A q \in PreviewRecordings : IsIndex(index[q]) /\ IsIndex(indexDisk[q])
      /\ FramesBehindIndexes /\ PreviewDeletions
  BY DEF PreviewsInv, PreviewsShape
<1>2. /\ deleting[r] # "none" => ~archived[r]
      /\ deleting[r] \in {"waiting", "files", "tree"} => r \in tomb
      /\ deleting[r] \in {"files", "tree", "done"} => Forgotten(r)
      /\ deleting[r] \in {"tree", "done"} => r \notin modeDisk
  BY <1>1 DEF PreviewDeletions
<1>3. CASE DeleteArchive(r)
  <2>1. /\ archived' = [archived EXCEPT ![r] = FALSE] /\ deleting' = [deleting EXCEPT ![r] = "archive"]
        /\ UNCHANGED <<tomb, mode, modeDisk, index, indexDisk, dirty, frames, active>>
    BY <1>3 DEF DeleteArchive
  <2>2. PreviewDeletions'
    BY <1>1, <2>1, DeletionMoves
  <2> QED BY <1>1, <2>1, <2>2 DEF PreviewsInv, PreviewsShape, FramesBehindIndexes
<1>4. CASE DeleteMark(r)
  <2>1. /\ deleting' = [deleting EXCEPT ![r] = "waiting"] /\ deleting[r] = "archive" /\ tomb' = tomb \cup {r}
        /\ UNCHANGED <<archived, mode, modeDisk, index, indexDisk, dirty, frames, active>>
    BY <1>4 DEF DeleteMark
  <2>2. PreviewDeletions'
    BY <1>1, <1>2, <2>1, DeletionMoves
  <2> QED BY <1>1, <2>1, <2>2 DEF PreviewsInv, PreviewsShape, FramesBehindIndexes
<1>5. CASE DeleteForget(r)
  <2>1. /\ deleting' = [deleting EXCEPT ![r] = "files"] /\ deleting[r] = "waiting" /\ ~Works(r) /\ mode' = mode \ {r}
        /\ index' = [index EXCEPT ![r] = NoIndex] /\ dirty' = [dirty EXCEPT ![r] = 0]
        /\ UNCHANGED <<tomb, archived, modeDisk, indexDisk, frames, active>>
    BY <1>5 DEF DeleteForget
  <2>2. Forgotten(r)'
    BY <1>1, <2>1 DEF Forgotten, Works
  <2>3. \A q \in PreviewRecordings : /\ index'[q] = index[q] \/ index'[q] = NoIndex
                                     /\ dirty'[q] = dirty[q] \/ dirty'[q] = 0
    BY <1>1, <2>1
  <2>4. PreviewDeletions'
    BY <1>1, <1>2, <2>1, <2>2, <2>3, DeletionMoves
  <2>5. PreviewsShape' /\ FramesBehindIndexes'
    BY <1>1, <2>1, <2>3, NoIndexIsIndex DEF PreviewsShape, FramesBehindIndexes
  <2> QED BY <2>4, <2>5 DEF PreviewsInv
<1>6. CASE DeletePolicyFile(r)
  <2>1. PICK step \in {"tree", "failed"} :
          /\ deleting' = [deleting EXCEPT ![r] = step] /\ deleting[r] = "files"
          /\ modeDisk' \subseteq modeDisk /\ (step = "tree" => r \notin modeDisk')
    BY <1>6 DEF DeletePolicyFile
  <2>2. UNCHANGED <<tomb, archived, mode, index, indexDisk, dirty, frames, active>>
    BY <1>6 DEF DeletePolicyFile
  <2>3. Forgotten(r)'
    BY <1>2, <2>1, <2>2 DEF Forgotten, Busy
  <2>4. PreviewDeletions'
    BY <1>1, <1>2, <2>1, <2>2, <2>3, DeletionMoves
  <2> QED BY <1>1, <2>1, <2>2, <2>4 DEF PreviewsInv, PreviewsShape, FramesBehindIndexes
<1>7. CASE DeleteTree(r)
  <2>1. /\ deleting' = [deleting EXCEPT ![r] = "done"] /\ deleting[r] = "tree"
        /\ frames' = [frames EXCEPT ![r] = {}] /\ indexDisk' = [indexDisk EXCEPT ![r] = NoIndex]
        /\ UNCHANGED <<tomb, archived, mode, modeDisk, index, dirty, active>>
    BY <1>7 DEF DeleteTree
  <2>2. Forgotten(r)' /\ index[r] = NoIndex
    BY <1>2, <2>1 DEF Forgotten, Busy
  <2>3. /\ frames'[r] = {} /\ indexDisk'[r] = NoIndex
        /\ \A q \in PreviewRecordings : q # r => frames'[q] = frames[q] /\ indexDisk'[q] = indexDisk[q]
    BY <1>1, <2>1
  <2>4. PreviewDeletions'
    BY <1>1, <1>2, <2>1, <2>2, <2>3, DeletionMoves
  <2>5. FramesBehindIndexes'
    BY <1>1, <2>1, <2>2, <2>3, NoIndexIsIndex DEF FramesBehindIndexes
  <2>6. PreviewsShape'
    BY <1>1, <2>1, <2>3, NoIndexIsIndex DEF PreviewsShape
  <2> QED BY <2>4, <2>5, <2>6 DEF PreviewsInv
<1>8. CASE DeleteGivesUp(r)
  <2>1. /\ deleting' = [deleting EXCEPT ![r] = "failed"] /\ deleting[r] = "waiting"
        /\ UNCHANGED <<tomb, archived, mode, modeDisk, index, indexDisk, dirty, frames, active>>
    BY <1>8 DEF DeleteGivesUp
  <2>2. PreviewDeletions'
    BY <1>1, <1>2, <2>1, DeletionMoves
  <2> QED BY <1>1, <2>1, <2>2 DEF PreviewsInv, PreviewsShape, FramesBehindIndexes
<1> QED BY <1>3, <1>4, <1>5, <1>6, <1>7, <1>8

-----------------------------------------------------------------------------
(* The handoff, closing and the next process. *)

\* Every changed index is saved: what is forgotten is not changed.
LEMMA SaveAllKeeps ==
  ASSUME PreviewsInv, UNCHANGED <<archived, deleting, tomb, mode, modeDisk, index, frames, active>>,
         indexDisk' = SavedAll, dirty' = [r \in PreviewRecordings |-> 0]
  PROVE  PreviewsInv'
<1>1. /\ \A r \in PreviewRecordings : indexDisk'[r] \in {index[r], indexDisk[r]}
      /\ \A r \in PreviewRecordings : dirty[r] = 0 => indexDisk'[r] = indexDisk[r]
      /\ DOMAIN indexDisk' = PreviewRecordings /\ DOMAIN dirty' = PreviewRecordings /\ \A r \in PreviewRecordings : dirty'[r] = 0
  BY DEF SavedAll
<1>2. PreviewsShape' /\ FramesBehindIndexes'
  BY <1>1 DEF PreviewsInv, PreviewsShape, FramesBehindIndexes
<1>3. PreviewDeletions'
  <2>1. \A q \in PreviewRecordings : deleting[q] \in {"files", "tree", "done"} => index[q] = NoIndex /\ dirty[q] = 0
    BY DEF PreviewsInv, PreviewDeletions, Forgotten
  <2>2. \A q \in PreviewRecordings : deleting[q] \in {"files", "tree", "done"} => \A w \in PreviewWorkers : Busy(w)' => active'[w].rec # q
    BY DEF PreviewsInv, PreviewDeletions, Forgotten, Busy
  <2> QED BY <1>1, <2>1, <2>2, DeletionStays DEF PreviewsInv
<1> QED BY <1>2, <1>3 DEF PreviewsInv

LEMMA NextProcessKeeps ==
  ASSUME PreviewsInv, RestartPreviews
  PROVE  PreviewsInv'
<1>1. PICK removed \in {OrphanedPreviews, {}} :
        /\ mode' = modeDisk \ removed /\ modeDisk' = mode' /\ tomb' = removed
        /\ frames' = [r \in PreviewRecordings |-> IF r \in removed THEN {} ELSE frames[r]]
        /\ indexDisk' = [r \in PreviewRecordings |-> IF r \in removed THEN NoIndex ELSE indexDisk[r]]
  BY DEF RestartPreviews, Policies
<1>2. /\ index' = [r \in PreviewRecordings |-> NoIndex] /\ dirty' = [r \in PreviewRecordings |-> 0]
      /\ active' = [w \in PreviewWorkers |-> NoTask] /\ archived' = archived
      /\ deleting' = [r \in PreviewRecordings |-> IF deleting[r] = "done" \/ (~archived[r] /\ tomb' = OrphanedPreviews) THEN "done"
                                                  ELSE IF deleting[r] = "none" THEN "none" ELSE "failed"]
  BY DEF RestartPreviews, archive
<1>3. PreviewsShape' /\ FramesBehindIndexes'
  BY <1>1, <1>2, NoIndexIsIndex DEF PreviewsInv, PreviewsShape, FramesBehindIndexes
<1>4. ASSUME NEW r \in PreviewRecordings
      PROVE  /\ deleting'[r] # "none" => ~archived'[r]
             /\ deleting'[r] \in {"none", "failed", "done"}
             /\ deleting'[r] = "done" => /\ r \notin modeDisk' /\ Forgotten(r)'
                                         /\ frames'[r] = {} /\ indexDisk'[r] = NoIndex
  <2>1. /\ deleting[r] # "none" => ~archived[r]
        /\ deleting[r] = "done" => r \notin modeDisk /\ frames[r] = {} /\ indexDisk[r] = NoIndex
    BY DEF PreviewsInv, PreviewDeletions
  <2>2. deleting'[r] # "none" => ~archived'[r]
    BY <1>2, <2>1
  <2>3. deleting'[r] \in {"none", "failed", "done"}
    BY <1>2
  <2>4. ASSUME deleting'[r] = "done"
        PROVE  r \notin modeDisk' /\ Forgotten(r)' /\ frames'[r] = {} /\ indexDisk'[r] = NoIndex
    <3>1. r \in removed \/ (r \notin modeDisk /\ frames[r] = {} /\ indexDisk[r] = NoIndex)
      <4>1. deleting[r] = "done" \/ (~archived[r] /\ removed = OrphanedPreviews)
        BY <1>1, <1>2, <2>4
      <4>2. ~archived[r] /\ r \notin OrphanedPreviews => r \notin modeDisk /\ frames[r] = {} /\ indexDisk[r] = NoIndex
        BY DEF OrphanedPreviews
      <4> QED BY <2>1, <4>1, <4>2
    <3>2. r \notin modeDisk' /\ frames'[r] = {} /\ indexDisk'[r] = NoIndex
      BY <1>1, <3>1
    <3>3. Forgotten(r)'
      BY <1>1, <1>2, <3>2 DEF Forgotten, Busy
    <3> QED BY <3>2, <3>3
  <2> QED BY <2>2, <2>3, <2>4
<1>5. PreviewDeletions'
  BY <1>4 DEF PreviewDeletions
<1> QED BY <1>3, <1>5 DEF PreviewsInv

LEMMA PreviewsStep ==
  ASSUME PreviewsInv, [PreviewsNext]_previewsVars
  PROVE  PreviewsInv'
<1> USE DEF archive, policy, indexes, scan, tasks, removals, handoff
<1>1. ASSUME NEW r \in PreviewRecordings, CommitSegment(r) \/ EndRecording(r) \/ ReconcileGet(r)
      PROVE  PreviewsInv'
  BY <1>1, PreviewsStutter DEF CommitSegment, EndRecording, ReconcileGet
<1>2. CASE ReconcileSkip \/ PrepareHandoff \/ LoopEnds \/ HandoffFails \/ ResumePreviews \/ ClosePreviews
  BY <1>2, PreviewsStutter DEF ReconcileSkip, PrepareHandoff, LoopEnds, HandoffFails, ResumePreviews, ClosePreviews
<1>3. CASE HandOff \/ CloseSaves
  BY <1>3, SaveAllKeeps DEF HandOff, CloseSaves
<1>4. CASE UNCHANGED previewsVars
  BY <1>4, PreviewsStutter DEF previewsVars
<1> QED BY <1>1, <1>2, <1>3, <1>4, SetModeKeeps, RetryFailedKeeps, DeleteKeeps, ReconcileKeeps, TakeTaskKeeps,
             DropResultKeeps,
          FinishTaskKeeps, NextProcessKeeps DEF PreviewsNext

LEMMA PreviewsInvHolds == PreviewsSpec => []PreviewsInv
<1> QED BY PreviewsStart, PreviewsStep, PTL DEF PreviewsSpec

-----------------------------------------------------------------------------
(* What one pass queues. *)

\* A set of naturals that is not empty has a least element.
LEMMA LeastNatural ==
  ASSUME NEW S \in SUBSET Nat, S # {}
  PROVE  \E n \in S : \A k \in S : n <= k
<1> DEFINE R == OpToRel(<, Nat)
<1>1. IsWellFoundedOn(R, Nat)
  BY NatLessThanWellFounded
<1>2. \A x, y \in Nat : x < y => <<x, y>> \in R
  BY DEF OpToRel
<1> HIDE DEF R
<1>3. PICK n \in S : \A k \in S : ~(<<k, n>> \in R)
  BY <1>1, WFMin
<1>4. \A k \in S : ~(k < n)
  BY <1>2, <1>3
<1> QED BY <1>3, <1>4

\* One turn of the loop, and the loop up to its n-th candidate.
Turn(q, s, wanted, room) == IF s \in wanted \ ToSet(q) /\ Len(q) < room THEN Append(q, s) ELSE q
Turns(f, n, list, wanted, room) ==
  f = [i \in 0 .. n |-> IF i = 0 THEN <<>> ELSE Turn(f[i - 1], list[i], wanted, room)]

\* The loop has a run over any list.
LEMMA LoopRuns ==
  ASSUME NEW list, NEW wanted, NEW room, Len(list) \in Nat
  PROVE  \E f : Turns(f, Len(list), list, wanted, room)
<1> DEFINE Bad == {n \in Nat : ~\E f : Turns(f, n, list, wanted, room)}
<1>1. SUFFICES Bad = {}
  OBVIOUS
<1>2. SUFFICES ASSUME Bad # {} PROVE FALSE
  OBVIOUS
<1>3. PICK n \in Bad : \A k \in Bad : n <= k
  <2>1. Bad \in SUBSET Nat
    OBVIOUS
  <2> HIDE DEF Bad
  <2> QED BY <1>2, <2>1, LeastNatural
<1>4. CASE n = 0
  <2>1. Turns([i \in 0 .. 0 |-> <<>>], 0, list, wanted, room)
    BY DEF Turns
  <2> QED BY <1>3, <1>4, <2>1
<1>5. CASE n # 0
  <2>1. n \in Nat /\ n - 1 \in Nat /\ n - 1 \notin Bad
    BY <1>3, <1>5
  <2>2. PICK f : Turns(f, n - 1, list, wanted, room)
    BY <2>1
  <2>3. PICK g : g = [i \in 0 .. n |-> IF i = n THEN Turn(f[n - 1], list[n], wanted, room) ELSE f[i]]
    OBVIOUS
  <2>4. f = [i \in 0 .. n - 1 |-> IF i = 0 THEN <<>> ELSE Turn(f[i - 1], list[i], wanted, room)]
    BY <2>2 DEF Turns
  <2>5. \A i \in 0 .. n : g[i] = IF i = 0 THEN <<>> ELSE Turn(g[i - 1], list[i], wanted, room)
    <3> SUFFICES ASSUME NEW i \in 0 .. n PROVE g[i] = IF i = 0 THEN <<>> ELSE Turn(g[i - 1], list[i], wanted, room)
      OBVIOUS
    <3>1. CASE i = n
      <4>1. g[i] = Turn(f[n - 1], list[n], wanted, room) /\ g[i - 1] = f[n - 1]
        BY <1>5, <2>1, <2>3, <3>1
      <4> QED BY <1>5, <3>1, <4>1
    <3>2. CASE i # n
      <4>1. i \in 0 .. n - 1 /\ g[i] = f[i] /\ (i # 0 => g[i - 1] = f[i - 1])
        BY <2>1, <2>3, <3>2
      <4>2. f[i] = IF i = 0 THEN <<>> ELSE Turn(f[i - 1], list[i], wanted, room)
        BY <2>4, <4>1
      <4> QED BY <4>1, <4>2
    <3> QED BY <3>1, <3>2
  <2>6. g = [i \in 0 .. n |-> IF i = 0 THEN <<>> ELSE Turn(g[i - 1], list[i], wanted, room)]
    BY <2>3, <2>5
  <2>7. Turns(g, n, list, wanted, room)
    BY <2>6 DEF Turns
  <2> QED BY <1>3, <2>7
<1> QED BY <1>4, <1>5

LEMMA PickedIsRun ==
  ASSUME NEW list, NEW wanted, NEW room, Len(list) \in Nat
  PROVE  \E f : Turns(f, Len(list), list, wanted, room) /\ Picked(list, wanted, room) = f[Len(list)]
<1> DEFINE picked == CHOOSE f : f = [i \in 0 .. Len(list) |->
                       IF i = 0 THEN <<>>
                       ELSE IF list[i] \in wanted \ ToSet(f[i - 1]) /\ Len(f[i - 1]) < room
                            THEN Append(f[i - 1], list[i])
                            ELSE f[i - 1]]
<1>1. Picked(list, wanted, room) = picked[Len(list)]
  BY DEF Picked
<1>2. \E f : f = [i \in 0 .. Len(list) |->
                       IF i = 0 THEN <<>>
                       ELSE IF list[i] \in wanted \ ToSet(f[i - 1]) /\ Len(f[i - 1]) < room
                            THEN Append(f[i - 1], list[i])
                            ELSE f[i - 1]]
  <2>1. PICK f : Turns(f, Len(list), list, wanted, room)
    BY LoopRuns
  <2>2. f = [i \in 0 .. Len(list) |->
               IF i = 0 THEN <<>>
               ELSE IF list[i] \in wanted \ ToSet(f[i - 1]) /\ Len(f[i - 1]) < room
                    THEN Append(f[i - 1], list[i])
                    ELSE f[i - 1]]
    BY <2>1 DEF Turns, Turn
  <2> QED BY <2>2
<1>3. picked = [i \in 0 .. Len(list) |->
                       IF i = 0 THEN <<>>
                       ELSE IF list[i] \in wanted \ ToSet(picked[i - 1]) /\ Len(picked[i - 1]) < room
                            THEN Append(picked[i - 1], list[i])
                            ELSE picked[i - 1]]
  BY <1>2
<1> HIDE DEF picked
<1>4. Turns(picked, Len(list), list, wanted, room)
  BY <1>3 DEF Turns, Turn
<1> QED BY <1>1, <1>4

\* What is queued is wanted, each segment once.
Apart(q, wanted) ==
  /\ q \in Seq(wanted)
  /\ \A i, j \in 1 .. Len(q) : i # j => q[i] # q[j]

LEMMA TurnKeepsApart ==
  ASSUME NEW q, NEW s, NEW wanted, NEW room, Apart(q, wanted)
  PROVE  Apart(Turn(q, s, wanted, room), wanted)
<1>1. CASE s \in wanted \ ToSet(q)
  <2>1. q \in Seq(wanted) /\ s \in wanted /\ Len(q) \in Nat
    BY <1>1 DEF Apart
  <2>2. \A i \in 1 .. Len(q) : q[i] # s
    BY <1>1, <2>1 DEF ToSet
  <2>3. PICK p : p = Append(q, s)
    OBVIOUS
  <2>4. p \in Seq(wanted) /\ Len(p) = Len(q) + 1
    BY <2>1, <2>3
  <2>5. \A i \in 1 .. Len(q) : p[i] = q[i]
    BY <2>1, <2>3
  <2>6. p[Len(q) + 1] = s
    BY <2>1, <2>3
  <2>7. \A i \in 1 .. Len(p) : i \in 1 .. Len(q) \/ i = Len(q) + 1
    BY <2>1, <2>4
  <2>8. \A i, j \in 1 .. Len(p) : i # j => p[i] # p[j]
    BY <2>2, <2>5, <2>6, <2>7 DEF Apart
  <2>9. Apart(p, wanted)
    BY <2>4, <2>8 DEF Apart
  <2> QED BY <2>3, <2>9 DEF Turn
<1>2. CASE s \notin wanted \ ToSet(q)
  BY <1>2 DEF Turn
<1> QED BY <1>1, <1>2

LEMMA PickedIsApart ==
  ASSUME NEW list, NEW wanted, NEW room, Len(list) \in Nat
  PROVE  Apart(Picked(list, wanted, room), wanted)
<1>1. PICK f : Turns(f, Len(list), list, wanted, room) /\ Picked(list, wanted, room) = f[Len(list)]
  BY PickedIsRun
<1>2. \A i \in 0 .. Len(list) : f[i] = IF i = 0 THEN <<>> ELSE Turn(f[i - 1], list[i], wanted, room)
  <2>1. f = [i \in 0 .. Len(list) |-> IF i = 0 THEN <<>> ELSE Turn(f[i - 1], list[i], wanted, room)]
    BY <1>1 DEF Turns
  <2> QED BY <2>1
<1> DEFINE Bad == {n \in 0 .. Len(list) : ~Apart(f[n], wanted)}
<1>3. SUFFICES ASSUME Bad # {} PROVE FALSE
  BY <1>1
<1>4. PICK n \in Bad : \A k \in Bad : n <= k
  <2>1. Bad \in SUBSET Nat
    OBVIOUS
  <2> HIDE DEF Bad
  <2> QED BY <1>3, <2>1, LeastNatural
<1>5. CASE n = 0
  <2>1. f[n] = <<>>
    BY <1>2, <1>4, <1>5
  <2>2. Apart(<<>>, wanted)
    BY DEF Apart
  <2> QED BY <1>4, <2>1, <2>2
<1>6. CASE n # 0
  <2>1. n \in 0 .. Len(list) /\ n - 1 \in 0 .. Len(list) /\ n - 1 \notin Bad
    BY <1>4, <1>6
  <2>2. Apart(f[n - 1], wanted)
    BY <2>1
  <2>3. f[n] = Turn(f[n - 1], list[n], wanted, room)
    BY <1>2, <1>6, <2>1
  <2> QED BY <1>4, <2>2, <2>3, TurnKeepsApart
<1> QED BY <1>5, <1>6

-----------------------------------------------------------------------------
(* The channel and the handoff. *)

PreviewTasks == [rec : PreviewRecordings, seg : Ordinals, live : BOOLEAN]
Key(item) == <<item.rec, item.seg>>

PreviewsTyped ==
  /\ mode \subseteq PreviewRecordings /\ modeDisk \subseteq PreviewRecordings
  /\ count \in [PreviewRecordings -> Nat] /\ cursor \in [PreviewRecordings -> Nat] /\ live \in [PreviewRecordings -> BOOLEAN]
  /\ snap = NoSnap \/ snap \in [rec : PreviewRecordings, count : Nat, live : BOOLEAN]
  /\ taskQueue \in Seq(PreviewTasks)

\* The key of a task in the channel is queued, and no other task has it, unless
\* its Recording is deleted.
QueuedOnce ==
  \A i \in 1 .. Len(taskQueue) :
    \/ taskQueue[i].rec \in tomb
    \/ /\ Key(taskQueue[i]) \in queued
       /\ \A j \in 1 .. Len(taskQueue) : j # i => Key(taskQueue[j]) # Key(taskQueue[i])

\* Once the loop was joined no pass begins, but by a restart asked for earlier.
LoopStops ==
  /\ loop = "off" => snap = NoSnap
  /\ hand \in {"drain", "handed"} /\ ~leftover => loop = "off"

HandoffInv == PreviewsInv /\ PreviewsTyped /\ QueuedOnce /\ LoopStops /\ HandedOffIsIdle

LEMMA HandoffInit ==
  ASSUME PreviewsInit
  PROVE  PreviewsTyped /\ QueuedOnce /\ LoopStops /\ HandedOffIsIdle
<1>1. taskQueue = <<>> /\ mode = {} /\ modeDisk = {} /\ snap = NoSnap /\ hand = "serving" /\ loop = "on"
      /\ count = [r \in PreviewRecordings |-> 0] /\ cursor = count /\ live = [r \in PreviewRecordings |-> TRUE]
  BY DEF PreviewsInit
<1>2. <<>> \in Seq(PreviewTasks) /\ Len(<<>>) = 0
  OBVIOUS
<1> QED BY <1>1, <1>2 DEF PreviewsTyped, QueuedOnce, LoopStops, HandedOffIsIdle

LEMMA TypedStays ==
  ASSUME PreviewsTyped, UNCHANGED <<mode, modeDisk, count, cursor, live, snap, taskQueue>>
  PROVE  PreviewsTyped'
BY DEF PreviewsTyped

\* The channel as it is; a key leaves queued with a deleted Recording only.
LEMMA OnceStays ==
  ASSUME QueuedOnce, taskQueue' = taskQueue, tomb \subseteq tomb', \A key \in queued : key \in queued' \/ key[1] \in tomb'
  PROVE  QueuedOnce'
<1>1. \A x : Key(x)[1] = x.rec
  BY DEF Key
<1> QED BY <1>1 DEF QueuedOnce, Key

\* The loop stays as it is and nothing is given to it.
LEMMA HandStays ==
  ASSUME LoopStops, HandedOffIsIdle, UNCHANGED <<loop, hand, leftover>>,
         snap' = snap \/ snap' = NoSnap \/ loop # "off",
         hand = "handed" /\ ~leftover =>
           /\ queued' \subseteq queued /\ \A w \in PreviewWorkers : Busy(w)' => Busy(w)
           /\ \A r \in PreviewRecordings : dirty[r] = 0 => dirty'[r] = 0
  PROVE  LoopStops' /\ HandedOffIsIdle'
BY DEF LoopStops, HandedOffIsIdle

\* A pass looks at finitely many segments.
LEMMA ListIsFinite ==
  ASSUME PreviewsTyped, snap # NoSnap, NEW from \in Nat, NEW to \in Nat
  PROVE  \A oldest \in Int :
           Len((IF snap.live THEN Reverse(Span(oldest, snap.count)) ELSE <<>>) \o Span(from, to)) \in Nat
<1>1. snap.count \in Nat
  BY DEF PreviewsTyped
<1>2. \A a, b \in Int : Span(a, b) \in Seq(Int)
  BY DEF Span
<1>3. \A q \in Seq(Int) : Reverse(q) \in Seq(Int)
  BY DEF Reverse
<1> TAKE oldest \in Int
<1>4. (IF snap.live THEN Reverse(Span(oldest, snap.count)) ELSE <<>>) \in Seq(Int)
  <2>0. Span(oldest, snap.count) \in Seq(Int)
    <3>1. snap.count \in Int
      BY <1>1
    <3> QED BY <1>2, <3>1
  <2>1. PICK p \in Seq(Int) : p = Span(oldest, snap.count)
    BY <2>0
  <2>2. Reverse(p) \in Seq(Int) /\ <<>> \in Seq(Int)
    BY <1>3
  <2> QED BY <2>1, <2>2
<1>5. Span(from, to) \in Seq(Int)
  BY <1>2
<1> QED BY <1>4, <1>5

LEMMA ChosenIsApart ==
  ASSUME PreviewsTyped, snap # NoSnap, NEW from \in Nat, NEW to \in Nat, NEW idx, NEW due, NEW r
  PROVE  Apart(Chosen(r, idx, due, from, to), {s \in Ordinals : Wanted(r, idx, due, s)})
<1> DEFINE oldest == IF snap.count > LatestBudget THEN snap.count - LatestBudget + 1 ELSE 1
           list == (IF snap.live THEN Reverse(Span(oldest, snap.count)) ELSE <<>>) \o Span(from, to)
           wanted == {s \in Ordinals : Wanted(r, idx, due, s)}
           free == QueueCapacity - Len(taskQueue)
           room == IF free < PassBudget THEN free ELSE PassBudget
<1>1. oldest \in Int
  BY PreviewAssumption DEF PreviewsTyped
<1>2. Len(list) \in Nat
  BY <1>1, ListIsFinite
<1>3. Chosen(r, idx, due, from, to) = Picked(list, wanted, room)
  BY DEF Chosen
<1> HIDE DEF list, wanted, room
<1>4. Apart(Picked(list, wanted, room), wanted)
  BY <1>2, PickedIsApart
<1> QED BY <1>3, <1>4 DEF wanted

\* A sequence followed by another.
LEMMA ConcatForm ==
  ASSUME NEW S, NEW q \in Seq(S), NEW p \in Seq(S)
  PROVE  /\ q \o p \in Seq(S) /\ Len(q) \in Nat /\ Len(q \o p) = Len(q) + Len(p)
         /\ \A i \in 1 .. Len(q) : (q \o p)[i] = q[i]
         /\ \A i \in 1 .. Len(p) : (q \o p)[Len(q) + i] = p[i]
         /\ \A i \in 1 .. Len(q \o p) : i \in 1 .. Len(q) \/ \E k \in 1 .. Len(p) : i = Len(q) + k
<1>1. q \o p \in Seq(S) /\ Len(q) \in Nat /\ Len(p) \in Nat /\ Len(q \o p) = Len(q) + Len(p)
  OBVIOUS
<1>2. \A i \in 1 .. Len(q) : (q \o p)[i] = q[i]
  OBVIOUS
<1>3. \A i \in 1 .. Len(p) : (q \o p)[Len(q) + i] = p[i]
  OBVIOUS
<1>4. ASSUME NEW i \in 1 .. Len(q \o p), i \notin 1 .. Len(q)
      PROVE  \E k \in 1 .. Len(p) : i = Len(q) + k
  <2>1. i - Len(q) \in 1 .. Len(p) /\ i = Len(q) + (i - Len(q))
    BY <1>1, <1>4
  <2> QED BY <2>1
<1> QED BY <1>1, <1>2, <1>3, <1>4

\* What a pass adds to the channel is wanted: it is neither there nor extracted.
LEMMA ReconcileHands ==
  ASSUME HandoffInv, NEW due, ReconcileOne(due)
  PROVE  PreviewsTyped' /\ QueuedOnce' /\ LoopStops' /\ HandedOffIsIdle'
<1> DEFINE r == snap.rec
           idx == RecoveredIndex(r, Loaded(r))
           from == IF cursor[r] >= snap.count THEN 1 ELSE cursor[r] + 1
           to == IF from + PassWindow - 1 < snap.count THEN from + PassWindow - 1 ELSE snap.count
           chosen == Chosen(r, idx, due, from, to)
           added == [i \in 1 .. Len(chosen) |-> [rec |-> r, seg |-> chosen[i], live |-> snap.live]]
<1>1. /\ UNCHANGED <<archived, live, count, deleting, tomb, mode, modeDisk, active, loop, hand, leftover>>
      /\ snap # NoSnap /\ r \in mode \ tomb /\ snap' = NoSnap
      /\ taskQueue' = taskQueue \o added /\ queued' = queued \cup {<<r, s>> : s \in ToSet(chosen)}
      /\ cursor' = [cursor EXCEPT ![r] = NextCursor(from, to)]
  BY DEF ReconcileOne, archive, removals, policy, handoff
<1>2. /\ snap.count \in Nat /\ snap.live \in BOOLEAN /\ r \in PreviewRecordings
      /\ cursor \in [PreviewRecordings -> Nat] /\ taskQueue \in Seq(PreviewTasks) /\ PassWindow \in Nat \ {0}
  BY PreviewAssumption, <1>1 DEF HandoffInv, PreviewsTyped
<1>3. from \in Nat /\ to \in Nat
  BY <1>2
<1>4. Apart(chosen, {s \in Ordinals : Wanted(r, idx, due, s)})
  <2>1. PreviewsTyped /\ snap # NoSnap
    BY <1>1 DEF HandoffInv
  <2>2. \A f, t \in Nat : \A x, q : Apart(Chosen(q, x, due, f, t), {s \in Ordinals : Wanted(q, x, due, s)})
    BY <2>1, ChosenIsApart
  <2> HIDE DEF r, idx, from, to
  <2> QED BY <1>3, <2>2
<1>5. /\ Len(chosen) \in Nat
      /\ \A i \in 1 .. Len(chosen) : chosen[i] \in Ordinals /\ <<r, chosen[i]>> \notin queued
      /\ \A i, j \in 1 .. Len(chosen) : i # j => chosen[i] # chosen[j]
  <2>1. PICK wanted : wanted = {s \in Ordinals : Wanted(r, idx, due, s)}
    OBVIOUS
  <2>2. \A s \in wanted : s \in Ordinals /\ <<r, s>> \notin queued
    BY <2>1 DEF Wanted
  <2>3. chosen \in Seq(wanted) /\ \A i, j \in 1 .. Len(chosen) : i # j => chosen[i] # chosen[j]
    BY <1>4, <2>1 DEF Apart
  <2> HIDE DEF chosen
  <2> QED BY <2>2, <2>3
<1>6. ToSet(chosen) = {chosen[i] : i \in 1 .. Len(chosen)}
  <2>1. DOMAIN chosen = 1 .. Len(chosen)
    BY <1>4 DEF Apart
  <2> QED BY <2>1 DEF ToSet
<1> HIDE DEF chosen
<1>7. added \in Seq(PreviewTasks) /\ Len(added) = Len(chosen)
  <2>1. PICK b \in BOOLEAN : b = snap.live
    BY <1>2
  <2>2. \A s \in Ordinals : [rec |-> r, seg |-> s, live |-> b] \in PreviewTasks
    BY <1>2 DEF PreviewTasks
  <2>3. \A i \in 1 .. Len(chosen) : [rec |-> r, seg |-> chosen[i], live |-> snap.live] \in PreviewTasks
    BY <1>5, <2>1, <2>2
  <2> HIDE DEF r
  <2> QED BY <1>5, <2>3
<1>8. /\ NextCursor(from, to) \in Nat
  BY <1>3 DEF NextCursor
<1>9. \A i \in 1 .. Len(added) : added[i] = [rec |-> r, seg |-> chosen[i], live |-> snap.live]
  BY <1>7
<1> HIDE DEF r, idx, from, to, added
<1>10. /\ taskQueue' \in Seq(PreviewTasks) /\ Len(taskQueue) \in Nat /\ Len(taskQueue') = Len(taskQueue) + Len(added)
       /\ \A i \in 1 .. Len(taskQueue) : taskQueue'[i] = taskQueue[i]
       /\ \A i \in 1 .. Len(added) : taskQueue'[Len(taskQueue) + i] = added[i]
       /\ \A i \in 1 .. Len(taskQueue') : i \in 1 .. Len(taskQueue) \/ \E k \in 1 .. Len(added) : i = Len(taskQueue) + k
  <2>1. taskQueue \in Seq(PreviewTasks) /\ added \in Seq(PreviewTasks) /\ taskQueue' = taskQueue \o added
    BY <1>1, <1>2, <1>7
  <2> QED BY <2>1, ConcatForm
<1>11. PreviewsTyped'
  <2>1. cursor' \in [PreviewRecordings -> Nat]
    BY <1>1, <1>2, <1>8
  <2> QED BY <1>1, <1>10, <2>1 DEF HandoffInv, PreviewsTyped
<1>12. QueuedOnce'
  <2>1. \A k \in 1 .. Len(added) : Key(added[k]) = <<r, chosen[k]>> /\ added[k].rec = r
    <3> SUFFICES ASSUME NEW k \in 1 .. Len(added) PROVE Key(added[k]) = <<r, chosen[k]>> /\ added[k].rec = r
      OBVIOUS
    <3>1. added[k] = [rec |-> r, seg |-> chosen[k], live |-> snap.live]
      BY <1>9
    <3>2. added[k].rec = r /\ added[k].seg = chosen[k]
      BY ONLY <3>1
    <3> QED BY <3>2 DEF Key
  <2>2. ASSUME NEW i \in 1 .. Len(taskQueue), NEW k \in 1 .. Len(added), Key(taskQueue[i]) = Key(added[k])
        PROVE  FALSE
    <3>1. taskQueue[i].rec = r /\ Key(taskQueue[i]) = <<r, chosen[k]>>
      BY <2>1, <2>2 DEF Key
    <3>2. taskQueue[i].rec \notin tomb /\ Key(taskQueue[i]) \notin queued
      BY <1>1, <1>5, <1>7, <3>1
    <3> QED BY <3>2 DEF HandoffInv, QueuedOnce
  <2>3. ASSUME NEW i \in 1 .. Len(added), NEW k \in 1 .. Len(added), i # k
        PROVE  Key(added[i]) # Key(added[k])
    BY <1>5, <1>7, <2>1, <2>3
  <2>4. ASSUME NEW i \in 1 .. Len(taskQueue')
        PROVE  \/ taskQueue'[i].rec \in tomb'
               \/ /\ Key(taskQueue'[i]) \in queued'
                  /\ \A j \in 1 .. Len(taskQueue') : j # i => Key(taskQueue'[j]) # Key(taskQueue'[i])
    <3>1. CASE i \in 1 .. Len(taskQueue)
      <4>1. CASE taskQueue[i].rec \in tomb
        BY <1>1, <1>10, <3>1, <4>1
      <4>2. CASE taskQueue[i].rec \notin tomb
        <5>1. Key(taskQueue[i]) \in queued /\ \A j \in 1 .. Len(taskQueue) : j # i => Key(taskQueue[j]) # Key(taskQueue[i])
          BY <3>1, <4>2 DEF HandoffInv, QueuedOnce
        <5>2. ASSUME NEW j \in 1 .. Len(taskQueue'), j # i PROVE Key(taskQueue'[j]) # Key(taskQueue'[i])
          <6>1. CASE j \in 1 .. Len(taskQueue)
            BY <1>10, <3>1, <5>1, <5>2, <6>1
          <6>2. CASE j \notin 1 .. Len(taskQueue)
            <7>1. PICK k \in 1 .. Len(added) : j = Len(taskQueue) + k
              BY <1>10, <6>2
            <7>2. taskQueue'[j] = added[k]
              BY <1>10, <7>1
            <7> QED BY <1>10, <2>2, <3>1, <7>2
          <6> QED BY <6>1, <6>2
        <5> QED BY <1>1, <1>10, <3>1, <5>1, <5>2
      <4> QED BY <4>1, <4>2
    <3>2. CASE i \notin 1 .. Len(taskQueue)
      <4>1. PICK k \in 1 .. Len(added) : i = Len(taskQueue) + k
        BY <1>10, <3>2
      <4>2. taskQueue'[i] = added[k]
        BY <1>10, <4>1
      <4>3. Key(taskQueue'[i]) \in queued'
        BY <1>1, <1>6, <1>7, <2>1, <4>2
      <4>4. ASSUME NEW j \in 1 .. Len(taskQueue'), j # i PROVE Key(taskQueue'[j]) # Key(taskQueue'[i])
        <5>1. CASE j \in 1 .. Len(taskQueue)
          BY <1>10, <2>2, <4>2, <5>1
        <5>2. CASE j \notin 1 .. Len(taskQueue)
          <6>1. PICK l \in 1 .. Len(added) : j = Len(taskQueue) + l
            BY <1>10, <5>2
          <6>2. taskQueue'[j] = added[l] /\ l # k
            BY <1>10, <4>1, <4>4, <6>1
          <6> QED BY <2>3, <4>2, <6>2
        <5> QED BY <5>1, <5>2
      <4> QED BY <4>3, <4>4
    <3> QED BY <3>1, <3>2
  <2> QED BY <2>4 DEF QueuedOnce
<1>13. LoopStops' /\ HandedOffIsIdle'
  <2>1. loop # "off"
    BY <1>1 DEF HandoffInv, LoopStops
  <2>2. ~(hand = "handed" /\ ~leftover)
    BY <2>1 DEF HandoffInv, LoopStops
  <2> QED BY <1>1, <2>1, <2>2, HandStays DEF HandoffInv
<1> QED BY <1>11, <1>12, <1>13

LEMMA TailForm ==
  ASSUME NEW S, NEW q \in Seq(S), q # <<>>
  PROVE  /\ Tail(q) \in Seq(S) /\ Len(q) \in Nat /\ 1 \in 1 .. Len(q) /\ Head(q) = q[1]
         /\ \A i \in 1 .. Len(Tail(q)) : i + 1 \in 1 .. Len(q) /\ Tail(q)[i] = q[i + 1] /\ i + 1 # 1
         /\ \A i, j \in 1 .. Len(Tail(q)) : i # j => i + 1 # j + 1
OBVIOUS

\* What is taken was queued, or is of a deleted Recording: then it starts nothing.
LEMMA TakeTaskHands ==
  ASSUME HandoffInv, NEW w \in PreviewWorkers, TakeTask(w)
  PROVE  PreviewsTyped' /\ QueuedOnce' /\ LoopStops' /\ HandedOffIsIdle'
<1>1. /\ UNCHANGED <<live, count, cursor, snap, tomb, mode, modeDisk, loop, hand, leftover>>
      /\ taskQueue # <<>> /\ taskQueue' = Tail(taskQueue) /\ queued' = queued \ {Key(Head(taskQueue))}
  BY DEF TakeTask, archive, removals, policy, handoff, scan, Key
<1>2. taskQueue \in Seq(PreviewTasks)
  BY DEF HandoffInv, PreviewsTyped
<1>3. /\ Tail(taskQueue) \in Seq(PreviewTasks) /\ Len(taskQueue) \in Nat /\ 1 \in 1 .. Len(taskQueue) /\ Head(taskQueue) = taskQueue[1]
      /\ \A i \in 1 .. Len(Tail(taskQueue)) : i + 1 \in 1 .. Len(taskQueue) /\ Tail(taskQueue)[i] = taskQueue[i + 1] /\ i + 1 # 1
      /\ \A i, j \in 1 .. Len(Tail(taskQueue)) : i # j => i + 1 # j + 1
  BY <1>1, <1>2, TailForm
<1>4. PreviewsTyped'
  BY <1>1, <1>3 DEF HandoffInv, PreviewsTyped
<1>5. QueuedOnce'
  <2> SUFFICES ASSUME NEW i \in 1 .. Len(taskQueue')
               PROVE  \/ taskQueue'[i].rec \in tomb'
                      \/ /\ Key(taskQueue'[i]) \in queued'
                         /\ \A j \in 1 .. Len(taskQueue') : j # i => Key(taskQueue'[j]) # Key(taskQueue'[i])
    BY DEF QueuedOnce
  <2>1. i + 1 \in 1 .. Len(taskQueue) /\ taskQueue'[i] = taskQueue[i + 1] /\ i + 1 # 1
    BY <1>1, <1>3
  <2>2. CASE taskQueue[i + 1].rec \in tomb
    BY <1>1, <2>1, <2>2
  <2>3. CASE taskQueue[i + 1].rec \notin tomb
    <3>1. Key(taskQueue[i + 1]) \in queued /\ \A j \in 1 .. Len(taskQueue) : j # i + 1 => Key(taskQueue[j]) # Key(taskQueue[i + 1])
      BY <2>1, <2>3 DEF HandoffInv, QueuedOnce
    <3>2. Key(taskQueue[1]) # Key(taskQueue[i + 1])
      BY <1>3, <2>1, <3>1
    <3>3. ASSUME NEW j \in 1 .. Len(taskQueue'), j # i PROVE Key(taskQueue'[j]) # Key(taskQueue'[i])
      <4>1. j + 1 \in 1 .. Len(taskQueue) /\ taskQueue'[j] = taskQueue[j + 1] /\ j + 1 # i + 1
        BY <1>1, <1>3, <3>3
      <4> QED BY <2>1, <3>1, <4>1
    <3> QED BY <1>1, <1>3, <2>1, <3>1, <3>2, <3>3
  <2> QED BY <2>2, <2>3
<1>6. hand = "handed" /\ ~leftover => \A v \in PreviewWorkers : active'[v] = active[v]
  <2>1. SUFFICES ASSUME hand = "handed" /\ ~leftover PROVE \A v \in PreviewWorkers : active'[v] = active[v]
    OBVIOUS
  <2>2. queued = {}
    BY <2>1 DEF HandoffInv, HandedOffIsIdle
  <2>3. Head(taskQueue).rec \in tomb
    BY <1>3, <2>2 DEF HandoffInv, QueuedOnce
  <2>4. active' = active
    BY <2>3 DEF TakeTask
  <2> QED BY <2>4
<1>7. hand = "handed" /\ ~leftover => \A r \in PreviewRecordings : dirty[r] = 0 => dirty'[r] = 0
  <2>1. SUFFICES ASSUME hand = "handed" /\ ~leftover PROVE dirty' = dirty
    OBVIOUS
  <2>2. queued = {}
    BY <2>1 DEF HandoffInv, HandedOffIsIdle
  <2>3. Head(taskQueue).rec \in tomb
    BY <1>3, <2>2 DEF HandoffInv, QueuedOnce
  <2> QED BY <2>3 DEF TakeTask, indexes
<1>8. LoopStops' /\ HandedOffIsIdle'
  <2>1. hand = "handed" /\ ~leftover => \A v \in PreviewWorkers : Busy(v)' => Busy(v)
    BY <1>6 DEF Busy
  <2> QED BY <1>1, <1>7, <2>1, HandStays DEF HandoffInv
<1> QED BY <1>4, <1>5, <1>8

\* A worker that ends its task had one: nothing was handed off.
LEMMA TasksEndHands ==
  ASSUME HandoffInv, NEW w \in PreviewWorkers, DropResult(w) \/ \E outcome \in Outcomes : FinishTask(w, outcome)
  PROVE  PreviewsTyped' /\ QueuedOnce' /\ LoopStops' /\ HandedOffIsIdle'
<1>1. UNCHANGED <<live, count, cursor, snap, tomb, mode, modeDisk, loop, hand, leftover, taskQueue, queued>> /\ Busy(w)
  BY DEF DropResult, FinishTask, archive, removals, policy, handoff, scan
<1>2. ~(hand = "handed" /\ ~leftover)
  BY <1>1 DEF HandoffInv, HandedOffIsIdle
<1> QED BY <1>1, <1>2, TypedStays, OnceStays, HandStays DEF HandoffInv

LEMMA RequestsHand ==
  ASSUME HandoffInv, NEW r \in PreviewRecordings,
         CommitSegment(r) \/ EndRecording(r) \/ SetMode(r) \/ RetryFailed(r) \/ ReconcileGet(r)
  PROVE  PreviewsTyped' /\ QueuedOnce' /\ LoopStops' /\ HandedOffIsIdle'
<1> USE DEF archive, policy, indexes, scan, tasks, removals, handoff
<1>1. UNCHANGED <<taskQueue, queued, tomb, active, loop, hand, leftover, cursor>>
  BY DEF CommitSegment, EndRecording, SetMode, RetryFailed, ReconcileGet
<1>2. QueuedOnce'
  BY <1>1, OnceStays DEF HandoffInv
<1>3. PreviewsTyped'
  <2>0. PreviewsTyped
    BY DEF HandoffInv
  <2>1. CASE CommitSegment(r)
    <3>1. count' = [count EXCEPT ![r] = count[r] + 1] /\ UNCHANGED <<mode, modeDisk, cursor, live, snap, taskQueue>>
      BY <2>1 DEF CommitSegment
    <3> QED BY <2>0, <3>1 DEF PreviewsTyped
  <2>2. CASE EndRecording(r)
    <3>1. live' = [live EXCEPT ![r] = FALSE] /\ UNCHANGED <<mode, modeDisk, cursor, count, snap, taskQueue>>
      BY <2>2 DEF EndRecording
    <3> QED BY <2>0, <3>1 DEF PreviewsTyped
  <2>3. CASE SetMode(r)
    BY <2>0, <2>3 DEF SetMode, PreviewsTyped
  <2>4. CASE RetryFailed(r)
    BY <2>0, <2>4, TypedStays DEF RetryFailed
  <2>5. CASE ReconcileGet(r)
    <3>1. snap' = [rec |-> r, count |-> count[r], live |-> live[r]] /\ UNCHANGED <<mode, modeDisk, cursor, count, live, taskQueue>>
      BY <2>5 DEF ReconcileGet, Snapshot
    <3>2. count[r] \in Nat /\ live[r] \in BOOLEAN
      BY <2>0 DEF PreviewsTyped
    <3>3. PICK n \in Nat, b \in BOOLEAN : n = count[r] /\ b = live[r]
      BY <3>2
    <3>4. snap' \in [rec : PreviewRecordings, count : Nat, live : BOOLEAN]
      BY <3>1, <3>3
    <3> QED BY <2>0, <3>1, <3>4 DEF PreviewsTyped
  <2> QED BY <2>1, <2>2, <2>3, <2>4, <2>5
<1>4. LoopStops' /\ HandedOffIsIdle'
  <2>1. CASE CommitSegment(r) \/ EndRecording(r) \/ SetMode(r)
    <3>1. UNCHANGED <<snap, dirty>>
      BY <2>1 DEF CommitSegment, EndRecording, SetMode
    <3> QED BY <1>1, <3>1, HandStays DEF HandoffInv, Busy
  <2>2. CASE RetryFailed(r)
    <3>1. snap' = snap /\ hand = "serving"
      BY <2>2 DEF RetryFailed
    <3> QED BY <1>1, <3>1, HandStays DEF HandoffInv
  <2>3. CASE ReconcileGet(r)
    <3>1. loop # "off" /\ UNCHANGED dirty
      BY <2>3 DEF ReconcileGet
    <3> QED BY <1>1, <3>1, HandStays DEF HandoffInv, Busy
  <2> QED BY <2>1, <2>2, <2>3
<1> QED BY <1>2, <1>3, <1>4

LEMMA DeletionHands ==
  ASSUME HandoffInv, NEW r \in PreviewRecordings,
         DeleteArchive(r) \/ DeleteMark(r) \/ DeleteForget(r) \/ DeletePolicyFile(r) \/ DeleteTree(r) \/ DeleteGivesUp(r)
  PROVE  PreviewsTyped' /\ QueuedOnce' /\ LoopStops' /\ HandedOffIsIdle'
<1> USE DEF archive, policy, indexes, scan, tasks, removals, handoff
<1>1. /\ UNCHANGED <<taskQueue, active, loop, hand, leftover, count, live, snap>> /\ tomb \subseteq tomb'
      /\ mode' \subseteq mode /\ modeDisk' \subseteq modeDisk
  BY DEF DeleteArchive, DeleteMark, DeleteForget, DeletePolicyFile, DeleteTree, DeleteGivesUp
<1>2. CASE DeleteForget(r)
  <2>1. /\ cursor' = [cursor EXCEPT ![r] = 0] /\ queued' = {key \in queued : key[1] # r}
        /\ dirty' = [dirty EXCEPT ![r] = 0] /\ deleting[r] = "waiting"
    BY <1>2 DEF DeleteForget
  <2>2. r \in tomb
    BY <2>1 DEF HandoffInv, PreviewsInv, PreviewDeletions
  <2>3. \A key \in queued : key \in queued' \/ key[1] \in tomb'
    BY <1>1, <2>1, <2>2
  <2>4. PreviewsTyped'
    BY <1>1, <2>1 DEF HandoffInv, PreviewsTyped
  <2>5. DOMAIN dirty = PreviewRecordings
    BY DEF HandoffInv, PreviewsInv, PreviewsShape
  <2>6. LoopStops' /\ HandedOffIsIdle'
    BY <1>1, <2>1, <2>5, HandStays DEF HandoffInv, Busy
  <2> QED BY <1>1, <2>3, <2>4, <2>6, OnceStays DEF HandoffInv
<1>3. CASE DeleteArchive(r) \/ DeleteMark(r) \/ DeletePolicyFile(r) \/ DeleteTree(r) \/ DeleteGivesUp(r)
  <2>1. UNCHANGED <<cursor, queued, dirty>>
    BY <1>3 DEF DeleteArchive, DeleteMark, DeletePolicyFile, DeleteTree, DeleteGivesUp
  <2>2. PreviewsTyped'
    BY <1>1, <2>1 DEF HandoffInv, PreviewsTyped
  <2>3. LoopStops' /\ HandedOffIsIdle'
    BY <1>1, <2>1, HandStays DEF HandoffInv, Busy
  <2> QED BY <1>1, <2>1, <2>2, <2>3, OnceStays DEF HandoffInv
<1> QED BY <1>2, <1>3

\* The loop is joined, given back or abandoned, and no pass is under way when it ends.
LEMMA HandoffStepsHand ==
  ASSUME HandoffInv,
         \/ ReconcileSkip \/ PrepareHandoff \/ LoopEnds \/ HandOff \/ HandoffFails \/ ResumePreviews \/ ClosePreviews
         \/ CloseSaves \/ UNCHANGED previewsVars
  PROVE  PreviewsTyped' /\ QueuedOnce' /\ LoopStops' /\ HandedOffIsIdle'
<1> USE DEF archive, policy, indexes, scan, tasks, removals, handoff
<1>1. UNCHANGED <<taskQueue, queued, tomb, active, mode, modeDisk, count, live, cursor>> /\ (snap' = snap \/ snap' = NoSnap)
  BY DEF ReconcileSkip, PrepareHandoff, LoopEnds, HandOff, HandoffFails, ResumePreviews, ClosePreviews, CloseSaves,
       previewsVars
<1>2. PreviewsTyped' /\ QueuedOnce'
  <2>1. PreviewsTyped /\ QueuedOnce
    BY DEF HandoffInv
  <2>2. PreviewsTyped'
    BY <1>1, <2>1 DEF PreviewsTyped
  <2> QED BY <1>1, <2>1, <2>2, OnceStays
<1>3. CASE ReconcileSkip \/ ClosePreviews \/ CloseSaves \/ UNCHANGED previewsVars
  <2>1. UNCHANGED <<loop, hand, leftover>>
    BY <1>3 DEF ReconcileSkip, ClosePreviews, CloseSaves, previewsVars
  <2>2. \A r \in PreviewRecordings : dirty[r] = 0 => dirty'[r] = 0
    BY <1>3 DEF ReconcileSkip, ClosePreviews, CloseSaves, previewsVars
  <2> QED BY <1>1, <1>2, <2>1, <2>2, HandStays DEF HandoffInv, Busy
<1>4. CASE PrepareHandoff
  <2>1. /\ UNCHANGED <<snap, leftover>>
        /\ \/ hand' = "drain" /\ loop = "off" /\ loop' = loop
           \/ hand' = "join" /\ loop' = "stopping"
    BY <1>4 DEF PrepareHandoff
  <2> QED BY <1>2, <2>1 DEF HandoffInv, LoopStops, HandedOffIsIdle
<1>5. CASE LoopEnds
  <2>1. /\ snap = NoSnap /\ snap' = snap /\ loop = "stopping"
        /\ loop' = "off" \/ (leftover' = (leftover \/ hand # "serving"))
        /\ hand' = hand \/ (hand = "join" /\ hand' = "drain")
        /\ leftover => leftover'
    BY <1>5 DEF LoopEnds
  <2>2. LoopStops'
    BY <1>5, <2>1 DEF HandoffInv, LoopStops, LoopEnds
  <2>3. HandedOffIsIdle'
    BY <1>5, <2>1 DEF HandoffInv, LoopStops, HandedOffIsIdle, LoopEnds
  <2> QED BY <1>2, <2>2, <2>3
<1>6. CASE HandOff
  <2>1. /\ hand = "drain" /\ IsIdle /\ UNCHANGED <<snap, loop, leftover>> /\ hand' = "handed"
        /\ dirty' = [r \in PreviewRecordings |-> 0]
    BY <1>6 DEF HandOff
  <2> QED BY <1>1, <1>2, <2>1 DEF HandoffInv, LoopStops, HandedOffIsIdle, IsIdle, Busy
<1>7. CASE HandoffFails \/ ResumePreviews
  <2>1. hand' = "serving" /\ loop' # "off"
    BY <1>7 DEF HandoffFails, ResumePreviews, ResumeAfterHandoff
  <2> QED BY <1>2, <2>1 DEF LoopStops, HandedOffIsIdle
<1> QED BY <1>3, <1>4, <1>5, <1>6, <1>7

\* The next process starts its loop with nothing queued.
LEMMA RestartHands ==
  ASSUME HandoffInv, RestartPreviews
  PROVE  PreviewsTyped' /\ QueuedOnce' /\ LoopStops' /\ HandedOffIsIdle'
<1>1. /\ UNCHANGED <<count, live>> /\ snap' = NoSnap /\ taskQueue' = <<>> /\ hand' = "serving" /\ loop' = "on"
      /\ mode' \subseteq modeDisk /\ modeDisk' = mode' /\ cursor' = [r \in PreviewRecordings |-> 0]
  BY DEF RestartPreviews, Policies, archive
<1>2. <<>> \in Seq(PreviewTasks) /\ Len(<<>>) = 0
  OBVIOUS
<1>3. PreviewsTyped'
  BY <1>1, <1>2 DEF HandoffInv, PreviewsTyped
<1> QED BY <1>1, <1>2, <1>3 DEF QueuedOnce, LoopStops, HandedOffIsIdle

LEMMA HandoffStep ==
  ASSUME HandoffInv, [PreviewsNext]_previewsVars
  PROVE  HandoffInv'
<1>1. PreviewsInv'
  BY PreviewsStep DEF HandoffInv
<1>2. PreviewsTyped' /\ QueuedOnce' /\ LoopStops' /\ HandedOffIsIdle'
  BY RequestsHand, DeletionHands, ReconcileHands, TakeTaskHands, TasksEndHands, HandoffStepsHand,
       RestartHands DEF PreviewsNext
<1> QED BY <1>1, <1>2 DEF HandoffInv

\* Whatever is evicted, retried, deleted, handed over or lost by a crash, a frame
\* that is listed opens, and the next process lists no missing one.
THEOREM FramesAlwaysOpen == PreviewsSpec => []IndexedFramesExist
<1>1. PreviewsInv => IndexedFramesExist
  BY LoadedIsIndex DEF PreviewsInv, IndexedFramesExist, OpenFrame, FramesBehindIndexes
<1> QED BY <1>1, PreviewsInvHolds, PTL

\* No worker, save or eviction writes after a deletion that completed.
THEOREM NothingComesBack == PreviewsSpec => []DeletedLeavesNothing
<1>1. PreviewsInv => DeletedLeavesNothing
  BY DEF PreviewsInv, PreviewDeletions, DeletedLeavesNothing
<1> QED BY <1>1, PreviewsInvHolds, PTL

\* After WaitForIdle returned and the changed indexes were saved, no pass, task or
\* unsaved index of this generation is left: the channel may still hold tasks of
\* deleted Recordings, and those start nothing.
THEOREM HandedOffIsLeftAlone == PreviewsSpec => []HandedOffIsIdle
<1>1. PreviewsInit => HandoffInv
  BY PreviewsStart, HandoffInit DEF HandoffInv
<1>2. HandoffInv /\ [PreviewsNext]_previewsVars => HandoffInv'
  BY HandoffStep
<1>3. HandoffInv => HandedOffIsIdle
  BY DEF HandoffInv
<1> QED BY <1>1, <1>2, <1>3, PTL DEF PreviewsSpec

-----------------------------------------------------------------------------
(* The archive.                                                            *)

USE ArchiveAssumption DEF ArchiveAssumption, Local, Free, Active

-----------------------------------------------------------------------------
(* The inductive invariant.                                                *)

Ops ==
  [kind : {"idle", "down", "create", "commit", "mark", "end", "recover", "delete"},
   step : Steps \cup {"none", "resumed", "hide", "syncHidden", "remove", "syncRemoved"},
   synced : BOOLEAN, item : Items \cup {"none", "root"}, next : Roots, try : 1 .. PersistAttempts]

Deletions == {"none", "asked", "absent", "done"}

Types ==
  /\ backend \in {"filesystem", "objects"}
  /\ disk \in Disks /\ durable \in Disks
  /\ mem \in Roots /\ op \in Ops
  /\ faults \in 0 .. MaxFaults /\ crashes \in 0 .. MaxCrashes
  /\ acked \in SUBSET Items /\ marked \in SUBSET Segments
  /\ created \in BOOLEAN /\ damaged \in BOOLEAN /\ deletion \in Deletions

\* What a root accounts for.
Cover(r) == r.held \cup r.pending \cup r.gaps

\* LoadAll reported the payload of an item.
Flagged(i) == {<<"canonical_payload", i>>, <<"manifest_payload", i>>} \cap issues # {}
Unflagged == \A i \in Items : ~Flagged(i)

\* The issues are those of a walk over the root r.
Reported(r) ==
  /\ \A i \in Items : Flagged(i) <=> i \in r.held /\ disk.payload[i] # "ok"
  /\ \A s \in r.held \cap Segments : disk.payload[s] # "ok" => <<"canonical_payload", s>> \in issues

\* The root an operation of the Engine is about to write follows the one in memory.
Follows ==
  /\ mem.held \subseteq op.next.held /\ Cover(mem) \subseteq Cover(op.next)
  /\ op.next.held \subseteq mem.held \cup (IF op.kind = "commit" THEN {op.item} ELSE {})

\* How far each operation came.
Shape ==
  /\ op.kind = "idle" => op = Idle
  /\ op.kind = "down" => op \in {Down, [Down EXCEPT !.step = "resumed"]} /\ mem = None
  /\ op.kind = "create" =>
       /\ op.step = "publish" /\ op.next = NewRoot /\ mem = None
       /\ acked = {} /\ marked = {} /\ Unflagged /\ deletion = "none"
  /\ op.kind = "commit" =>
       /\ op.step \in {"payload", "sidecar", "root"} /\ op.item \in Items /\ op.item \in op.next.held
       /\ op.step = "payload" \/ (disk.payload[op.item] = "ok" /\ durable.payload[op.item] = "ok")
  /\ op.kind = "mark" => op.step = "root" /\ op.item \in Segments /\ op.item \in Cover(op.next)
  /\ op.kind \in {"end", "recover"} => op.step = "root"
  /\ op.kind \in {"commit", "mark", "end"} => Active /\ Follows
  /\ op.kind = "recover" =>
       /\ mem = None /\ op.next.state \in {"stopped", "interrupted"}
       /\ disk.place = "live" /\ Reported(op.next)
  /\ op.kind = "delete" =>
       /\ op.step \in {"hide", "syncHidden", "remove", "syncRemoved"} /\ op.synced
       /\ ~Active /\ deletion = "asked"
       /\ op.step = "syncRemoved" => disk.place = "none"

\* What was renamed and not yet synced is the write of the operation.
Unsynced ==
  ~op.synced =>
    /\ op.step \in Steps /\ Local
    /\ op.step = "payload" => disk.payload[op.item] = "ok"
    /\ op.step \in {"root", "publish"} => disk.root = op.next
    /\ op.step = "publish" => disk.place = "live"

\* The archive before and after its life.
Places ==
  /\ ~Local => disk = durable
  /\ ~created =>
       /\ disk.place = "none" /\ durable.place = "none" /\ mem = None /\ deletion = "none"
       /\ op.kind \in {"idle", "down"} /\ acked = {} /\ marked = {} /\ Unflagged
  /\ deletion = "none" => disk.place # "tomb" /\ durable.place # "tomb"
  /\ deletion = "done" =>
       /\ disk.place = "none" /\ durable.place = "none" /\ mem = None /\ created
       /\ op.kind \in {"idle", "down"}

\* A Recording in memory: all is well while its Engine captures it, and what
\* LoadAll reported is what there is to report.
Session ==
  /\ Active =>
       /\ deletion = "none" /\ disk.place = "live" /\ durable.place = "live"
       /\ Unflagged /\ \A i \in mem.held : disk.payload[i] = "ok"
  /\ mem # None /\ disk.place = "live" => Reported(mem)
  /\ \A s \in mem.held \cap Segments : disk.payload[s] = "bad" => <<"canonical_payload", s>> \in issues

\* Whatever a power loss leaves, it has what was answered with success.
Supports(d) ==
  /\ \A i \in acked : d.place = "live" /\ i \in d.root.held /\ d.payload[i] = "ok"
  /\ marked \subseteq Cover(d.root)

Remembers(r) == acked \subseteq r.held /\ marked \subseteq Cover(r)

Survives ==
  deletion = "none" /\ ~damaged =>
    /\ Supports(disk) /\ Supports(durable)
    /\ mem # None => Remembers(mem)
    /\ op.kind = "recover" => Remembers(op.next)

IInv == Types /\ Shape /\ Unsynced /\ Places /\ Session /\ Survives
-----------------------------------------------------------------------------
(* Documents.                                                              *)

\* The steps that write.
LEMMA StepsAre == Steps = {"payload", "sidecar", "root", "publish"}
BY DEF Steps, Order

LEMMA DiskFields ==
  ASSUME NEW d \in Disks
  PROVE  /\ d.place \in {"none", "live", "tomb"} /\ d.staged \in BOOLEAN /\ d.root \in Roots
         /\ d.payload \in [Items -> Quality] /\ d.sidecar \in [Items -> Quality]
BY DEF Disks

LEMMA RootFields ==
  ASSUME NEW r \in Roots
  PROVE  /\ r.state \in {"recording", "stopped", "interrupted", "none", "bad"}
         /\ r.held \in SUBSET Items /\ r.pending \in SUBSET Segments /\ r.gaps \in SUBSET Segments
BY DEF Roots

LEMMA RootForms ==
  /\ None \in Roots /\ NewRoot \in Roots /\ BadRoot \in Roots
  /\ None.state = "none" /\ None.held = {} /\ NewRoot.state = "recording" /\ NewRoot.held = {}
  /\ BadRoot.state = "bad" /\ NewRoot # None
BY DEF None, NewRoot, BadRoot, Roots

LEMMA EmptyFields ==
  /\ Empty \in Disks /\ Empty.place = "none" /\ Empty.root = None
  /\ \A i \in Items : Empty.payload[i] = "none"
BY RootForms DEF Empty, Disks, Quality

\* What stands in op before an operation and after it.
LEMMA OpForms ==
  /\ Idle \in Ops /\ Idle.kind = "idle" /\ Idle.step = "none" /\ Idle.synced /\ Idle.next = None
  /\ Idle.item = "none" /\ Idle.try = 1
  /\ Down \in Ops /\ Down.kind = "down" /\ Down.step = "none" /\ Down.synced
  /\ [Down EXCEPT !.step = "resumed"] \in Ops
  /\ [Down EXCEPT !.step = "resumed"].kind = "down" /\ [Down EXCEPT !.step = "resumed"].synced
  /\ [Down EXCEPT !.step = "resumed"].step = "resumed"
<1>1. 1 \in 1 .. PersistAttempts
  OBVIOUS
<1>2. Idle \in Ops /\ Idle.kind = "idle" /\ Idle.step = "none" /\ Idle.synced /\ Idle.next = None
      /\ Idle.item = "none" /\ Idle.try = 1
  BY <1>1, RootForms DEF Idle, Ops
<1> QED BY <1>1, <1>2, RootForms DEF Idle, Down, Ops

LEMMA OpFields ==
  ASSUME NEW o \in Ops
  PROVE  /\ o.synced \in BOOLEAN /\ o.next \in Roots /\ o.try \in 1 .. PersistAttempts
         /\ o = [kind |-> o.kind, step |-> o.step, synced |-> o.synced, item |-> o.item,
                 next |-> o.next, try |-> o.try]
BY DEF Ops

\* What the write of op changes.
LEMMA WrittenFields ==
  ASSUME NEW d \in Disks, op \in Ops, op.step \in Steps,
         op.step \in {"payload", "sidecar"} => op.item \in Items
  PROVE  /\ Written(d) \in Disks
         /\ Written(d).place = IF op.step = "publish" THEN "live" ELSE d.place
         /\ Written(d).root = IF op.step \in {"root", "publish"} THEN op.next ELSE d.root
         /\ Written(d).payload = IF op.step = "payload" THEN [d.payload EXCEPT ![op.item] = "ok"]
                                 ELSE d.payload
<1>0. op.step \in {"payload", "sidecar", "root", "publish"} /\ op.next \in Roots
  BY StepsAre, OpFields
<1>1. CASE op.step = "payload"
  BY <1>1, DiskFields DEF Written, Disks, Quality
<1>2. CASE op.step = "sidecar"
  BY <1>2, DiskFields DEF Written, Disks, Quality
<1>3. CASE op.step = "root"
  BY <1>0, <1>3, DiskFields DEF Written, Disks
<1>4. CASE op.step = "publish"
  BY <1>0, <1>4, DiskFields DEF Written, Disks
<1> QED BY <1>0, <1>1, <1>2, <1>3, <1>4

\* What a sync makes durable.
LEMMA SyncedFields ==
  ASSUME disk \in Disks, durable \in Disks, op.step \in Steps
  PROVE  /\ Synced \in Disks /\ SyncedAbove \in Disks
         /\ Synced.place = IF op.step = "publish" THEN disk.place ELSE durable.place
         /\ Synced.root = IF op.step \in {"root", "publish"} THEN disk.root ELSE durable.root
         /\ Synced.payload = IF op.step \in {"payload", "sidecar"} THEN disk.payload ELSE durable.payload
         /\ SyncedAbove.place = durable.place
         /\ SyncedAbove.root = IF op.step = "payload" THEN disk.root ELSE durable.root
         /\ SyncedAbove.payload = IF op.step = "payload" THEN disk.payload ELSE durable.payload
<1>0. op.step \in {"payload", "sidecar", "root", "publish"}
  BY StepsAre
<1>1. CASE op.step \in {"payload", "sidecar"}
  BY <1>1, DiskFields DEF Synced, SyncedAbove, Disks
<1>2. CASE op.step = "root"
  BY <1>2, DiskFields DEF Synced, SyncedAbove, Disks
<1>3. CASE op.step = "publish"
  BY <1>3, DiskFields DEF Synced, SyncedAbove, Disks
<1> QED BY <1>0, <1>1, <1>2, <1>3

LEMMA BeginFields ==
  ASSUME NEW kind \in {"create", "commit", "mark", "end", "recover", "delete"},
         NEW step \in {"payload", "root", "publish", "hide", "remove"},
         NEW item \in Items \cup {"root"}, NEW next \in Roots, Begin(kind, step, item, next)
  PROVE  /\ op' \in Ops /\ op'.kind = kind /\ op'.step = step /\ op'.synced = TRUE
         /\ op'.item = item /\ op'.next = next /\ op' # Idle
<1>1. op' = [kind |-> kind, step |-> step, synced |-> TRUE, item |-> item, next |-> next, try |-> 1]
  BY DEF Begin, Idle
<1>2. 1 \in 1 .. PersistAttempts
  OBVIOUS
<1> QED BY <1>1, <1>2, StepsAre DEF Ops, Idle

-----------------------------------------------------------------------------
(* Operations of an Engine.                                                *)

LEMMA EngineBegins ==
  ASSUME IInv, Free, Active, UNCHANGED <<backend, disk, durable, mem, issues, budgets, history>>,
         NEW kind \in {"commit", "mark", "end"}, NEW item \in Items \cup {"root"}, NEW next \in Roots,
         NEW step, step = (IF kind = "commit" THEN "payload" ELSE "root"),
         Begin(kind, step, item, next),
         mem.held \subseteq next.held, Cover(mem) \subseteq Cover(next),
         next.held \subseteq mem.held \cup (IF kind = "commit" THEN {item} ELSE {}),
         kind = "commit" => item \in Items /\ item \in next.held,
         kind = "mark" => item \in Segments /\ item \in Cover(next)
  PROVE  IInv'
<1> USE DEF budgets, history
<1>1. /\ op' \in Ops /\ op'.kind = kind /\ op'.step = step /\ op'.synced = TRUE
      /\ op'.item = item /\ op'.next = next
  <2>1. /\ kind \in {"create", "commit", "mark", "end", "recover", "delete"}
        /\ step \in {"payload", "root", "publish", "hide", "remove"}
    OBVIOUS
  <2> HIDE DEF Free, Local, Active
  <2> QED BY ONLY <2>1, BeginFields, item \in Items \cup {"root"}, next \in Roots, Begin(kind, step, item, next)
<1>2. Types'
  BY <1>1 DEF IInv, Types
<1>3. Shape'
  BY <1>1 DEF IInv, Shape, Follows, Cover
<1>4. Unsynced'
  BY <1>1 DEF IInv, Unsynced
<1>5. Places'
  BY <1>1, RootForms DEF IInv, Places, Unflagged, Flagged, Session
<1>6. Session'
  BY DEF IInv, Session, Reported, Unflagged, Flagged
<1>7. Survives'
  BY <1>1 DEF IInv, Survives, Supports, Remembers, Cover
<1> QED BY <1>2, <1>3, <1>4, <1>5, <1>6, <1>7 DEF IInv

LEMMA OperationsBegin ==
  ASSUME IInv,
         \/ \E i \in Items : Commit(i)
         \/ \E s \in Segments : MarkPending(s) \/ AddGap(s)
         \/ \E state \in {"stopped", "interrupted"} : End(state)
  PROVE  IInv'
<1>0. mem \in Roots /\ mem = [state |-> mem.state, held |-> mem.held, pending |-> mem.pending, gaps |-> mem.gaps]
      /\ mem.held \in SUBSET Items /\ mem.pending \in SUBSET Segments /\ mem.gaps \in SUBSET Segments
  BY DEF IInv, Types, Roots
<1>1. ASSUME NEW i \in Items, Commit(i) PROVE IInv'
  <2>1. PICK next \in Roots : next = [mem EXCEPT !.held = @ \cup {i}, !.pending = @ \ {i}]
    BY <1>0 DEF Roots
  <2>2. next.held = mem.held \cup {i} /\ next.pending = mem.pending \ {i} /\ next.gaps = mem.gaps
    BY <1>0, <2>1
  <2>3. Begin("commit", "payload", i, next)
    BY <1>1, <2>1 DEF Commit
  <2> QED BY <1>1, <2>2, <2>3, EngineBegins DEF Commit, Cover
<1>2. ASSUME NEW s \in Segments, MarkPending(s) PROVE IInv'
  <2>1. PICK next \in Roots : next = [mem EXCEPT !.pending = @ \cup {s}]
    BY <1>0 DEF Roots
  <2>2. next.held = mem.held /\ next.pending = mem.pending \cup {s} /\ next.gaps = mem.gaps
    BY <1>0, <2>1
  <2>3. Begin("mark", "root", s, next) /\ s \in Items
    BY <1>2, <2>1 DEF MarkPending, Items
  <2> QED BY <1>2, <2>2, <2>3, EngineBegins DEF MarkPending, Cover
<1>3. ASSUME NEW s \in Segments, AddGap(s) PROVE IInv'
  <2>1. PICK next \in Roots : next = [mem EXCEPT !.pending = @ \ {s}, !.gaps = @ \cup {s}]
    BY <1>0 DEF Roots
  <2>2. next.held = mem.held /\ next.pending = mem.pending \ {s} /\ next.gaps = mem.gaps \cup {s}
    BY <1>0, <2>1
  <2>3. Begin("mark", "root", s, next) /\ s \in Items
    BY <1>3, <2>1 DEF AddGap, Items
  <2> QED BY <1>3, <2>2, <2>3, EngineBegins DEF AddGap, Cover
<1>4. ASSUME NEW state \in {"stopped", "interrupted"}, End(state) PROVE IInv'
  <2>1. PICK next \in Roots :
          next = [mem EXCEPT !.state = state, !.gaps = @ \cup mem.pending, !.pending = {}]
    BY <1>0 DEF Roots
  <2>2. next.held = mem.held /\ next.pending = {} /\ next.gaps = mem.gaps \cup mem.pending
    BY <1>0, <2>1
  <2>3. Begin("end", "root", "root", next)
    BY <1>4, <2>1 DEF End
  <2> QED BY <1>4, <2>2, <2>3, EngineBegins DEF End, Cover
<1> QED BY <1>1, <1>2, <1>3, <1>4

LEMMA CreateBegins ==
  ASSUME IInv, Create
  PROVE  IInv'
<1> USE DEF budgets
<1>1. Begin("create", "publish", "root", NewRoot) /\ NewRoot \in Roots
  BY RootForms DEF Create
<1>2. /\ op' \in Ops /\ op'.kind = "create" /\ op'.step = "publish" /\ op'.synced = TRUE
      /\ op'.item = "root" /\ op'.next = NewRoot
  BY <1>1, BeginFields
<1>3. /\ disk' \in Disks /\ durable' \in Disks
      /\ disk'.place = disk.place /\ disk'.root = disk.root /\ disk'.payload = disk.payload
      /\ durable'.place = durable.place /\ durable'.root = durable.root /\ durable'.payload = durable.payload
      /\ (~Local => disk' = durable')
  BY DiskFields DEF Create, Disks, IInv, Types, Places
<1>4. /\ ~created /\ created' = TRUE /\ mem = None /\ Unflagged /\ acked = {} /\ marked = {}
      /\ deletion = "none" /\ disk.place = "none" /\ durable.place = "none"
      /\ UNCHANGED <<backend, mem, issues, budgets, acked, marked, damaged, deletion>>
  BY DEF Create, IInv, Places
<1>5. Types'
  BY <1>2, <1>3, <1>4 DEF IInv, Types
<1>6. Shape'
  BY <1>2, <1>4 DEF Shape, Unflagged, Flagged
<1>7. Unsynced'
  BY <1>2 DEF Unsynced
<1>8. Places'
  BY <1>3, <1>4 DEF Places
<1>9. Session'
  BY <1>4, RootForms DEF Session
<1>10. Survives'
  BY <1>2, <1>4 DEF Survives, Supports, Remembers
<1> QED BY <1>5, <1>6, <1>7, <1>8, <1>9, <1>10 DEF IInv

-----------------------------------------------------------------------------
(* Writes.                                                                 *)

\* Which operations write, and what.
LEMMA WritesAre ==
  ASSUME IInv, op.step \in Steps
  PROVE  /\ op.step \in {"payload", "sidecar", "root", "publish"}
         /\ op.kind \in {"create", "commit", "mark", "end", "recover"}
         /\ op.step \in {"payload", "sidecar"} => op.kind = "commit"
         /\ op.step = "publish" <=> op.kind = "create"
         /\ op.kind = "commit" => op.item \in Items
         /\ created /\ deletion # "done"
<1>1. op.step \in {"payload", "sidecar", "root", "publish"}
  BY StepsAre
<1>2. op.kind \in {"idle", "down", "create", "commit", "mark", "end", "recover", "delete"}
  BY DEF IInv, Types, Ops
<1>3. op.kind \notin {"idle", "down", "delete"}
  BY <1>1, OpForms DEF IInv, Shape
<1> QED BY <1>1, <1>2, <1>3 DEF IInv, Shape, Places

\* What a write of op keeps of the promises, whatever it writes.
LEMMA WrittenSupports ==
  ASSUME IInv, op.step \in Steps, deletion = "none", ~damaged, NEW d \in Disks, NEW e \in Disks,
         Supports(d),
         e.place = IF op.step = "publish" THEN "live" ELSE d.place,
         e.root = IF op.step \in {"root", "publish"} THEN op.next ELSE d.root,
         \A i \in Items : d.payload[i] = "ok" => e.payload[i] = "ok"
  PROVE  Supports(e)
<1>1. CASE op.step \in {"payload", "sidecar"}
  BY <1>1 DEF Supports, IInv, Types
<1>2. CASE op.kind = "create"
  BY <1>2 DEF Supports, IInv, Shape
<1>3. CASE op.step = "root"
  <2>1. Remembers(op.next)
    <3>1. CASE op.kind = "recover"
      BY <3>1 DEF IInv, Survives
    <3>2. CASE op.kind \in {"commit", "mark", "end"}
      <4>1. Remembers(mem) /\ Follows
        BY <3>2, RootForms DEF IInv, Shape, Survives
      <4> QED BY <4>1 DEF Remembers, Follows
    <3> QED BY <1>3, <3>1, <3>2, WritesAre
  <2> QED BY <1>3, <2>1 DEF Supports, Remembers, IInv, Types
<1> QED BY <1>1, <1>2, <1>3, WritesAre

\* The write of op has landed, whole and durable.
LEMMA WriteLands ==
  ASSUME IInv, op.step \in Steps, Advance,
         UNCHANGED <<backend, issues, budgets, created, damaged, deletion>>,
         disk' \in Disks, durable' \in Disks, ~Local => disk' = durable',
         disk'.place = IF op.step = "publish" THEN "live" ELSE disk.place,
         disk'.root = IF op.step \in {"root", "publish"} THEN op.next ELSE disk.root,
         disk'.payload = IF op.step = "payload" THEN [disk.payload EXCEPT ![op.item] = "ok"]
                         ELSE disk.payload,
         durable'.place = IF op.step = "publish" THEN "live" ELSE durable.place,
         durable'.root = IF op.step \in {"root", "publish"} THEN op.next ELSE durable.root,
         durable'.payload = IF op.step \in {"payload", "sidecar"} THEN disk'.payload ELSE durable.payload
  PROVE  IInv'
<1> USE DEF budgets
<1>0. Types /\ Shape /\ Unsynced /\ Places /\ Session /\ Survives /\ op \in Ops /\ disk \in Disks
  BY DEF IInv, Types
<1>k. /\ op.step \in {"payload", "sidecar", "root", "publish"}
      /\ op.kind \in {"create", "commit", "mark", "end", "recover"}
      /\ op.step \in {"payload", "sidecar"} => op.kind = "commit"
      /\ op.step = "publish" <=> op.kind = "create"
      /\ op.kind = "commit" => op.item \in Items
      /\ created /\ deletion # "done"
  BY WritesAre
<1>p. /\ \A i \in Items : disk.payload[i] = "ok" => disk'.payload[i] = "ok"
      /\ op.step = "payload" => disk'.payload[op.item] = "ok"
      /\ op.step # "payload" => disk'.payload = disk.payload
  BY <1>0, <1>k, DiskFields
<1>1. CASE op.step \in {"payload", "sidecar"}
  <2>0. op' = [op EXCEPT !.step = Order[op.step], !.synced = TRUE] /\ UNCHANGED <<mem, acked, marked>>
    BY <1>1 DEF Advance, Order
  <2>1. Order[op.step] \in {"sidecar", "root"}
    BY <1>1 DEF Order
  <2>2. /\ op' \in Ops /\ op'.kind = "commit" /\ op'.step \in {"sidecar", "root"}
        /\ op'.synced = TRUE /\ op'.item = op.item /\ op'.next = op.next
    BY <1>0, <1>1, <1>k, <2>0, <2>1, OpFields, StepsAre DEF Ops
  <2>3. disk'.payload[op.item] = "ok" /\ durable'.payload[op.item] = "ok"
    BY <1>0, <1>1, <1>k, <1>p DEF Shape
  <2>4. Active /\ Follows /\ op.item \in Items /\ op.item \in op.next.held
    BY <1>0, <1>1, <1>k DEF Shape
  <2>5. disk'.place = disk.place /\ disk'.root = disk.root /\ durable'.place = durable.place
        /\ durable'.root = durable.root /\ durable'.payload = disk'.payload
    BY <1>1
  <2>6. Types'
    BY <1>0, <2>0, <2>2 DEF Types
  <2>7. Shape'
    BY <2>0, <2>2, <2>3, <2>4, <1>1, <1>k DEF Shape, Follows, Cover
  <2>8. Unsynced'
    BY <2>2 DEF Unsynced
  <2>9. Places'
    BY <1>0, <1>k, <2>5 DEF Places
  <2>10. Session'
    <3>1. /\ deletion = "none" /\ disk.place = "live" /\ durable.place = "live"
          /\ Unflagged /\ \A i \in mem.held : disk.payload[i] = "ok"
      BY <1>0, <2>4 DEF Session
    <3>2. mem.held \subseteq Items
      BY <1>0, RootFields DEF Types
    <3>3. \A i \in mem.held : disk'.payload[i] = "ok"
      BY <3>1, <3>2, <1>p
    <3> QED BY <2>0, <2>5, <3>1, <3>2, <3>3 DEF Session, Reported, Unflagged, Flagged
  <2>11. Survives'
    <3> SUFFICES ASSUME deletion = "none", ~damaged
                 PROVE  Supports(disk)' /\ Supports(durable)' /\ Remembers(mem)'
      BY <2>2 DEF Survives
    <3>1. Remembers(mem) /\ Supports(disk) /\ Supports(durable)
      BY <1>0, <2>4, RootForms DEF Survives
    <3> QED BY <1>0, <1>p, <2>0, <2>5, <3>1 DEF Supports, Remembers, Types
  <2> QED BY <2>6, <2>7, <2>8, <2>9, <2>10, <2>11 DEF IInv
<1>2. CASE op.step \in {"root", "publish"}
  <2>0. /\ op' = Idle /\ mem' = op.next
        /\ acked' = (IF op.kind = "commit" THEN acked \cup {op.item} ELSE acked)
        /\ marked' = (IF op.kind = "mark" THEN marked \cup {op.item} ELSE marked)
    BY <1>2 DEF Advance, Order
  <2>1. /\ disk'.root = op.next /\ durable'.root = op.next
        /\ disk'.payload = disk.payload /\ durable'.payload = durable.payload
    BY <1>2
  <2>2. op.next \in Roots
    BY <1>0, OpFields
  <2>3. Types'
    BY <1>0, <1>k, <2>0, <2>2, OpForms DEF Types, Shape
  <2>4. Shape' /\ Unsynced'
    BY <2>0, OpForms DEF Shape, Unsynced
  <2>5. Places'
    BY <1>0, <1>k DEF Places
  <2>6. Session'
    <3>1. CASE op.kind = "create"
      BY <1>0, <1>2, <1>k, <2>0, <3>1, RootForms DEF Shape, Session, Reported, Unflagged, Flagged
    <3>2. CASE op.kind \in {"commit", "mark", "end"}
      <4>1. /\ deletion = "none" /\ disk.place = "live" /\ durable.place = "live"
            /\ Unflagged /\ \A i \in mem.held : disk.payload[i] = "ok"
        BY <1>0, <3>2 DEF Shape, Session
      <4>2. \A i \in op.next.held : disk.payload[i] = "ok"
        BY <1>0, <1>2, <1>k, <3>2, <4>1 DEF Shape, Follows
      <4>3. disk'.place = "live" /\ durable'.place = "live"
        BY <4>1
      <4> QED BY <2>0, <2>1, <2>2, <4>1, <4>2, <4>3, RootFields DEF Session, Reported, Unflagged, Flagged
    <3>3. CASE op.kind = "recover"
      <4>1. op.next.state # "recording" /\ disk.place = "live" /\ Reported(op.next)
        BY <1>0, <3>3 DEF Shape
      <4> QED BY <1>0, <2>0, <2>1, <2>2, <4>1, RootFields DEF Session, Reported, Flagged
    <3> QED BY <1>k, <3>1, <3>2, <3>3
  <2>7. Survives'
    <3> SUFFICES ASSUME deletion = "none", ~damaged
                 PROVE  Supports(disk)' /\ Supports(durable)' /\ Remembers(mem)'
      BY <2>0, OpForms DEF Survives
    <3>1. CASE op.kind = "create"
      BY <1>0, <2>0, <3>1 DEF Shape, Supports, Remembers
    <3>2. CASE op.kind \in {"commit", "mark", "end"}
      <4>1. Remembers(mem) /\ Follows /\ Supports(disk) /\ Supports(durable)
        BY <1>0, <3>2, RootForms DEF Shape, Survives
      <4>2. disk'.place = "live" /\ durable'.place = "live"
        BY <1>0, <1>2, <1>k, <3>2 DEF Shape, Session
      <4>3. op.kind = "commit" => /\ disk.payload[op.item] = "ok" /\ durable.payload[op.item] = "ok"
                                  /\ op.item \in op.next.held
        BY <1>0, <1>2, <1>k DEF Shape
      <4>4. op.kind = "mark" => op.item \in Cover(op.next)
        BY <1>0 DEF Shape
      <4>5. acked' \subseteq op.next.held /\ marked' \subseteq Cover(op.next)
        BY <2>0, <4>1, <4>3, <4>4 DEF Remembers, Follows
      <4>6. \A i \in acked' : disk.payload[i] = "ok" /\ durable.payload[i] = "ok"
        BY <2>0, <4>1, <4>3 DEF Supports
      <4> QED BY <2>0, <2>1, <4>2, <4>5, <4>6 DEF Supports, Remembers, Cover
    <3>3. CASE op.kind = "recover"
      <4>1. Remembers(op.next) /\ Supports(disk) /\ Supports(durable)
        BY <1>0, <3>3 DEF Survives
      <4> QED BY <1>2, <1>k, <2>0, <2>1, <3>3, <4>1 DEF Supports, Remembers, Cover
    <3> QED BY <1>k, <3>1, <3>2, <3>3
  <2> QED BY <2>3, <2>4, <2>5, <2>6, <2>7 DEF IInv
<1> QED BY <1>k, <1>1, <1>2

LEMMA FileWritten ==
  ASSUME IInv, WriteFile
  PROVE  IInv'
<1> USE DEF budgets, history
<1>0. Types /\ Shape /\ Unsynced /\ Places /\ Session /\ Survives /\ op \in Ops
      /\ disk \in Disks /\ durable \in Disks /\ op.step \in Steps /\ Local
  BY DEF IInv, Types, WriteFile
<1>k. /\ op.step \in {"payload", "sidecar", "root", "publish"}
      /\ op.kind \in {"create", "commit", "mark", "end", "recover"}
      /\ op.step \in {"payload", "sidecar"} => op.kind = "commit"
      /\ op.step = "publish" <=> op.kind = "create"
      /\ op.kind = "commit" => op.item \in Items
      /\ created /\ deletion # "done"
  BY <1>0, WritesAre
<1>1. /\ op' \in Ops /\ op'.kind = op.kind /\ op'.step = op.step
      /\ op'.synced = FALSE /\ op'.item = op.item /\ op'.next = op.next
  BY <1>0, OpFields DEF WriteFile, Ops
<1>2. /\ disk' = Written(disk) /\ durable' = SyncedAbove
      /\ UNCHANGED <<backend, mem, issues, budgets, history>>
  BY DEF WriteFile
<1>3. /\ disk' \in Disks
      /\ disk'.place = IF op.step = "publish" THEN "live" ELSE disk.place
      /\ disk'.root = IF op.step \in {"root", "publish"} THEN op.next ELSE disk.root
      /\ disk'.payload = IF op.step = "payload" THEN [disk.payload EXCEPT ![op.item] = "ok"]
                         ELSE disk.payload
  BY <1>0, <1>k, <1>2, WrittenFields
<1>4. /\ durable' \in Disks /\ durable'.place = durable.place
      /\ durable'.root = (IF op.step = "payload" THEN disk.root ELSE durable.root)
      /\ durable'.payload = (IF op.step = "payload" THEN disk.payload ELSE durable.payload)
  BY <1>0, <1>2, SyncedFields
<1>p. /\ \A i \in Items : disk.payload[i] = "ok" => disk'.payload[i] = "ok"
      /\ op.step = "payload" => disk'.payload[op.item] = "ok"
      /\ op.step # "payload" => disk'.payload = disk.payload
  BY <1>0, <1>k, <1>3, DiskFields
<1>5. Types'
  BY <1>0, <1>1, <1>2, <1>3, <1>4 DEF Types
<1>6. Shape'
  <2>1. op.kind = "recover" => Reported(op.next)' /\ disk'.place = "live"
    BY <1>0, <1>1, <1>2, <1>3, <1>k, <1>p DEF Shape, Reported, Flagged
  <2>2. op.kind = "commit" => op.step = "payload" \/ (disk'.payload[op.item] = "ok" /\ durable'.payload[op.item] = "ok")
    BY <1>0, <1>4, <1>k, <1>p DEF Shape
  <2>3. op.kind \in {"commit", "mark", "end"} => Active' /\ Follows'
    BY <1>0, <1>1, <1>2 DEF Shape, Follows, Cover
  <2>4. op.kind = "create" => Unflagged'
    BY <1>0, <1>2 DEF Shape, Unflagged, Flagged
  <2> QED BY <1>0, <1>1, <1>2, <1>k, <2>1, <2>2, <2>3, <2>4 DEF Shape, Cover
<1>7. Unsynced'
  BY <1>0, <1>1, <1>2, <1>3, <1>k, <1>p DEF Unsynced
<1>8. Places'
  BY <1>0, <1>k, <1>2, <1>3, <1>4 DEF Places
<1>9. Session'
  <2>1. CASE op.kind \in {"create", "recover"}
    BY <1>0, <1>2, <2>1, RootForms DEF Shape, Session
  <2>2. CASE op.kind \in {"commit", "mark", "end"}
    <3>1. /\ deletion = "none" /\ disk.place = "live" /\ durable.place = "live"
          /\ Unflagged /\ \A i \in mem.held : disk.payload[i] = "ok"
      BY <1>0, <2>2 DEF Shape, Session
    <3>2. \A i \in mem.held : i \in Items /\ disk'.payload[i] = "ok"
      BY <1>0, <1>p, <3>1, RootFields DEF Types
    <3>3. disk'.place = "live" /\ durable'.place = "live"
      BY <1>3, <1>4, <3>1
    <3> QED BY <1>2, <3>1, <3>2, <3>3 DEF Session, Reported, Unflagged, Flagged
  <2> QED BY <1>k, <2>1, <2>2
<1>10. Survives'
  <2> SUFFICES ASSUME deletion = "none", ~damaged
               PROVE  /\ Supports(disk)' /\ Supports(durable)'
                      /\ mem # None => Remembers(mem)'
                      /\ op.kind = "recover" => Remembers(op.next)'
    BY <1>1, <1>2 DEF Survives
  <2>1. /\ Supports(disk) /\ Supports(durable) /\ (mem # None => Remembers(mem))
        /\ (op.kind = "recover" => Remembers(op.next)) /\ acked \subseteq Items
    BY <1>0 DEF Survives, Types
  <2>2. Supports(disk)'
    <3>1. PICK e \in Disks : e = disk'
      BY <1>3
    <3>2. Supports(e)
      BY <1>0, <1>3, <1>p, <2>1, <3>1, WrittenSupports
    <3> QED BY <1>2, <3>1, <3>2 DEF Supports
  <2>3. Supports(durable)'
    BY <1>2, <1>4, <2>1 DEF Supports
  <2> QED BY <1>1, <1>2, <2>1, <2>2, <2>3 DEF Remembers
<1> QED BY <1>5, <1>6, <1>7, <1>8, <1>9, <1>10 DEF IInv

LEMMA WriteCompleted ==
  ASSUME IInv, SyncFile \/ PutObject
  PROVE  IInv'
<1> USE DEF budgets
<1>0. /\ Types /\ Shape /\ Unsynced /\ Places /\ op.step \in Steps
      /\ disk \in Disks /\ durable \in Disks /\ op \in Ops
  BY DEF IInv, Types, SyncFile, PutObject
<1>k. /\ op.step \in {"payload", "sidecar", "root", "publish"}
      /\ op.step \in {"payload", "sidecar"} => op.kind = "commit"
      /\ op.kind = "commit" => op.item \in Items
  BY <1>0, WritesAre
<1>1. CASE SyncFile
  <2>1. Local /\ disk' = disk /\ durable' = Synced /\ Advance
        /\ UNCHANGED <<backend, issues, budgets, created, damaged, deletion>>
    BY <1>0, <1>1 DEF SyncFile, Unsynced
  <2>2. /\ op.step = "payload" => disk.payload[op.item] = "ok"
        /\ op.step \in {"root", "publish"} => disk.root = op.next
        /\ op.step = "publish" => disk.place = "live"
    BY <1>0, <1>1 DEF SyncFile, Unsynced
  <2>3. op.step = "payload" => disk.payload = [disk.payload EXCEPT ![op.item] = "ok"]
    BY <1>0, <1>k, <2>2, DiskFields
  <2>4. /\ Synced \in Disks
        /\ Synced.place = IF op.step = "publish" THEN disk.place ELSE durable.place
        /\ Synced.root = IF op.step \in {"root", "publish"} THEN disk.root ELSE durable.root
        /\ Synced.payload = IF op.step \in {"payload", "sidecar"} THEN disk.payload ELSE durable.payload
    BY <1>0, SyncedFields
  <2> QED BY <1>0, <2>1, <2>2, <2>3, <2>4, WriteLands
<1>2. CASE PutObject
  <2>1. ~Local /\ disk = durable /\ disk' = Written(disk) /\ durable' = Written(disk) /\ Advance
        /\ UNCHANGED <<backend, issues, budgets, created, damaged, deletion>>
    BY <1>0, <1>2 DEF PutObject, Confirmed, Places
  <2>2. /\ Written(disk) \in Disks
        /\ Written(disk).place = IF op.step = "publish" THEN "live" ELSE disk.place
        /\ Written(disk).root = IF op.step \in {"root", "publish"} THEN op.next ELSE disk.root
        /\ Written(disk).payload = IF op.step = "payload" THEN [disk.payload EXCEPT ![op.item] = "ok"]
                                   ELSE disk.payload
    BY <1>0, <1>k, WrittenFields
  <2> QED BY <1>0, <2>1, <2>2, WriteLands
<1> QED BY <1>1, <1>2

LEMMA WriteFailed ==
  ASSUME IInv, WriteFails
  PROVE  IInv'
<1> USE DEF history
<1>0. Types /\ Shape /\ Unsynced /\ Places /\ Session /\ Survives /\ op \in Ops
      /\ disk \in Disks /\ durable \in Disks /\ op.step \in Steps
      /\ UNCHANGED <<backend, crashes, history>> /\ faults' \in 0 .. MaxFaults
  BY DEF IInv, Types, WriteFails
<1>k. /\ op.step \in {"payload", "sidecar", "root", "publish"}
      /\ op.kind \in {"create", "commit", "mark", "end", "recover"}
      /\ op.step \in {"payload", "sidecar"} => op.kind = "commit"
      /\ op.step = "publish" <=> op.kind = "create"
      /\ op.kind = "commit" => op.item \in Items
      /\ created /\ deletion # "done"
  BY <1>0, WritesAre
<1>1. /\ disk' \in Disks /\ durable' \in Disks
      /\ ~Local => disk' = durable'
      /\ disk'.place \in {disk.place, IF op.step = "publish" THEN "live" ELSE disk.place}
      /\ \A i \in Items : disk.payload[i] = "ok" => disk'.payload[i] = "ok"
      /\ op.step # "payload" => disk'.payload = disk.payload
      /\ deletion = "none" /\ ~damaged => Supports(disk') /\ Supports(durable')
      /\ durable' \in {durable, disk'}
  <2>1. CASE UNCHANGED <<disk, durable>>
    BY <1>0, <2>1 DEF Survives, Places
  <2>2. CASE ~Local /\ disk' = Written(disk) /\ durable' = disk'
    <3>1. PICK e \in Disks : e = Written(disk)
      BY <1>0, <1>k, WrittenFields
    <3>2. /\ e.place = IF op.step = "publish" THEN "live" ELSE disk.place
          /\ e.root = IF op.step \in {"root", "publish"} THEN op.next ELSE disk.root
          /\ e.payload = IF op.step = "payload" THEN [disk.payload EXCEPT ![op.item] = "ok"]
                         ELSE disk.payload
      BY <1>0, <1>k, <3>1, WrittenFields
    <3>3. \A i \in Items : disk.payload[i] = "ok" => e.payload[i] = "ok"
      BY <1>0, <1>k, <3>2, DiskFields
    <3>4. deletion = "none" /\ ~damaged => Supports(e)
      BY <1>0, <3>2, <3>3, WrittenSupports DEF Survives
    <3> QED BY <2>2, <3>1, <3>2, <3>3, <3>4
  <2> QED BY <2>1, <2>2 DEF WriteFails
<1>2. \/ /\ op.kind = "commit" /\ op' \in Ops /\ op'.kind = "commit" /\ op'.step = "payload"
         /\ op'.synced = TRUE /\ op'.item = op.item /\ op'.next = op.next
      \/ op' = Idle
  <2>1. CASE op.kind = "commit" /\ op.try < PersistAttempts
    <3>1. op' = [op EXCEPT !.step = "payload", !.synced = TRUE, !.try = @ + 1]
      BY <2>1 DEF WriteFails, GiveBack
    <3>2. op.try + 1 \in 1 .. PersistAttempts
      BY <1>0, <2>1, OpFields
    <3> QED BY <1>0, <2>1, <3>1, <3>2, OpFields, StepsAre DEF Ops
  <2>2. CASE ~(op.kind = "commit" /\ op.try < PersistAttempts)
    BY <2>2 DEF WriteFails, GiveBack
  <2> QED BY <2>1, <2>2
<1>3. /\ mem' = (IF op.kind = "recover" THEN op.next ELSE mem)
      /\ \A i \in Items : Flagged(i)' <=> Flagged(i)
      /\ \A s \in Segments : <<"canonical_payload", s>> \in issues => <<"canonical_payload", s>> \in issues'
  BY DEF WriteFails, GiveBack, Flagged
<1>4. Types'
  BY <1>0, <1>1, <1>2, <1>3, OpFields, OpForms DEF Types
<1>5. Shape'
  <2>1. CASE op' = Idle
    BY <2>1, OpForms DEF Shape
  <2>2. CASE op.kind = "commit" /\ op'.kind = "commit" /\ op'.step = "payload"
             /\ op'.item = op.item /\ op'.next = op.next
    <3>1. Follows'
      BY <1>0, <1>3, <2>2 DEF Shape, Follows, Cover
    <3> QED BY <1>0, <1>3, <1>k, <2>2, <3>1 DEF Shape
  <2> QED BY <1>2, <2>1, <2>2
<1>6. Unsynced'
  BY <1>2, OpForms DEF Unsynced
<1>7. Places'
  BY <1>0, <1>1, <1>k DEF Places
<1>8. Session'
  <2>1. CASE op.kind = "create"
    BY <1>0, <1>3, <2>1, RootForms DEF Shape, Session
  <2>2. CASE op.kind \in {"commit", "mark", "end"}
    <3>1. /\ deletion = "none" /\ disk.place = "live" /\ durable.place = "live"
          /\ Unflagged /\ \A i \in mem.held : disk.payload[i] = "ok"
      BY <1>0, <2>2 DEF Shape, Session
    <3>2. \A i \in mem.held : i \in Items /\ disk'.payload[i] = "ok"
      BY <1>0, <1>1, <3>1, RootFields DEF Types
    <3>3. disk'.place = "live" /\ durable'.place = "live"
      BY <1>1, <3>1
    <3>4. mem' = mem /\ Unflagged'
      BY <1>3, <2>2, <3>1 DEF Unflagged
    <3> QED BY <1>0, <3>1, <3>2, <3>3, <3>4 DEF Session, Reported, Unflagged
  <2>3. CASE op.kind = "recover"
    <3>1. op.next.state # "recording" /\ disk.place = "live" /\ Reported(op.next)
      BY <1>0, <2>3 DEF Shape
    <3>2. disk'.payload = disk.payload /\ mem' = op.next /\ op.next \in Roots
      BY <1>0, <1>1, <1>3, <1>k, <2>3, OpFields DEF Shape
    <3>3. Reported(mem)'
      BY <1>3, <3>1, <3>2, RootFields DEF Reported
    <3> QED BY <3>1, <3>2, <3>3 DEF Session, Reported
  <2> QED BY <1>k, <2>1, <2>2, <2>3
<1>9. Survives'
  <2> SUFFICES ASSUME deletion = "none", ~damaged
               PROVE  /\ Supports(disk)' /\ Supports(durable)'
                      /\ mem' # None => Remembers(mem)'
                      /\ op'.kind = "recover" => Remembers(op.next)'
    BY <1>0 DEF Survives
  <2>1. Supports(disk)' /\ Supports(durable)'
    <3>1. Supports(disk') /\ Supports(durable')
      BY <1>1
    <3> QED BY <1>0, <3>1 DEF Supports
  <2>2. mem' # None => Remembers(mem)'
    BY <1>0, <1>3 DEF Survives, Remembers
  <2> QED BY <1>2, <2>1, <2>2, OpForms
<1> QED BY <1>4, <1>5, <1>6, <1>7, <1>8, <1>9 DEF IInv

-----------------------------------------------------------------------------
(* Deletion.                                                               *)

\* A deletion goes on, or gives up: the archive is hidden or gone.
LEMMA DeletionGoesOn ==
  ASSUME IInv, op.kind = "delete", UNCHANGED <<backend, mem, issues, crashes, acked, marked, created, damaged, deletion>>,
         faults' \in 0 .. MaxFaults, disk' \in Disks, durable' \in Disks, ~Local => disk' = durable',
         \/ disk'.place = disk.place /\ disk'.payload = disk.payload
         \/ disk'.place = "tomb" /\ disk'.payload = disk.payload
         \/ disk'.place = "none" /\ \A i \in Items : disk'.payload[i] = "none",
         \/ op' = Idle
         \/ /\ op' \in Ops /\ op'.kind = "delete" /\ op'.synced = TRUE
            /\ op'.step \in {"syncHidden", "remove", "syncRemoved"}
            /\ op'.step = "syncRemoved" => disk'.place = "none"
  PROVE  IInv'
<1>0. Types /\ Shape /\ Unsynced /\ Places /\ Session /\ Survives
  BY DEF IInv
<1>1. ~Active /\ deletion = "asked"
  BY <1>0 DEF Shape
<1>2. created
  BY <1>0 DEF Places
<1>3. Types'
  BY <1>0, OpForms DEF Types
<1>4. Shape'
  BY <1>1, OpForms DEF Shape
<1>5. Unsynced'
  BY OpForms DEF Unsynced
<1>6. Places'
  BY <1>1, <1>2 DEF Places
<1>7. Session'
  <2>1. CASE disk'.payload = disk.payload /\ (disk'.place = disk.place \/ disk'.place = "tomb")
    BY <1>0, <1>1, <2>1 DEF Session, Reported, Flagged
  <2>2. CASE disk'.place = "none" /\ \A i \in Items : disk'.payload[i] = "none"
    BY <1>0, <1>1, <2>2 DEF Session, Items
  <2> QED BY <2>1, <2>2
<1>8. Survives'
  BY <1>1 DEF Survives
<1> QED BY <1>3, <1>4, <1>5, <1>6, <1>7, <1>8 DEF IInv

LEMMA DeletionBegins ==
  ASSUME IInv, StartDelete
  PROVE  IInv'
<1> USE DEF budgets
<1>0. Types /\ Shape /\ Unsynced /\ Places /\ Session /\ Survives /\ created /\ mem \in Roots
      /\ ~Active /\ deletion' = "asked"
      /\ UNCHANGED <<backend, disk, durable, mem, issues, budgets, acked, marked, created, damaged>>
  BY DEF IInv, Types, StartDelete, Places
<1>1. PICK step \in {"hide", "remove"} : Begin("delete", step, "root", None)
  BY DEF StartDelete
<1>2. op' \in Ops /\ op'.kind = "delete" /\ op'.step = step /\ op'.synced = TRUE
  <2>1. None \in Roots /\ step \in {"payload", "root", "publish", "hide", "remove"}
    BY RootForms
  <2> QED BY ONLY <1>1, <2>1, BeginFields
<1>3. Types'
  BY <1>0, <1>2 DEF Types, Deletions
<1>4. Shape' /\ Unsynced' /\ Survives'
  BY <1>0, <1>2 DEF Shape, Unsynced, Survives
<1>5. Places'
  BY <1>0 DEF Places
<1>6. Session'
  BY <1>0 DEF Session, Reported, Flagged
<1> QED BY <1>3, <1>4, <1>5, <1>6 DEF IInv

\* The archive of the Recording is gone, whatever is left of its staging.
LEMMA StagingFields ==
  ASSUME NEW b \in BOOLEAN
  PROVE  /\ [Empty EXCEPT !.staged = b] \in Disks /\ [Empty EXCEPT !.staged = b].place = "none"
         /\ [Empty EXCEPT !.staged = b].root = None
         /\ \A i \in Items : [Empty EXCEPT !.staged = b].payload[i] = "none"
BY RootForms DEF Empty, Disks, Quality

LEMMA TombFields ==
  ASSUME NEW d \in Disks
  PROVE  /\ [d EXCEPT !.place = "tomb"] \in Disks /\ [d EXCEPT !.place = "tomb"].place = "tomb"
         /\ [d EXCEPT !.place = "tomb"].payload = d.payload
BY DEF Disks

LEMMA DeletionSteps ==
  ASSUME IInv, HideDirectory \/ SyncHidden \/ RemoveTombstone \/ PutMarker \/ DeleteFails
  PROVE  IInv'
<1> USE DEF budgets, history
<1>0. /\ op.kind = "delete" /\ disk \in Disks /\ durable \in Disks /\ op \in Ops /\ op.synced
      /\ faults \in 0 .. MaxFaults /\ (~Local => disk = durable) /\ disk.staged \in BOOLEAN
  BY DiskFields DEF IInv, Types, Shape, Places, HideDirectory, SyncHidden, RemoveTombstone, PutMarker,
                    DeleteFails, Delete
<1>1. \A step \in {"syncHidden", "remove", "syncRemoved"} :
        /\ [op EXCEPT !.step = step] \in Ops /\ [op EXCEPT !.step = step].kind = "delete"
        /\ [op EXCEPT !.step = step].synced = TRUE /\ [op EXCEPT !.step = step].step = step
  BY <1>0, OpFields DEF Ops
<1>2. CASE HideDirectory
  BY <1>0, <1>1, <1>2, TombFields, DeletionGoesOn DEF HideDirectory
<1>3. CASE SyncHidden
  <2>1. durable' \in Disks /\ (~Local => disk' = durable')
    BY <1>0, <1>3 DEF SyncHidden, SyncBase, Disks
  <2> QED BY <1>0, <1>1, <1>3, <2>1, DeletionGoesOn DEF SyncHidden
<1>4. CASE RemoveTombstone
  BY <1>0, <1>1, <1>4, StagingFields, DeletionGoesOn DEF RemoveTombstone
<1>5. CASE PutMarker
  BY <1>0, <1>1, <1>5, TombFields, DeletionGoesOn DEF PutMarker, Confirmed
<1>6. CASE DeleteFails
  <2>1. op' = Idle /\ faults' \in 0 .. MaxFaults
        /\ UNCHANGED <<backend, mem, issues, crashes, acked, marked, created, damaged, deletion>>
    BY <1>0, <1>6 DEF DeleteFails
  <2>2. CASE UNCHANGED <<disk, durable>>
    BY <1>0, <2>1, <2>2, DeletionGoesOn
  <2>3. CASE disk' = [disk EXCEPT !.place = "tomb"] /\ durable' = disk'
    BY <1>0, <2>1, <2>3, TombFields, DeletionGoesOn
  <2>4. CASE disk' = Empty /\ durable' = Empty
    BY <1>0, <2>1, <2>4, EmptyFields, DeletionGoesOn
  <2> QED BY <1>6, <2>2, <2>3, <2>4 DEF DeleteFails, Confirmed
<1> QED BY <1>2, <1>3, <1>4, <1>5, <1>6

\* Nothing is left, and no power loss brings anything back.
LEMMA DeletionEnds ==
  ASSUME IInv, SyncRemoved \/ DeleteObjects
  PROVE  IInv'
<1> USE DEF budgets
<1>0. Types /\ Shape /\ Places /\ created /\ op' = Idle /\ mem' = None /\ deletion' = "done"
      /\ UNCHANGED <<backend, issues, budgets, acked, marked, created, damaged>>
  BY DEF IInv, Shape, Places, SyncRemoved, DeleteObjects, Removed, Delete
<1>1. disk' \in Disks /\ durable' \in Disks /\ disk'.place = "none" /\ durable'.place = "none"
      /\ (~Local => disk' = durable')
  <2>1. CASE SyncRemoved
    BY <1>0, <2>1, DiskFields DEF SyncRemoved, SyncBase, Delete, Shape, Types, Places, Disks
  <2>2. CASE DeleteObjects
    BY <2>2, EmptyFields DEF DeleteObjects, Confirmed
  <2> QED BY <2>1, <2>2
<1>2. Types'
  BY <1>0, <1>1, OpForms, RootForms DEF Types, Deletions
<1>3. Shape' /\ Unsynced' /\ Survives'
  BY <1>0, OpForms DEF Shape, Unsynced, Survives
<1>4. Places'
  BY <1>0, <1>1, OpForms DEF Places
<1>5. Session'
  BY <1>0, RootForms DEF Session
<1> QED BY <1>2, <1>3, <1>4, <1>5 DEF IInv

LEMMA NothingToDelete ==
  ASSUME IInv, DeleteAbsent
  PROVE  IInv'
<1> USE DEF budgets
<1>0. Types /\ Shape /\ Unsynced /\ Places /\ created /\ mem' = None /\ deletion' = "absent" /\ op.kind = "idle"
      /\ UNCHANGED <<backend, disk, durable, op, issues, budgets, acked, marked, created, damaged>>
  BY DEF IInv, DeleteAbsent
<1>2. Types'
  BY <1>0, RootForms DEF Types, Deletions
<1>3. Shape' /\ Unsynced' /\ Survives'
  BY <1>0 DEF Shape, Unsynced, Survives
<1>4. Places'
  BY <1>0 DEF Places
<1>5. Session'
  BY <1>0, RootForms DEF Session
<1> QED BY <1>2, <1>3, <1>4, <1>5 DEF IInv

-----------------------------------------------------------------------------
(* Crashes.                                                                *)

\* The process is gone, and every promise is kept by what is left.
LEMMA Stopped ==
  ASSUME IInv, mem' = None, op' \in {Down, [Down EXCEPT !.step = "resumed"]},
         UNCHANGED <<backend, acked, marked, created>>, deletion' = deletion,
         faults' \in 0 .. MaxFaults, crashes' \in 0 .. MaxCrashes, damaged' \in BOOLEAN,
         disk' \in Disks, durable' \in Disks, ~Local => disk' = durable',
         ~created => Unflagged',
         ~created \/ deletion = "done" => disk'.place = "none" /\ durable'.place = "none",
         deletion = "none" => disk'.place # "tomb" /\ durable'.place # "tomb",
         deletion = "none" /\ ~damaged' => ~damaged /\ Supports(disk') /\ Supports(durable')
  PROVE  IInv'
<1>0. Types /\ Places
  BY DEF IInv
<1>1. Types'
  BY <1>0, OpForms, RootForms DEF Types
<1>2. Shape' /\ Unsynced'
  BY OpForms DEF Shape, Unsynced
<1>3. Places'
  BY <1>0, OpForms DEF Places
<1>4. Session'
  BY RootForms DEF Session
<1>5. Survives'
  BY OpForms DEF Survives, Supports
<1> QED BY <1>1, <1>2, <1>3, <1>4, <1>5 DEF IInv

LEMMA ProcessStops ==
  ASSUME IInv, Crash \/ PowerLoss
  PROVE  IInv'
<1> USE DEF budgets, history
<1>0. /\ Types /\ Places /\ Survives /\ disk \in Disks /\ durable \in Disks
      /\ mem' = None /\ op' = Down /\ issues' = {} /\ crashes' \in 0 .. MaxCrashes
      /\ faults' \in 0 .. MaxFaults /\ damaged' \in BOOLEAN
      /\ UNCHANGED <<backend, faults, history>>
  BY DEF IInv, Types, Crash, PowerLoss, Stop
<1>1. Unflagged'
  BY <1>0 DEF Unflagged, Flagged
<1>2. CASE UNCHANGED <<disk, durable>>
  BY <1>0, <1>1, <1>2, Stopped DEF Places, Survives
<1>3. CASE \E d \in Survivors : disk' = d /\ durable' = d
  <2>1. PICK d \in Survivors : disk' = d /\ durable' = d
    BY <1>3
  <2>2. /\ d.place \in {disk.place, durable.place} /\ d.root \in {disk.root, durable.root}
        /\ d.payload \in [Items -> Quality] /\ d.sidecar \in [Items -> Quality] /\ d \in Disks
        /\ \A i \in Items : d.payload[i] \in {disk.payload[i], durable.payload[i]}
    BY <1>0, DiskFields DEF Survivors, Mixed, Disks
  <2>3. deletion = "none" /\ ~damaged => Supports(d)
    BY <1>0, <2>2 DEF Survives, Supports, Types
  <2> QED BY <1>0, <1>1, <2>1, <2>2, <2>3, Stopped DEF Places
<1> QED BY <1>2, <1>3 DEF Crash, PowerLoss

LEMMA ArchiveDamaged ==
  ASSUME IInv, Damage
  PROVE  IInv'
<1>0. /\ Types /\ Shape /\ Places /\ disk \in Disks /\ disk.place = "live" /\ durable' = disk'
      /\ op' = Down /\ mem' = None /\ damaged' = TRUE
      /\ faults' \in 0 .. MaxFaults /\ crashes' \in 0 .. MaxCrashes
      /\ UNCHANGED <<backend, acked, marked, created>> /\ deletion' = deletion
  BY OpForms DEF IInv, Types, Shape, Damage
<1>1. disk' \in Disks /\ disk'.place = "live"
  BY <1>0, DiskFields, RootForms DEF Damage, Disks, Quality
<1>2. created /\ deletion # "done"
  BY <1>0 DEF Places
<1> QED BY <1>0, <1>1, <1>2, Stopped

-----------------------------------------------------------------------------
(* Startup.                                                                *)

LEMMA DeletionResumed ==
  ASSUME IInv, ResumeTombstones \/ ResumeMarkers
  PROVE  IInv'
<1> USE DEF history
<1>0. /\ Types /\ Shape /\ Places /\ disk \in Disks /\ durable \in Disks /\ disk.staged \in BOOLEAN
  BY DiskFields DEF IInv, Types
<1>1. PICK d \in Disks : Resume(d) /\ d.place = "none"
  BY <1>0, StagingFields, EmptyFields DEF ResumeTombstones, ResumeMarkers
<1>2. /\ mem' = None /\ op' = [Down EXCEPT !.step = "resumed"] /\ disk.place = "tomb"
      /\ faults' \in 0 .. MaxFaults /\ crashes' \in 0 .. MaxCrashes
      /\ UNCHANGED <<backend, history>>
      /\ \/ disk' = d /\ durable' = d
         \/ UNCHANGED <<disk, durable>>
  BY <1>0, <1>1, OpForms DEF Resume, Confirmed, Types, Shape
<1>3. created /\ deletion \notin {"none", "done"} /\ damaged' \in BOOLEAN
  BY <1>0, <1>2 DEF Places, Types
<1> QED BY <1>0, <1>1, <1>2, <1>3, Stopped DEF Places

\* What LoadAll makes of the root it read: nothing that it listed is lost.
LEMMA RecoveredRoot ==
  ASSUME disk \in Disks, Readable
  PROVE  LET r == MarkInterrupted(Reconciled(disk)) IN
           /\ r \in Roots /\ r.state \in {"stopped", "interrupted"}
           /\ disk.root.held \subseteq r.held /\ Cover(disk.root) \subseteq Cover(r)
<1> DEFINE q == Reconciled(disk)
           r == MarkInterrupted(q)
           more == AdoptedSegments(disk) \cup AdoptedManifests(disk)
<1>1. /\ disk.root \in Roots
      /\ disk.root = [state |-> disk.root.state, held |-> disk.root.held,
                      pending |-> disk.root.pending, gaps |-> disk.root.gaps]
      /\ disk.root.state \in {"recording", "stopped", "interrupted"}
  BY DiskFields DEF Readable, Roots
<1>2. more \subseteq Items
  BY DEF AdoptedSegments, AdoptedManifests, Items
<1>3. q = [state |-> disk.root.state, held |-> disk.root.held \cup more,
           pending |-> disk.root.pending, gaps |-> disk.root.gaps]
  <2>1. q = [disk.root EXCEPT !.held = @ \cup AdoptedSegments(disk) \cup AdoptedManifests(disk)]
    BY DEF Reconciled
  <2> QED BY <1>1, <2>1
<1>4. q \in Roots /\ q.held = disk.root.held \cup more /\ q.pending = disk.root.pending
      /\ q.gaps = disk.root.gaps /\ q.state = disk.root.state
  BY <1>1, <1>2, <1>3 DEF Roots
<1>5. CASE q.state # "recording"
  BY <1>1, <1>4, <1>5 DEF MarkInterrupted, Cover
<1>6. CASE q.state = "recording"
  <2>1. r = [state |-> "interrupted", held |-> q.held, pending |-> {}, gaps |-> q.gaps \cup q.pending]
    BY <1>3, <1>6 DEF MarkInterrupted
  <2> QED BY <1>4, <2>1, RootFields DEF Roots, Cover
<1> QED BY <1>5, <1>6

\* The walk over the payloads reports exactly what is not whole.
LEMMA WalkReports ==
  ASSUME disk \in Disks, NEW r \in Roots, NEW found,
         found = SidecarIssues(disk) \cup Orphans(disk) \cup Verified(disk, r.held)
  PROVE  /\ \A i \in Items : {<<"canonical_payload", i>>, <<"manifest_payload", i>>} \cap found # {}
                               <=> i \in r.held /\ disk.payload[i] # "ok"
         /\ \A s \in r.held \cap Segments : disk.payload[s] # "ok" => <<"canonical_payload", s>> \in found
<1>1. \A i : /\ <<"canonical_payload", i>> \in found <=> <<"canonical_payload", i>> \in Verified(disk, r.held)
             /\ <<"manifest_payload", i>> \in found <=> <<"manifest_payload", i>> \in Verified(disk, r.held)
  BY DEF SidecarIssues, Orphans, Unattached
<1>2. \A i : /\ <<"canonical_payload", i>> \in Verified(disk, r.held)
                  <=> i \in r.held \cap Segments /\ disk.payload[i] # "ok"
             /\ <<"manifest_payload", i>> \in Verified(disk, r.held)
                  <=> i \in r.held \cap Manifests /\ disk.payload[i] # "ok"
  BY DEF Verified
<1>3. \A i : {<<"canonical_payload", i>>, <<"manifest_payload", i>>} \cap found # {}
               <=> <<"canonical_payload", i>> \in found \/ <<"manifest_payload", i>> \in found
  OBVIOUS
<1> QED BY <1>1, <1>2, <1>3 DEF Items

LEMMA Recovers ==
  ASSUME IInv, Recover, Readable, disk.place = "live", op.kind = "down"
  PROVE  IInv'
<1> USE DEF budgets, history
<1>0. /\ Types /\ Shape /\ Places /\ Survives /\ disk \in Disks
      /\ UNCHANGED <<backend, disk, durable, budgets, history>>
  BY DEF IInv, Types, Recover
<1>1. PICK r \in Roots : /\ r = MarkInterrupted(Reconciled(disk))
                         /\ r.state \in {"stopped", "interrupted"}
                         /\ disk.root.held \subseteq r.held /\ Cover(disk.root) \subseteq Cover(r)
  BY <1>0, RecoveredRoot
<1>2. /\ issues' = SidecarIssues(disk) \cup Orphans(disk) \cup Verified(disk, r.held)
      /\ \/ op' = Idle /\ mem' = r
         \/ Begin("recover", "root", "root", r) /\ UNCHANGED mem
  BY <1>1 DEF Recover
<1>3. mem = None /\ created /\ deletion # "done"
  BY <1>0 DEF Shape, Places
<1>4. /\ \A i \in Items : Flagged(i)' <=> i \in r.held /\ disk.payload[i] # "ok"
      /\ \A s \in r.held \cap Segments : disk.payload[s] # "ok" => <<"canonical_payload", s>> \in issues'
  <2>1. PICK found : found = issues'
    OBVIOUS
  <2> QED BY <1>0, <1>2, <2>1, WalkReports DEF Flagged
<1>5. deletion = "none" /\ ~damaged => Remembers(r) /\ Supports(disk) /\ Supports(durable)
  BY <1>0, <1>1 DEF Survives, Supports, Remembers
<1>6. CASE op' = Idle /\ mem' = r
  <2>1. Types'
    BY <1>0, <1>6, OpForms DEF Types
  <2>2. Shape' /\ Unsynced'
    BY <1>6, OpForms DEF Shape, Unsynced
  <2>3. Places'
    BY <1>0, <1>3 DEF Places
  <2>4. Session'
    BY <1>0, <1>1, <1>4, <1>6 DEF Session, Reported
  <2>5. Survives'
    BY <1>0, <1>5, <1>6, OpForms DEF Survives, Supports, Remembers
  <2> QED BY <2>1, <2>2, <2>3, <2>4, <2>5 DEF IInv
<1>7. CASE Begin("recover", "root", "root", r) /\ UNCHANGED mem
  <2>1. /\ op' \in Ops /\ op'.kind = "recover" /\ op'.step = "root" /\ op'.synced = TRUE /\ op'.next = r
    BY ONLY <1>7, BeginFields, r \in Roots
  <2>2. Types'
    BY <1>0, <1>7, <2>1 DEF Types
  <2>3. Shape' /\ Unsynced'
    BY <1>0, <1>1, <1>3, <1>4, <1>7, <2>1 DEF Shape, Unsynced, Reported
  <2>4. Places'
    BY <1>0, <1>3 DEF Places
  <2>5. Session'
    BY <1>3, <1>7, RootForms DEF Session
  <2>6. Survives'
    BY <1>0, <1>3, <1>5, <1>7, <2>1 DEF Survives, Supports, Remembers
  <2> QED BY <2>2, <2>3, <2>4, <2>5, <2>6 DEF IInv
<1> QED BY <1>2, <1>6, <1>7

LEMMA LoadSkips ==
  ASSUME IInv, op.kind = "down",
         NEW found \in SUBSET {"incomplete_creation", "metadata_unavailable", "metadata_invalid"},
         Skip(found)
  PROVE  IInv'
<1> USE DEF budgets, history
<1>0. /\ Types /\ Shape /\ Places /\ Survives /\ op' = Idle /\ mem = None
      /\ issues' = issues \cup {<<code, "root">> : code \in found}
      /\ UNCHANGED <<backend, disk, durable, mem, budgets, history>>
  BY DEF IInv, Shape, Skip
<1>1. Types'
  BY <1>0, OpForms DEF Types
<1>2. Shape' /\ Unsynced'
  BY <1>0, OpForms DEF Shape, Unsynced
<1>3. Places'
  <2>1. \A i \in Items : Flagged(i)' <=> Flagged(i)
    BY <1>0 DEF Flagged
  <2> QED BY <1>0, <2>1, OpForms DEF Places, Unflagged
<1>4. Session'
  BY <1>0, RootForms DEF Session
<1>5. Survives'
  BY <1>0, OpForms DEF Survives, Supports
<1> QED BY <1>1, <1>2, <1>3, <1>4, <1>5 DEF IInv

LEMMA Loads ==
  ASSUME IInv, LoadFiles \/ LoadObjects
  PROVE  IInv'
<1>1. CASE disk.place = "live" /\ Readable
  BY <1>1, Recovers DEF LoadFiles, LoadObjects, Ready
<1>2. CASE ~(disk.place = "live" /\ Readable)
  <2>1. PICK found \in SUBSET {"incomplete_creation", "metadata_unavailable", "metadata_invalid"} : Skip(found)
    BY <1>2 DEF LoadFiles, LoadObjects
  <2> QED BY <2>1, LoadSkips DEF LoadFiles, LoadObjects, Ready
<1> QED BY <1>1, <1>2

-----------------------------------------------------------------------------
(* Results.                                                                *)

LEMMA InitIInv == Init => IInv
<1> SUFFICES ASSUME Init PROVE IInv
  OBVIOUS
<1>1. disk = Empty /\ durable = Empty /\ mem = None /\ op = Down /\ issues = {} /\ acked = {} /\ marked = {}
      /\ ~created /\ deletion = "none" /\ backend \in {"filesystem", "objects"} /\ faults = 0 /\ crashes = 0
      /\ damaged = FALSE /\ created = FALSE
  BY DEF Init
<1>2. Types
  <2>1. 0 \in 0 .. MaxFaults /\ 0 \in 0 .. MaxCrashes
    OBVIOUS
  <2> QED BY <1>1, <2>1, EmptyFields, OpForms, RootForms DEF Types, Deletions
<1>3. Shape /\ Unsynced
  BY <1>1, OpForms DEF Shape, Unsynced
<1>4. Places /\ Survives
  BY <1>1, EmptyFields, OpForms DEF Places, Survives, Supports, Unflagged, Flagged
<1>5. Session
  BY <1>1, RootForms DEF Session
<1> QED BY <1>2, <1>3, <1>4, <1>5 DEF IInv

LEMMA StepKeepsIInv == IInv /\ [Next]_vars => IInv'
<1> SUFFICES ASSUME IInv, [Next]_vars PROVE IInv'
  OBVIOUS
<1>1. CASE UNCHANGED vars
  BY <1>1 DEF vars, budgets, history, IInv, Types, Shape, Unsynced, Places, Session, Survives, Flagged, Unflagged,
     Reported, Follows, Cover, Supports, Remembers
<1>2. CASE Next
  BY <1>2, OperationsBegin, CreateBegins, FileWritten, WriteCompleted, WriteFailed, DeletionBegins,
     DeletionSteps, DeletionEnds, NothingToDelete, ProcessStops, ArchiveDamaged, DeletionResumed, Loads
  DEF Next
<1> QED BY <1>1, <1>2

\* The inductive invariant holds of every behaviour of the archive.
LEMMA InvariantHolds == Spec => []IInv
<1> QED BY InitIInv, StepKeepsIInv, PTL DEF Spec

\* What an operation answered with success survives any number of crashes and
\* power losses, on files and on objects (savePayload, atomicWrite, putStaged,
\* LoadAll).
THEOREM CommitsSurvive == Spec => []CommitSurvives
<1>1. IInv => CommitSurvives
  BY DEF IInv, Survives, Supports, Cover, CommitSurvives
<1> QED BY <1>1, InvariantHolds, PTL

\* A playlist that is served lists only segments that are whole and streamed
\* (HasCanonicalPayloadIssue, trackPlaylist, liveTrackPlaylist).
THEOREM PlaybackIsFailClosed == Spec => []PlaybackFailsClosed
<1>1. IInv => PlaybackFailsClosed
  <2> SUFFICES ASSUME IInv, NEW sized \in BOOLEAN, NEW s \in trackPlaylist(sized) \cup liveTrackPlaylist(sized)
               PROVE  disk.payload[s] = "ok" /\ Streamed(s)
    BY DEF PlaybackFailsClosed
  <2>1. s \in Captured /\ (disk.payload[s] = "ok" \/ disk.payload[s] = "bad")
    BY DEF trackPlaylist, liveTrackPlaylist, Found
  <2>2. disk.payload[s] = "ok"
    <3>1. CASE Active
      BY <2>1, <3>1 DEF IInv, Session, Captured
    <3>2. CASE ~Active
      <4>1. ~HasCanonicalPayloadIssue /\ s \in mem.held \cap Segments
        BY <2>1, <3>2 DEF trackPlaylist, liveTrackPlaylist, Captured
      <4> QED BY <2>1, <4>1 DEF IInv, Session, HasCanonicalPayloadIssue
    <3> QED BY <3>1, <3>2
  <2> QED BY <2>1, <2>2 DEF Streamed
<1> QED BY <1>1, InvariantHolds, PTL

\* LoadAll, VerifyRecording and ArchiveIndex agree on a Recording nothing has changed.
THEOREM WalksAgree == Spec => []ChecksAgree
<1>1. IInv => ChecksAgree
  <2> SUFFICES ASSUME IInv, mem # None, disk.place = "live"
               PROVE  /\ VerifyRecording(mem) = "verified" => ArchiveIndexed(mem)
                      /\ VerifyRecording(mem) = "verified" <=> Unflagged
    BY DEF ChecksAgree, Unflagged, Flagged
  <2>1. Reported(mem) /\ mem.held \subseteq Items
    BY RootFields DEF IInv, Session, Types
  <2> QED BY <2>1 DEF Reported, Unflagged, VerifyRecording, ArchiveIndexed
<1> QED BY <1>1, InvariantHolds, PTL

\* What DeleteRecordingData removed never comes back, whatever fails or loses power.
THEOREM DeletionIsFinal == Spec => []DeletedStaysDeleted
<1>1. IInv => DeletedStaysDeleted
  BY DEF IInv, Places, DeletedStaysDeleted, ListedReadOnly, ReadOnly
<1> QED BY <1>1, InvariantHolds, PTL

=============================================================================
