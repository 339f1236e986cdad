------------------------------- MODULE MCJobs -------------------------------
(* Verifications and exports of Recordings that are tagged, retired and deleted. *)
EXTENDS Jobs

\* Type invariant.
JobsTypeOK ==
  /\ \A j \in Ids : jobs[j].state \in {"none", "queued", "running", "completed", "failed", "canceled"}
  /\ \A j \in Ids : artifact[j] \in {"none", "work", "output"}
  /\ kept \cup candidates \cup tags \cup tagFiles \cup eventFiles \cup markers \cup forgetting \cup late \subseteq Recordings
  /\ \A r \in Recordings : results[r] \in NoResult .. InProgressResult
  /\ \A k \in Kinds : Len(queue[k]) <= MaxActive

\* What a Service reports as completed survives a crash ("Do not report an
\* unpersisted result as durable"), with the artifact of an export; only a Delete
\* or a pruned history that could not be saved may lose it.
CompletedIsDurable ==
  \A j \in Ids : jobs[j].state = "completed" =>
    /\ jobsDisk.jobs[j].state \in {"completed", "none"}
    /\ jobsDisk.jobs[j].state = "none" => jobFaults > 0
    /\ jobs[j].kind = "export" => artifact[j] = "output"

\* Data is deleted only under a lock that no job and, for the retention, no tag
\* can pass: a Recording that is verified, exported or just tagged stays.
DeletionIsAlone ==
  \A r \in Recordings :
    /\ held[r] \in {"delete", "retire", "forget"} \/ r \notin kept => ~JobInProgress(r)
    /\ held[r] = "retire" => r \notin tags

\* Every job ends while the Services are open.
JobsEnd == []<>(closed \/ \A k \in Kinds : ActiveJobs(k) = {})
=============================================================================
