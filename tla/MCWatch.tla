------------------------------ MODULE MCWatch ------------------------------
(* One Watch through the checks, starts and crashes of two Recordings. *)
EXTENDS Watch

\* Type invariant.
WatchTypeOK ==
  /\ def \in {"new", "on", "off", "deleted"} /\ rt \in Runtimes /\ relations \subseteq Ids
  /\ svc \in {"up", "recovering", "closing", "down"} /\ paused \in BOOLEAN
  /\ chk.base \in Runtimes /\ rc.base \in Runtimes /\ chk.cancel \in BOOLEAN
  /\ {claimed, fresh - 1, chk.id} \subseteq 0 .. MaxRecordings
  /\ {air, broadcasts, chk.digest, chk.session} \subseteq Digests
  /\ calls \cup notices \cup abandoned \subseteq Ids /\ harm \subseteq {"stale", "unlinked"}

\* At most one Recording of the Watch records at a time, of those whose start
\* it did not give up and while no save undid another (Service.claimStarting,
\* reconcilePending, recoverLinks).
OneActive == "stale" \in harm \/ Cardinality({id \in Ids \ abandoned : recs[id].state = "recording"}) <= 1

\* A start never records the broadcast of a Recording the user stopped, if the
\* Watch knew the identity of that broadcast when the Recording started, or if
\* the notice of the stop found the Recording still active and was saved, with no
\* other session's identity.  Not so for a Recording without an identity whose
\* link a reconciliation cleared first, or whose notice was lost (live,
\* NotifyRecordingStopped, markTerminal); StoppedIsNotRecordedAgain is about that.
StoppedStaysStopped ==
  [][\A id \in calls' \ calls : \A j \in Ids \ (abandoned \cup {id}) :
        recs[j].state = "stopped" /\ recs[j].session = recs'[id].session
          => ~(recs[j].known \/ recs[j].notified) \/ "stale" \in harm]_watchVars

\* What live's comment promises, and the code does not keep: a start never records
\* the broadcast of a Recording the user stopped, once the Watch was told of the
\* stop, whether its identity was known or is "newly available metadata".
StoppedIsNotRecordedAgain ==
  [][\A id \in calls' \ calls : \A j \in Ids \ (abandoned \cup notices \cup {id}) :
        recs[j].session = recs'[id].session => recs[j].state # "stopped" \/ "stale" \in harm]_watchVars

\* A pending start is resolved while the Service runs (reconcilePending).
PendingResolves == rt.pending # 0 ~> rt.pending = 0 \/ svc # "up"

=============================================================================
