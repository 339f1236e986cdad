----------------------------- MODULE MCPreviews -----------------------------
(* Previews of Recordings that grow, end and are deleted. *)
EXTENDS Previews

\* Type invariant.
PreviewsTypeOK ==
  /\ svc \in {"open", "closing", "closed"} /\ loop \in {"on", "stopping", "off"}
  /\ hand \in {"serving", "join", "drain", "handed"} /\ again \in BOOLEAN /\ leftover \in BOOLEAN
  /\ mode \cup modeDisk \cup checked \cup tomb \subseteq PreviewRecordings
  /\ \A r \in PreviewRecordings : frames[r] \subseteq Ordinals /\ index[r].items \subseteq Ordinals
  /\ \A r \in PreviewRecordings : dirty[r] \in 0 .. PersistBatch + events /\ cursor[r] \in 0 .. MaxSegments
  /\ Len(taskQueue) <= QueueCapacity /\ Cardinality(Resident) <= IndexCap

\* Every frame that is listed opens, and so does every frame the next process
\* would list (publishFrameLocked before upsertFrame; OpenFrame relies on it).
IndexedFramesExist ==
  \A r \in PreviewRecordings \ tomb :
    /\ \A s \in Loaded(r).items : OpenFrame(r, s)
    /\ indexDisk[r].items \subseteq frames[r]

\* Once DeleteRecording or cleanupOrphans removed the files of a Recording, none
\* comes back: no worker, save or eviction writes after it.
DeletedLeavesNothing ==
  \A r \in PreviewRecordings : deleting[r] = "done" => r \notin modeDisk /\ frames[r] = {} /\ indexDisk[r] = NoIndex

\* What was handed to the next generation is left alone: no pass, task or unsaved
\* index of this one remains ("the preview producer has stopped, so these waits
\* now cover only accepted work from the old generation"), unless the restart
\* that an earlier failed handoff asked for came in the middle of this one.
HandedOffIsIdle ==
  hand = "handed" /\ ~leftover =>
    /\ loop = "off" /\ snap = NoSnap /\ queued = {}
    /\ \A w \in PreviewWorkers : ~Busy(w)
    /\ \A r \in PreviewRecordings : dirty[r] = 0

\* Every committed segment of a previewed Recording gets its frame or its
\* permanent failure, and its summary stops promising one, however long the history (Reconcile's cursor: "old missing
\* frames cannot starve") and however often a handoff stopped the loop and
\* failed, unless the process ends, hands off or the Recording is deleted.
SegmentsSettle ==
  []<>(hand = "handed" \/ \A r \in mode \ tomb : archived[r] => \A s \in 1 .. count[r] :
        /\ s \in Loaded(r).items \/ Loaded(r).failed[s] = MaxTaskRetries
        /\ State(r) \in {"ready", "partial", "failed"})

=============================================================================
