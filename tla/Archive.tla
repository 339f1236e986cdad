------------------------------ MODULE Archive ------------------------------
(***************************************************************************)
(* The canonical archive of one Recording, on the local filesystem or in   *)
(* the objects of a storage provider, through crashes and power losses.    *)
(*                                                                         *)
(* A segment or manifest snapshot is committed in three documents: its     *)
(* payload, its sidecar, and the root that lists it.  A file is visible    *)
(* once it was renamed and durable once its directory was synced; an       *)
(* object is both as soon as the provider published it, answered or not.   *)
(* LoadAll repairs what a crash left: it resumes a deletion, adopts what   *)
(* has a valid sidecar, reports the rest and ends an active recording.     *)
(*                                                                         *)
(* disk is what a reader finds, durable what a power loss leaves.  Every   *)
(* change of a Recording holds entry.persistMu, so one operation runs at   *)
(* a time; op is that operation and how far it came.                       *)
(*                                                                         *)
(* Abstractions.  Documents are valid ("ok"), damaged ("bad") or absent:   *)
(* sizes, digests and paths are what makes them so.  A sidecar never       *)
(* contradicts the root, epoch markers do not move, a root has one track.  *)
(* The place of a Recording is its directory or the tombstone it was       *)
(* renamed to; of objects, whether the deletion marker is there.  Nothing  *)
(* reads what is under a tombstone, so its removal is one step.  A put     *)
(* that failed has landed by then or never will.                           *)
(***************************************************************************)
EXTENDS Naturals

CONSTANTS
  Segments,         \* what the Recording may capture
  Manifests,        \* the manifest snapshots it may keep
  PersistAttempts,  \* IngestOptions.PersistAttempts
  MaxFaults,        \* bound of the model: calls that fail and documents damaged
  MaxCrashes        \* bound of the model: crashes and power losses

ASSUME ArchiveAssumption ==
  /\ Segments \cap Manifests = {}
  /\ PersistAttempts \in Nat \ {0}
  /\ {MaxFaults, MaxCrashes} \subseteq Nat

VARIABLES
  backend,  \* the StorageBackend the Store was opened with
  disk,     \* what is visible
  durable,  \* what a power loss leaves
  mem,      \* entry.recording, None while no Engine has it
  op,       \* the operation under entry.persistMu
  issues,   \* RecoveryIssues of the last LoadAll
  faults, crashes,
  acked,    \* history: the items whose commit was answered with success
  marked,   \* history: the segments durably marked pending or given up
  created,  \* the random id of the Recording was used
  damaged,  \* history: a document was damaged from outside
  deletion  \* history: a deletion was asked for, found nothing, or removed it all

budgets == <<faults, crashes>>
history == <<acked, marked, created, damaged, deletion>>
vars == <<backend, disk, durable, mem, op, issues, budgets, history>>

Items == Segments \cup Manifests
Quality == {"none", "ok", "bad"}

Roots == [state : {"recording", "stopped", "interrupted", "none", "bad"}, held : SUBSET Items,
          pending : SUBSET Segments, gaps : SUBSET Segments]
None == [state |-> "none", held |-> {}, pending |-> {}, gaps |-> {}]
NewRoot == [None EXCEPT !.state = "recording"]
BadRoot == [None EXCEPT !.state = "bad"]

Disks == [place : {"none", "live", "tomb"}, staged : BOOLEAN, root : Roots,
          payload : [Items -> Quality], sidecar : [Items -> Quality]]
Empty == [place |-> "none", staged |-> FALSE, root |-> None,
          payload |-> [i \in Items |-> "none"], sidecar |-> [i \in Items |-> "none"]]

Idle == [kind |-> "idle", step |-> "none", synced |-> TRUE, item |-> "none", next |-> None, try |-> 1]
Down == [Idle EXCEPT !.kind = "down"]

Local == backend = "filesystem"
Free == op.kind = "idle"
Active == mem.state = "recording"

Begin(kind, step, item, next) ==
  op' = [Idle EXCEPT !.kind = kind, !.step = step, !.item = item, !.next = next]

-----------------------------------------------------------------------------
(* Writing documents. *)

\* What the write of op leaves visible.
Written(d) ==
  CASE op.step = "payload" -> [d EXCEPT !.payload[op.item] = "ok"]
    [] op.step = "sidecar" -> [d EXCEPT !.sidecar[op.item] = "ok"]
    [] op.step = "root" -> [d EXCEPT !.root = op.next]
    [] op.step = "publish" -> [d EXCEPT !.root = op.next, !.place = "live", !.staged = FALSE]

\* Fault: the directory of the root is not synced.
SyncedTracks == [durable EXCEPT !.payload = disk.payload, !.sidecar = disk.sidecar,
                                !.place = disk.place, !.staged = disk.staged]

\* syncDirectory of the directory the write of op is in: that of the tracks,
\* of the Recording, or of all recordings.
Synced ==
  CASE op.step \in {"payload", "sidecar"} ->
         [durable EXCEPT !.payload = disk.payload, !.sidecar = disk.sidecar]
    [] op.step = "root" -> [durable EXCEPT !.root = disk.root]
    [] op.step = "publish" ->
         [durable EXCEPT !.root = disk.root, !.place = disk.place, !.staged = disk.staged]

\* syncRecordingDirectories: a payload syncs every directory above it first.
SyncedAbove ==
  IF op.step = "payload"
  THEN [durable EXCEPT !.root = disk.root, !.payload = disk.payload, !.sidecar = disk.sidecar]
  ELSE durable

\* The documents of an item in the order they are written.
Order == [payload |-> "sidecar", sidecar |-> "root", root |-> "done", publish |-> "done"]

Steps == DOMAIN Order

\* A step succeeded; after the last the memory follows and the caller is told.
Advance ==
  IF Order[op.step] # "done"
  THEN /\ op' = [op EXCEPT !.step = Order[op.step], !.synced = TRUE]
       /\ UNCHANGED <<mem, acked, marked>>
  ELSE /\ op' = Idle
       /\ mem' = op.next
       /\ acked' = IF op.kind = "commit" THEN acked \cup {op.item} ELSE acked
       /\ marked' = IF op.kind = "mark" THEN marked \cup {op.item} ELSE marked

\* savePayload, atomicWrite and the last rename of CreateRecording: the bytes
\* were synced under a temporary name, the rename is not yet.
WriteFile ==
  /\ Local /\ op.step \in Steps /\ op.synced
  /\ disk' = Written(disk)
  /\ durable' = SyncedAbove
  /\ op' = [op EXCEPT !.synced = FALSE]
  /\ UNCHANGED <<backend, mem, issues, budgets, history>>

SyncFile ==
  /\ op.step \in Steps /\ ~op.synced
  /\ durable' = Synced
  /\ Advance
  /\ UNCHANGED <<backend, disk, issues, budgets, created, damaged, deletion>>

\* confirmObject: a put without an answer is read back.
Confirmed(d) == disk' = d /\ durable' = d

\* stageAndPut, putStaged: the object is published whole, and either the answer
\* or reading it back confirms it.
PutObject ==
  /\ ~Local /\ op.step \in Steps
  /\ Confirmed(Written(disk))
  /\ Advance
  /\ UNCHANGED <<backend, issues, budgets, created, damaged, deletion>>

\* persistWithRetry starts a commit again; a failed recovery write is an issue
\* and the Recording is listed as it was recovered.
GiveBack ==
  /\ op' = IF op.kind = "commit" /\ op.try < PersistAttempts
           THEN [op EXCEPT !.step = "payload", !.synced = TRUE, !.try = @ + 1]
           ELSE Idle
  /\ mem' = IF op.kind = "recover" THEN op.next ELSE mem
  /\ issues' = IF op.kind = "recover" THEN issues \cup {<<"metadata_recovery_write_failed", "root">>} ELSE issues

\* The write fails: before the rename, at the sync after it, or with an object
\* that landed unconfirmed.
WriteFails ==
  /\ op.step \in Steps /\ faults < MaxFaults
  /\ faults' = faults + 1
  /\ \/ UNCHANGED <<disk, durable>>
     \/ ~Local /\ disk' = Written(disk) /\ durable' = disk'
  /\ GiveBack
  /\ UNCHANGED <<backend, crashes, history>>

-----------------------------------------------------------------------------
(* What an Engine does with its Recording. *)

\* CreateRecording.  The local root is written in a staging directory first.
Create ==
  /\ Free /\ ~created
  /\ created' = TRUE
  /\ disk' = [disk EXCEPT !.staged = Local]
  /\ durable' = [durable EXCEPT !.staged = Local]
  /\ Begin("create", "publish", "root", NewRoot)
  /\ UNCHANGED <<backend, mem, issues, budgets, acked, marked, damaged, deletion>>

\* commit of a fetched segment, SaveSnapshot and the root that lists it.
Commit(i) ==
  /\ Free /\ Active /\ i \notin mem.held \cup mem.gaps
  /\ Begin("commit", "payload", i, [mem EXCEPT !.held = @ \cup {i}, !.pending = @ \ {i}])
  /\ UNCHANGED <<backend, disk, durable, mem, issues, budgets, history>>

\* markPending: a fetch failed and will be retried.
MarkPending(s) ==
  /\ Free /\ Active /\ s \notin mem.held \cup mem.pending \cup mem.gaps
  /\ Begin("mark", "root", s, [mem EXCEPT !.pending = @ \cup {s}])
  /\ UNCHANGED <<backend, disk, durable, mem, issues, budgets, history>>

\* addGap: the segment is given up.
AddGap(s) ==
  /\ Free /\ Active /\ s \notin mem.held \cup mem.gaps
  /\ Begin("mark", "root", s, [mem EXCEPT !.pending = @ \ {s}, !.gaps = @ \cup {s}])
  /\ UNCHANGED <<backend, disk, durable, mem, issues, budgets, history>>

\* finalizePending and the root of a Recording that ends.
End(state) ==
  /\ Free /\ Active
  /\ Begin("end", "root", "root", [mem EXCEPT !.state = state, !.gaps = @ \cup mem.pending, !.pending = {}])
  /\ UNCHANGED <<backend, disk, durable, mem, issues, budgets, history>>

-----------------------------------------------------------------------------
(* Deletion. *)

\* DeleteRecording: never an active Recording.
StartDelete ==
  /\ Free /\ ~Active /\ disk.place # "none"
  /\ deletion' = "asked"
  /\ Begin("delete", IF disk.place = "tomb" THEN "remove" ELSE "hide", "root", None)
  /\ UNCHANGED <<backend, disk, durable, mem, issues, budgets, acked, marked, created, damaged>>

Delete(step) == op.kind = "delete" /\ op.step = step

Removed ==
  /\ op' = Idle /\ mem' = None /\ deletion' = "done"
  /\ UNCHANGED <<backend, issues, budgets, acked, marked, created, damaged>>

\* Files: the rename to a random tombstone, the sync of the directory of all
\* recordings, the removal, and the sync of that.
HideDirectory ==
  /\ Local /\ Delete("hide")
  /\ disk' = [disk EXCEPT !.place = "tomb"]
  /\ op' = [op EXCEPT !.step = "syncHidden"]
  /\ UNCHANGED <<backend, durable, mem, issues, budgets, history>>

\* Fault: a directory that cannot be synced passes for one that was.
SyncBaseIgnored == UNCHANGED durable

SyncBase == durable' = [durable EXCEPT !.place = disk.place]

SyncHidden ==
  /\ Delete("syncHidden")
  /\ SyncBase
  /\ op' = [op EXCEPT !.step = "remove"]
  /\ UNCHANGED <<backend, disk, mem, issues, budgets, history>>

\* RemoveAll, here and in removeDeletionTombstones.
RemoveTombstone ==
  /\ Local /\ Delete("remove")
  /\ disk' = [Empty EXCEPT !.staged = disk.staged]
  /\ op' = [op EXCEPT !.step = "syncRemoved"]
  /\ UNCHANGED <<backend, durable, mem, issues, budgets, history>>

SyncRemoved ==
  /\ Delete("syncRemoved")
  /\ SyncBase
  /\ Removed
  /\ UNCHANGED disk

\* Objects: the deletion marker, then the objects and, when none is left, the
\* marker again.
PutMarker ==
  /\ ~Local /\ Delete("hide")
  /\ Confirmed([disk EXCEPT !.place = "tomb"])
  /\ op' = [op EXCEPT !.step = "remove"]
  /\ UNCHANGED <<backend, mem, issues, budgets, history>>

DeleteObjects ==
  /\ ~Local /\ Delete("remove")
  /\ Confirmed(Empty)
  /\ Removed

\* Any call of a deletion fails; an object call may have done its work.
DeleteFails ==
  /\ op.kind = "delete" /\ faults < MaxFaults
  /\ faults' = faults + 1
  /\ op' = Idle
  /\ \/ UNCHANGED <<disk, durable>>
     \/ ~Local /\ Confirmed(IF op.step = "hide" THEN [disk EXCEPT !.place = "tomb"] ELSE Empty)
  /\ UNCHANGED <<backend, mem, issues, crashes, history>>

\* DeleteRecordingData of what is gone already: a retry succeeds.
DeleteAbsent ==
  /\ Free /\ ~Active /\ disk.place = "none" /\ created /\ deletion \in {"none", "asked"}
  /\ mem' = None
  /\ deletion' = "absent"
  /\ UNCHANGED <<backend, disk, durable, op, issues, budgets, acked, marked, created, damaged>>

-----------------------------------------------------------------------------
(* Crashes. *)

Mixed(f) == {g \in [Items -> Quality] : \A i \in Items : g[i] \in {disk[f][i], durable[f][i]}}

\* A power loss keeps any of the names that were not synced.
Survivors ==
  [place : {disk.place, durable.place}, staged : {disk.staged, durable.staged},
   root : {disk.root, durable.root}, payload : Mixed("payload"), sidecar : Mixed("sidecar")]

Stop ==
  /\ crashes < MaxCrashes /\ op.kind # "down"
  /\ crashes' = crashes + 1
  /\ mem' = None
  /\ op' = Down
  /\ issues' = {}
  /\ UNCHANGED <<backend, faults, history>>

Crash == Stop /\ UNCHANGED <<disk, durable>>

PowerLoss ==
  /\ Stop
  /\ \E d \in Survivors : disk' = d /\ durable' = d

\* A document is lost or damaged from outside while nothing runs.
Damage ==
  /\ op = Down /\ disk.place = "live" /\ faults < MaxFaults
  /\ faults' = faults + 1
  /\ damaged' = TRUE
  /\ \/ disk' = [disk EXCEPT !.root = BadRoot]
     \/ \E i \in Items, q \in {"none", "bad"} :
          \/ disk.payload[i] = "ok" /\ disk' = [disk EXCEPT !.payload[i] = q]
          \/ disk.sidecar[i] = "ok" /\ disk' = [disk EXCEPT !.sidecar[i] = q]
  /\ durable' = disk'
  /\ UNCHANGED <<backend, mem, op, issues, crashes, acked, marked, created, deletion>>

-----------------------------------------------------------------------------
(* LoadAll. *)

\* reconcileSidecar: a valid sidecar attaches its segment to the root if the
\* payload verifies.
AdoptedSegments(d) == {i \in Segments \ d.root.held : d.sidecar[i] = "ok" /\ d.payload[i] = "ok"}

\* reconcileManifestSidecar
AdoptedManifests(d) == {i \in Manifests \ d.root.held : d.sidecar[i] = "ok" /\ d.payload[i] = "ok"}

\* A sidecar that describes nothing is reported, not attached.
SidecarIssues(d) ==
  {<<"sidecar_invalid", i>> : i \in {j \in Items : d.sidecar[j] = "bad"}}
  \cup {<<"sidecar_payload", i>> : i \in {j \in Items : d.sidecar[j] = "ok" /\ d.payload[j] # "ok"}}

Unattached(d, items) == {<<"orphan", i>> : i \in {j \in items \ d.root.held : d.payload[j] # "none" /\ d.sidecar[j] = "none"}}

\* A payload without a sidecar is preserved and reported.  Only the local walk
\* reports manifests.
Orphans(d) == Unattached(d, IF Local THEN Items ELSE Segments)

\* Every reference of the root, the adopted ones too, is verified.
Verified(d, held) ==
  {<<"canonical_payload", i>> : i \in {j \in held \cap Segments : d.payload[j] # "ok"}}
  \cup {<<"manifest_payload", i>> : i \in {j \in held \cap Manifests : d.payload[j] # "ok"}}

\* reconcileRecording of the objects of a Recording.
Reconciled(d) == [d.root EXCEPT !.held = @ \cup AdoptedSegments(d) \cup AdoptedManifests(d)]

\* markInterrupted: what was pending becomes a gap, unless a gap covers it.
MarkInterrupted(r) ==
  IF r.state # "recording" THEN r
  ELSE [r EXCEPT !.state = "interrupted", !.gaps = @ \cup r.pending, !.pending = {}]

\* A deletion that did not finish is resumed first, and reported if it fails.
Resume(d) ==
  /\ op = Down /\ disk.place = "tomb"
  /\ \/ Confirmed(d) /\ UNCHANGED <<faults, issues>>
     \/ /\ faults < MaxFaults /\ faults' = faults + 1
        /\ issues' = {<<"deletion_cleanup_failed", "root">>}
        /\ UNCHANGED <<disk, durable>>
  /\ op' = [op EXCEPT !.step = "resumed"]
  /\ UNCHANGED <<backend, mem, crashes, history>>

ResumeTombstones == Local /\ Resume([Empty EXCEPT !.staged = disk.staged])

ResumeMarkers == ~Local /\ Resume(Empty)

Readable == disk.root.state \notin {"none", "bad"}

\* The root written back if reconciliation changed it.
Recover ==
  LET r == MarkInterrupted(Reconciled(disk))
  IN /\ issues' = SidecarIssues(disk) \cup Orphans(disk) \cup Verified(disk, r.held)
     /\ IF r = disk.root
        THEN op' = Idle /\ mem' = r
        ELSE Begin("recover", "root", "root", r) /\ UNCHANGED mem
     /\ UNCHANGED <<backend, disk, durable, budgets, history>>

Ready == op.kind = "down" /\ (disk.place = "tomb" => op.step = "resumed")

Skip(found) ==
  /\ op' = Idle
  /\ issues' = issues \cup {<<code, "root">> : code \in found}
  /\ UNCHANGED <<backend, disk, durable, mem, budgets, history>>

\* LoadAll of the directories below recordings/.
LoadFiles ==
  /\ Local /\ Ready
  /\ IF disk.place = "live" /\ Readable THEN Recover
     ELSE Skip((IF disk.staged THEN {"incomplete_creation"} ELSE {})
               \cup (IF disk.place = "live" THEN {"metadata_unavailable"} ELSE {}))

\* LoadAll of the roots listed, without the ids that have a deletion marker.
LoadObjects ==
  /\ ~Local /\ Ready
  /\ IF disk.place = "live" /\ Readable THEN Recover
     ELSE Skip(IF disk.place = "live" /\ disk.root = BadRoot THEN {"metadata_invalid"} ELSE {})

-----------------------------------------------------------------------------
(* What the archive tells its readers. *)

\* HasCanonicalPayloadIssue
HasCanonicalPayloadIssue == \E i \in Segments : <<"canonical_payload", i>> \in issues

Captured == mem.held \cap Segments

\* What StatPayload finds: a payload is there, and has its size unless the
\* damage changed it.
Found(sized) == \A i \in Captured : disk.payload[i] = "ok" \/ (disk.payload[i] = "bad" /\ sized)

\* The segments a playlist lists, which is none when it is refused.  The live
\* playlist trusts the Engine that captures the Recording.
liveTrackPlaylist(sized) == IF Active /\ Found(sized) THEN Captured ELSE {}

\* Fault: what LoadAll reported is not asked for.
trackPlaylistUnasked(sized) == IF ~Active /\ Found(sized) THEN Captured ELSE {}

trackPlaylist(sized) == IF ~Active /\ ~HasCanonicalPayloadIssue /\ Found(sized) THEN Captured ELSE {}

\* The segment handler streams what is there, unverified.
Streamed(i) == i \in Captured /\ disk.payload[i] # "none"

\* Fault: manifests are not verified.
VerifySegments(r) == IF \A i \in r.held \cap Segments : disk.payload[i] = "ok" THEN "verified" ELSE "degraded"

\* VerifyRecording
VerifyRecording(r) == IF \A i \in r.held : disk.payload[i] = "ok" THEN "verified" ELSE "degraded"

\* ArchiveIndex, which only looks for the files.
ArchiveIndexed(r) == \A i \in r.held : disk.payload[i] # "none"

\* LoadAllReadOnly of another generation: the root as it is.
ReadOnly == IF disk.place = "live" /\ Readable THEN disk.root ELSE None
ListedReadOnly == {r \in {ReadOnly} : r # None}

Init ==
  /\ backend \in {"filesystem", "objects"}
  /\ disk = Empty /\ durable = Empty
  /\ mem = None /\ op = Down /\ issues = {}
  /\ faults = 0 /\ crashes = 0
  /\ acked = {} /\ marked = {} /\ created = FALSE /\ damaged = FALSE /\ deletion = "none"

Next ==
  \/ WriteFile \/ SyncFile \/ PutObject \/ WriteFails
  \/ Create
  \/ \E i \in Items : Commit(i)
  \/ \E s \in Segments : MarkPending(s) \/ AddGap(s)
  \/ \E state \in {"stopped", "interrupted"} : End(state)
  \/ StartDelete \/ HideDirectory \/ SyncHidden \/ RemoveTombstone \/ SyncRemoved
  \/ PutMarker \/ DeleteObjects \/ DeleteFails \/ DeleteAbsent
  \/ Crash \/ PowerLoss \/ Damage
  \/ ResumeTombstones \/ ResumeMarkers \/ LoadFiles \/ LoadObjects

Spec == Init /\ [][Next]_vars

-----------------------------------------------------------------------------
(* Properties. *)

\* Type invariant of the archive.
TypeOK ==
  /\ backend \in {"filesystem", "objects"}
  /\ {disk, durable} \subseteq Disks
  /\ mem \in Roots /\ op.next \in Roots
  /\ op.try \in 1..PersistAttempts
  /\ faults \in 0..MaxFaults /\ crashes \in 0..MaxCrashes
  /\ acked \subseteq Items /\ marked \subseteq Segments

\* What an operation answered with success survives any crash or power loss,
\* unless somebody damaged the archive or asked for the deletion of it: a
\* committed segment or manifest is listed by the durable root and its payload
\* is durable; a segment marked pending, or given up, is accounted for ever
\* after, as pending, captured or a gap (LoadAll makes a gap of what the crash
\* left pending).
CommitSurvives ==
  deletion = "none" /\ ~damaged =>
    /\ \A i \in acked : durable.place = "live" /\ i \in durable.root.held /\ durable.payload[i] = "ok"
    /\ marked \subseteq durable.root.held \cup durable.root.pending \cup durable.root.gaps

\* Playback fails closed: a playlist that is served lists nothing but segments
\* that are captured as they were and that the segment handler streams, though
\* it looks at no byte of them, whatever was lost or damaged before the last
\* startup.
PlaybackFailsClosed ==
  \A sized \in BOOLEAN : \A s \in trackPlaylist(sized) \cup liveTrackPlaylist(sized) :
    disk.payload[s] = "ok" /\ Streamed(s)

\* Startup recovery, VerifyRecording and ArchiveIndex, three walks of their
\* own over the same documents, agree on a Recording nothing has changed.
ChecksAgree ==
  mem # None /\ disk.place = "live" =>
    /\ VerifyRecording(mem) = "verified" => ArchiveIndexed(mem)
    /\ VerifyRecording(mem) = "verified" <=> \A i \in Items : {<<"canonical_payload", i>>, <<"manifest_payload", i>>} \cap issues = {}

\* What a call of DeleteRecordingData removed does not come back, neither for
\* the owner of the archive nor for a read-only generation, whatever fails.  A
\* retry that found nothing left to remove ("absent") promises less: it does
\* not sync, and a power loss can undo the rename of the call before it.
DeletedStaysDeleted == deletion = "done" => mem = None /\ ListedReadOnly = {}

=============================================================================
