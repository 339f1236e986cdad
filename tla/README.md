# Integrated Recorder: TLA+ models

TLA+ modules, TLC configurations and TLAPS proofs for the Integrated Recorder, a
recorder of live streams that upgrades itself without interrupting a Recording.

## 1. The system

A **Runtime Host** is the only long-lived process. It installs *generations* (immutable
releases) and runs, for each generation that still matters, one **Control** process (HTTP
API and user interface) and one **Recorder Engine** process (acquisition of media). An
update stages the next generation beside the running one, checks its readiness, switches
the route to the new Control, and lets the old Engine drain. A Recording in progress stays on the
Engine that started it until it ends or is *handed over* to the Engine of the
active generation.

| part | state | operations | what makes it correct |
|---|---|---|---|
| owner store (`recordingowner`) | one fencing record per Recording, lock shards | Claim, Transfer, Release, WithCommit, WithUnownedCommit, WithFencedRecovery | at most one writer, fenced by an epoch that is never reused, across crashes and power losses |
| generation registry (`generation`) | lifecycle state of each generation, active / previous / staged / pending pointers, leases | Stage .. RemoveRetired, lease operations | pointers and leases stay consistent, what a Recording or a rollback needs is never retired, any state on disk can be reloaded |
| update controller and supervisor (`bootstrap`, `supervisor`) | roles and processes per generation, the public route | Stage, Activate, Rollback, retirement, startup | route, registry and Control activation agree; a failed activation is undone; exactly one Control mutates |
| handover (`acquire` manager, `resources`, update controller) | a worker per Recording on either Engine, tokens, a prepared candidate | Pause, Prepare, Transfer, Activate, Complete, Resume, Discard | one writer; no Recording is abandoned while both Engines are alive |
| segment acquisition (`acquire`) | task per segment, retry timers, gap list | discover, observe, acquire, retry, drain, close | each sequence is stored once or reported as a gap; memory is bounded |
| archive (`storage`: files, or objects of a provider) | payload, sidecar and root of each Recording, tombstones or deletion markers | create, commit, mark, end, delete, recover, verify, serve | what was answered survives, what was deleted does not come back, playback fails closed |
| ingest and resource coordinator (`storage/ingest.go`, `resources`) | buffers and queues of each Engine, reservations and permits at the Host | read, reserve, grow, queue, persist, close, release of a dead owner | the Host counts every byte, one Engine writes, no read waits for ever |
| watch service (`watch`) | a definition, its runtime, links to Recordings, checks in flight | check, start, stop, reconcile, recover, pause | one active Recording per Watch; a stopped broadcast is not recorded again |
| previews (`preview`) | policies, an index and frame files per Recording, a queue | reconcile, extract, retry, evict, delete | index and files agree; every segment is settled |
| exports and verification (`derivative`, `integrity`), retention (`server`) | jobs, results, artifacts, tags, product locks | start, cancel, delete, recover, retire | a completed job is durable; a deletion meets no job and no tag |
| plugin stores (`pluginregistry`, `adaptercatalog`, `storagecatalog`) | selections, published sets, executables, provider state | install, uninstall, reconcile, configure, switch, collect | what a generation or a selection names loads, whatever was torn |
| adapter host and plugin configuration (`adapterhost`, `pluginconfig`) | a process, resolution workflows, a queue of their ends, documents | begin, continue, cancel, expire, restart, disable, close | an answer reaches the process it was given to; every end is reported once |

Components are listed one by one, with what is modelled of them, in `PROJECT.json`, and
so are the hazards: the lines where the code is hard to test, each with the properties
that would catch it going wrong.

### How the parts interact

- The Host is the only process that writes the generation registry and the owner records'
  owner. Engines reach both through it, over a Unix socket: a start *claims* an owner and
  a lease in one call; the end of a Recording *releases* both.
- Every canonical write of an Engine runs inside `recordingowner.Store.WithCommit`, under
  the file lock of the Recording's shard, and only while the record on disk names the
  token of that worker. This fence is what makes ambiguous calls harmless: whoever moves
  the owner makes every older worker fail at its next write.
- The Host commands Controls (prepare, activate, fence, quiesce, resume, deactivate) and Engines
  (drain, inventory, pause, prepare, activate, complete, resume, discard). Every call has a
  deadline, and a handler may go on after the Host stopped waiting for it.
- An Engine reads media into buffers it has reserved at the Host and writes them under the one writer permit of the Host.
  The Control reads the archive, starts Recordings through the Engine manager (a user, or a Watch) and runs the background
  services; the adapter it asks for a stream is a process of its own.
- A generation pins one set of adapters and one of storage providers; these sets are published directories in stores of the Host,
  and a change of either goes through the activation of a new generation.
- The Host holds one operation lock over updates, rollbacks and reconciliation passes,
  so these never overlap. Controls, Engines and their workers run concurrently with them.

### What is hard

Ambiguous answers (a call that timed out and took effect), partial failures between two
durable writes (the owner file and the registry; a rename and the sync of its directory),
crashes between the steps of an activation, workers that are fenced and do not know it,
inventories that are older than the state they are compared with, snapshots that are taken before a call and saved after it,
directories that a crash left half published or half removed, and leaving no Recording
without a worker while the processes it needs are alive.

## 2. Modules

| module | models | composes |
|---|---|---|
| `OwnerStore` | `recordingowner/store.go` | |
| `WriterFence` | what the store promises, abstractly | implemented by `OwnerStore` |
| `OwnerStoreProofs` | proofs about `OwnerStore` | extends it |
| `GenerationRegistry` | `generation/registry.go` | |
| `Activation` | `updateController`, `Supervisor.ActivateControlWith`, `controlplane.Lifecycle`, `bootstrap.Run` | instantiates `GenerationRegistry` |
| `ActivationProofs` | proofs about `Activation` | extends it |
| `Handover` | `ReconcileLeases`, `handoverRecording`, `retireSafeGenerations`, `acquire.Manager`, `RecordingOwnerAuthority` | |
| `HandoverProofs` | proofs about `Handover` | extends it |
| `SegmentScheduler` | `acquire/segments.go`, the manifest loop of `acquire/worker.go`, `Manager.fail` | |
| `SegmentSchedulerProofs` | proofs about `SegmentScheduler` | extends it |
| `Archive` | `storage/store.go`, `management.go`, `object_backend.go`; playlists and segments of `server.go` | |
| `Ingest` | `storage/ingest.go` over `resources/coordinator.go` and `ipc.go` | |
| `IngestProofs` | proofs about `Ingest` | extends it |
| `Watch` | `watch/service.go`, `watch/store.go` | |
| `Previews` | `preview/service.go` | |
| `Jobs` | `derivative/service.go`, `integrity/service.go`, `server/retention.go`, `management/projections.go` | |
| `RecordingsProofs` | proofs about `Archive`, `Jobs` and `Previews` | extends the first, `MCJobs` and `MCPreviews` |
| `Plugins` | `pluginregistry`, `adaptercatalog`, `storagecatalog`, and their flows in `bootstrap` | |
| `RegistriesProofs` | proofs about `GenerationRegistry` and `Plugins` | extends both |
| `Adapters` | `adapterhost`, `pluginconfig`, the workflow events of `server/routes_products.go` | |
| `SourcesProofs` | proofs about `Adapters` and `Watch` | extends the first and `MCWatch` |
| `MC...`, one for each but `WriterFence` and the proofs, `MCRegistries` for both `GenerationRegistry` and `Plugins` | constants and symmetry for TLC; in `MCWatch`, `MCPreviews` and `MCJobs` the properties, too | extend their module |

Each module ends with its properties, or its MC module has them; `TypeOK` is the type invariant of each and documents its variables.
The operators before a definition that begin with "Fault:" are variants of it, each a plausible slip in the code, by which a property was seen to fail.

### OwnerStore

A caller is a thread of a process that opened the store. `call[c]` says where it stands in
the one call it makes; `lock` is the holder of each flock shard. A record is written in
the steps of the code: a temporary file (`Claim`, `Transfer`, `Release`, `FenceOne`, which decide),
`Rename`, `Sync`. `visible` is what a reader finds and `maybe` what a power loss may
leave: a rename adds to `maybe`, a directory sync reduces it to what is visible. `Crash`
kills one process anywhere; `PowerLoss` kills all and picks a record from `maybe`. `issued` is a
history variable: the tokens a successful call returned.

### GenerationRegistry

Each operation is a guard and a copy of the snapshot (`CanStage`, `StageIn`), and `Change`
is what all share: validate, write, rename, sync, publish. `mem` is the snapshot in memory,
`file` and `maybe` as above. A write that fails after the rename leaves `mem` behind
`file`; `Reopen` and `PowerLoss` are the restarts.

### Activation

`op` is the Host's operation: its kind (startup, stage, update, rollback), the step it
stands at, the Control it brings in and the one it takes out. Each Control has a
lifecycle state, a mutation gate with requests in flight, and the command it is `handling`; a
command goes on after the Host stopped waiting (`TimeOut`), except where its handler checks the
deadline the client sent, after it got the lifecycle mutex (`runtimeipc/ipc.go`). The rollback of an
activation deactivates the candidate and resumes the old Control under one cleanup deadline, so
if the first times out the second is not sent. An operation of kind "update" also stands for
the activations that change an adapter or storage-provider set (`reconcileAdaptersWithGate`,
`storage_provider.go`), which run the same transaction. An Engine is launched with its Control and never fails here.

### Handover

One Recording, two Engines. `host` is where the reconciliation pass stands:

    read -> reconcile -> check -> prepare -> pause -> parking -> discard -> drained
         -> transfer -> activate -> detach -> retire -> drain -> count -> recheck -> stop -> dormant
    any failure before transfer -> drop -> undo -> retire
    activate fails -> rollback -> resume -> restored -> retire

`entry[e]` is the worker of an Engine, with its token and its own copy of the archive root (`view`).
A commit writes the copy as a whole, as the code does, so a stale copy overwrites. `late` holds the
calls the Host gave up that a handler will still carry out. `OwnerMuFree` is the one ordering the
code gets from a lock: handlers of resume and activate hold the worker's `ownerMu` to their
end, and an inventory takes it for every worker it reports, so a pass cannot read an Engine past a
call that is still running there.

`Switch` is an update or a rollback between two passes. It reuses an Engine that still runs, as
`updateController.Rollback` does. `Claim` is made once: archive identifiers are not reused
in a Host's life. The call of `CompleteHandover` at the target of a rolled-back transfer
is left out, because the target is never parked and refuses it. `Stop` is refused during a handover and is otherwise one of the ways a Recording
ends (`Finish`). The Host does not crash in this module: after a restart no Engine is alive and
recovery fences every owner, which is `OwnerStore`'s recovery.

### SegmentScheduler

One worker of one Engine, from the playlist to the root of the Recording. Three kinds of actors share the root and the task table:
the manifest loop, the fetch workers with their retry timers, and the storage writer.

    loop:  poll -> publish -> expire -> (discover -> admit)* -> poll
                                        after ENDLIST: endlist -> drain -> complete
           any stop or failure -> close -> join -> finish -> done
           a pause for handover: poll -> handover -> parked -> poll or done
    task:  queued -> fetching -> persisting -> (segment)
           fetching -> retryWait -> queued, or gapCommitting -> (gap)
           fetching -> refreshing -> refreshed -> returning -> queued, awaitManifest or gapCommitting
           a canceled worker leaves its task "abandoned" for close to report as pending

Two looks of the code at shared state are separate steps, because others move in between: `Discover` reads the root before `Admit`
locks the scheduler, and `PollManifest` takes the protected keys (`protectedByEpoch`) before `Publish` locks the root. A refresh is two steps
too: the new source is visible (`Refresh`, `RefreshByLoop`) before the scheduler is told (`NoteRefresh`, `NoteByLoop`). A timer that was
stopped may still fire; it is then `stale`. `FailFatal` sets the error, closes and cancels in one step, although the code cancels after it unlocked:
a loop that meets the error in between fails as in `PollFails`.

The numbering of a playlist has no holes, because the parser counts segments (`hls/parse.go`); holes come from a window that moved on.
A `run` is one numbering of the source; the discontinuity sequence, URI and program time the code compares to tell two runs apart
are that number here. Only what these properties need of the gap list is kept, the keys it covers; how ranges are merged is a pure algorithm of its own.

### Archive

One Recording, `disk` what a reader finds and `durable` what a power loss leaves; the memory of the Engine that owns it is `mem`. All changes hold
`entry.persistMu`, so there is one operation `op`, and a crash may come between any two of its steps:

    commit (files):    payload -> sync -> sidecar -> sync -> root -> sync -> memory
    commit (objects):  put payload -> put sidecar -> put root, each published, answered or neither
    delete (files):    hide (rename to a tombstone) -> sync -> remove -> sync
    delete (objects):  put marker -> delete the objects one by one
    startup:           resume deletions -> load, adopt, report, interrupt

The two backends share the actions that differ in nothing (`Commit`, `End`, `Recover`) and have their own for the rest (`WriteFile`/`SyncFile` against `PutObject`). Recovery,
verification, the index of exports and the two playlists are operators over the same documents, so that one can be compared with another.

### Ingest

Engines read bodies into arrays that grow by doubling, over a Host that counts bytes:

    new -> reserve -> grant -> reading -> copy -> shrink -> reading ... -> read
    read -> slot -> lease -> queued -> permit -> persist -> unwritten -> over
    a failed or refused step: unread, unqueued, refused -> over

`hold`, `queue` and `writers` are the Coordinator. A call may be lost before it is applied or after (`CallLost`); an Engine may be closed or die at any point,
its waiting calls are then served all the same (`orphans`) until the Host reclaims what it held (`ReleaseOwner`).

### Watch

One Watch. `chk` is its check, which holds `Service.mu` only within an action; `rc` is the snapshot of the reconciliation of links, which has no lock while the Engine answers;
`calls` are starts on their way to the Engine, which may answer, refuse, or carry them out after the Watch gave up.

    check:  queued -> ask (the adapter) -> reconcile -> claim -> claimed -> start -> none

`abandoned` remembers starts that were given up and `harm` a save that undid another; of a Recording, `known` says that it started with the identity of its broadcast, and `notified` that the notice of its stop
was saved while it was active. The properties say what they except, and section 5 what it means. After a save that
undid another the model adds no more faults.

### Previews

`index` is the cache of resident indexes, `indexDisk` and `frames` the files. `Reconcile` is `ReconcileGet` (the Recording is read without the lock) and `ReconcileOne`; a worker takes a task,
extracts without the lock and comes back with an outcome (`FinishTask`), or finds its Recording deleted (`DropResult`).
`DeleteRecording` is a chain of actions: the archive, the mark, the join of active workers, the forgetting, the policy file, the tree.

The module also has the Control application around the service, as far as it stops and restarts the loop that reconciles. `hand` is how far `prepareHandoff` came, `loop` and `again` are
`previewCancel`, `previewStopping` and `previewRestart`:

    serving -> join (the loop ends its pass) -> drain (deletions, tasks, dirty indexes) -> handed -> the next generation, or serving again
    join, drain -> serving after a deadline; a loop that is still stopping gets `again`

`leftover` remembers a restart that an earlier handoff asked for and that came in the middle of this one (behaviour 7).

### Jobs

Both job services have the same shape: `Start` admits and saves, a worker takes the job, works without the lock, and finishes under it. `SaveFails` is an
error before or after the rename; what each caller does with it is its own. `held` is the write lock of a Recording's product lock, taken by a
deletion or by the retention, which scanned without it. `Restart` opens the services, recovers pending deletions and loads, in the order of the code.

### Plugins

`op` is the operation at the gate of the update controller and its step; everything durable survives `Crash`. A publication is a rename and a later sealing
(`unsealed`), a removal is done entry by entry (`torn`); what a load accepts depends on both. `Selected` is the whole selection of `ReconcileWithSources`: probes, quarantine, duplicate binary
names, twins of one adapter and version, and entries that are preserved. A remote install is *set -> seal -> commit -> import -> start -> verify*, with a rollback of the selection when the candidate
fails; a provider install is *import -> seal -> record -> carry (its configuration)*.

### Adapters

`lock` is the adapter's `opMu`. A workflow's request is

    new -> checking (the generation) -> persisting (answers) -> waiting -> asking -> answered
        -> prompted -> published, or resolving -> over

and everything after `answered` runs without `opMu`, while `control` may disable or restart the adapter and `CancelWorkflow`, `Expire` and `Close` end sessions. `queue` and `history`
are the ends of workflows before and after `Flush`, which may fail and be repeated; `history` is all that was ever persisted, of which the store keeps the newest (`projections.go:253`). `docs` are the slots a batch of documents has written: a failure half-way restores them, and
the restoration may fail, too, in the code; the model has at most one such failure.

## 3. Runs

| run | shows | bounds |
|---|---|---|
| `owner_store` | lock exclusion, fencing, no circular wait, and that the store implements `WriterFence`, which has fresh epochs | 2 Recordings on 2 shards, 2 workers, 2 callers, epochs up to 2 |
| `activation_faults` | one Control mutates and service comes back after one fault; a startup settles after any | 4 generations (startup, two updates, a staged one), 3 faults, 1 request in flight |
| `handover_faults` | the lease stays with the writer, no Engine is stopped under one, nothing committed is lost but to a rollback, a faultless pass leaves the Recording recording | epochs up to 7: three handovers with their rollbacks; 3 writes; 2 faults |
| `segments` | what is settled is not fetched again; an ended Recording accounts for all it discovered; the drain after ENDLIST and a stop come to an end (liveness) | 2 sequences, 2 numberings, a table of 1 task, 1 worker, 1 refresh, failing polls, refreshes and writes |
| `archive` | an answered commit survives, an answered mark stays accounted for, playback fails closed, the walks that verify an archive agree, a deletion is final | 2 segments, 1 manifest, either backend, 2 faults or damages, 2 crashes or power losses |
| `ingest` | the Host covers every array, one Engine persists, reads end (liveness) | 2 payloads of up to 2 chunks in 2 Engines, one of which or both have them, a budget of 3 chunks, 1 queue slot, 1 lost call |
| `watch` | one active Recording, a broadcast that was stopped with its identity known, or with its notice first, is not recorded again, a pending start is resolved (liveness) | 2 Recordings, 1 broadcast, 1 event: a change by the user or a fault |
| `watch_stopped` | a violation: a broadcast that was stopped without an identity is recorded again (behaviour 16) | 2 Recordings, 1 broadcast, no event: the user only stops, nothing goes wrong |
| `previews` | indexes list only frames that exist, a deletion leaves nothing, what was handed to the next generation is idle, segments settle however handoffs fail (liveness) | 2 Recordings, 1 segment, 1 resident index, 1 worker, a queue of 1, 2 events |
| `jobs` | completed jobs are durable, deletions are alone, jobs end (liveness) | 1 Recording, 2 workers, 2 jobs with a history of 1, 2 faults |
| `registries` | the generation registry: every snapshot can be reopened, abort undoes activate; the plugin stores: what is pinned loads, entries leave a set only when replaced | one store changes, the other stays as at the start. Registry: 4 generations, the limit reached; 2 Recordings of 2 workers and a limit of 1 lease; 2 snapshots to lose. Plugins: 4 executables of 2 adapters (two versions, two claims of one, a broken one), 2 provider releases, 2 configurations, 4 generations, 2 operations, 1 event, 1 fault |
| `adapters` | continuations keep their process, endings are reported once, no unwanted process | 2 workflows and an earlier one, 2 process generations, 1 control operation, 1 continuation and 1 other call, 1 fault |

Why the bounds suffice. An epoch is only compared with its neighbours, so two epochs show a
claim over a tombstone, a transfer and the overflow guard of the owner store; a handover uses two (transfer, rollback), and
seven allow three handovers, whatever was lost in the first two. Two callers show every pair of overlapping calls,
which is what the exclusion properties are about; the proofs extend this to any number. A registry needs an
active, a previous, a staged and one more generation to reach its limits. Two faults are a lost
call and the failure of what should repair it. With two faults the
properties of `Activation` about one Control do fail, downstream of behaviour 1 below or when two commands in a row time out and are carried out all
the same; these three say `faults <= 1`.

The scheduler compares sequences, epochs and generations with their neighbours only: two sequences give a window that moves past one
and a poll that skips one, two numberings the end of an epoch, and one refresh an old and a current source. A table of one is a full table (`StopWhileFull`); one task
still meets its retry timer, the loop, the writer and a refresh. The proofs of section 4 have no such bounds.

An archive compares each item with its own documents and the root: two segments make a root that lists one and not the other, and two crashes a crash during the recovery from one.
Two payloads are two readers that want the last chunks, two writers, or an old and a new generation. The budget of three is the least
`ValidateIngestOptions` allows for arrays of two (`maxReallocationPeak`), so every growth is contended. A Watch has one pending and one active
Recording at a time; a second broadcast and two events were too much for a run to keep, and one event already lets any fault meet any interleaving. Previews need
one Recording more than resident indexes to evict, and one segment more than the window of a pass is given by the second Recording. Jobs need a verification and an export, or
two of a kind and a history that holds one. `Plugins` needs an operation and the one that undoes or supersedes it; four generations hold the active, the previous, the
staged and a candidate. Two workflows show one that ends while the other continues, and two generations of the process an old and a new one.

`registries` checks two modules that have no variable in common, and no property of it relates them; its behaviours change one of them only (`MCRegistries`), so it explores the sum of the two state spaces, which is what two runs would.

Symmetry is used where no operation tells the elements apart (workers, callers, generations,
Engines, segments, workflows) and only in runs of safety properties; `PROPERTY` entries of such runs are action properties.
`CHECK_DEADLOCK FALSE` is set where the system may really stop: in `activation_faults` every generation of the bounded set may have failed; Recordings, payloads, jobs and
deletions end; and the other bounded runs use up their events.

### Fairness

`SegmentScheduler!FairSpec`: weak fairness of every step of a worker, a timer or the writer, because requests, refreshes and writes
have deadlines and their goroutines run; and of every step of the loop but a poll, a pause and a refresh of its own, which nothing obliges to happen.
A parked worker is resumed, for the Host completes or resumes every handover (`Handover` says when it does not). `StopEnds` needs no poll to succeed.

`Ingest!Fairness`: the step of each payload and the writer of each Engine, because goroutines run, bodies have deadlines and so does every call. Nothing obliges an Engine to close, to die or to read.

`Watch!Fairness`: the worker, what the Engine does with a start it received, recovery, the reconciliation of links and the end of a close, weakly; and strongly a reconciliation
that finds the Engine and the disk able to answer, because ticks keep coming and faults do not last for ever.

`Previews!Fairness`: the ticker reconciles every Recording again and again (strong, for another one may be read in between), a task that a pass can queue again and again
is queued, workers end (`previewTimeout`), a deletion goes on, a closed process is followed by another, a stopped loop ends after its pass, and the waits of a handoff have a deadline.

`Jobs!FairJobsSpec`: each step of a worker, because FFmpeg has a timeout and verification ends.

Nothing makes a Recording end, an update come, a commit happen or a user act.

## 4. Proofs

One module for one component or a few, for every value of the constants; where a module is about several, it extends them all, and their specifications (`Spec`, `WatchSpec`, `JobsSpec`, `PreviewsSpec`) have constants and variables of their own. Each has an inductive invariant, one lemma for each action or group of
actions, and the theorems at its end. What the proofs add to the properties that the runs check is said here.

`OwnerStoreProofs`, for any sets of Recordings, workers and callers, any number of shards and any hash.
`TypeCorrect` first. The inductive invariant `IInv` adds to the properties: `HoldsLocks`
(a call inside its critical section holds its shard; a recovery holds a prefix of the shards, then all),
`WriteFollowsRecord` (the record about to be renamed continues the one on disk by one epoch, or fences it; a record being synchronized is the
visible one and newer than every token issued) and `VisibleMayRemain`. Without `WriteFollowsRecord` the property
`EpochIssuedOnce` is not inductive: a token is returned two steps after its epoch was chosen. The argument: lock exclusion
follows from `HoldsLocks` alone (`LocksExclude`); then a step of one caller changes the disk only for a Recording whose
shard it holds (`ChangesUnderLock`), so other callers' facts about their records stay true (`OthersKeep`), and the caller's own
write is handled step by step (`OwnWriteKept`). Power losses end every call (`PowerLossKeeps`). Two results follow from `IInv`. `NoDeadlockOfShards`: recoveries
take the shards in one order and a call takes one, so whoever holds the shard that a waiting recovery waits for does not wait itself (`HeldForReason`, `SomebodyCanGoOn`).
`StoreImplementsFence`: each step of the store is a step of `WriterFence` or a stutter under its refinement mapping.

`RegistriesProofs`, `GenerationRegistry`: for any limits and any finite sets: every operation maps a usable snapshot to a
usable one (one lemma per operation), hence every snapshot a restart may find is usable, hence the final
validation is redundant; laws of abort and rollback; and leases move by transfer only. `Usable` is the strengthening:
the validation of `Open` alone is not inductive, because it does not say that a candidate is the staged
generation.

`RegistriesProofs`, `Plugins`: for any plugins, versions, configurations, local files and faults. `PinnedSetsLoad` is inductive with three facts more. `Pointers`: the active, the previous and the
staged generation are what the pointers say. `Prepared`: what an operation has ready at each of its steps; the selection is committed only after the set it names is published
and sealed, the provider state only after its executable and its set are. `TornListed`: a provider executable that was removed in part is still in the store, so the next
operation reads its manifest before it uses it. A collection removes nothing that a live generation pins (`CollectAdapters`, `CollectProviders`), and publication only adds (`Grows`, `PinsMove`).
The action property `EntriesLeaveOnlyReplaced` follows from the set that reconciliation chooses. `PluginsAssumption` says, too, that there is room for a generation.

`ActivationProofs`, for any number of generations, requests, operations and faults. The properties are about executions with at most one fault, so
`IInv` says what holds always (`Types`, `Placed`, `Gones`, `Prepared`), what holds until a second fault (`Calm`) and what holds before any (`Faultless`). `Exclusive`, of `Calm`, is the argument of `OneControlServes` and `MutationsStayInTheirEpoch`:
a Control is `Busy` when it admits mutations, or executes a command that may make it admit them. None is while the ownership passes from one to the other; else only the route's is, or,
after the one fault there was, the candidate while it is told to close. `Handlers` and `Executed` are needed because a command that timed out is still carried out: they say in which state each command finds its Control. `OneFaultKeepsService` needs `Serving`: an operation that fails must find
the old Control in a state from which `undo` brings it back, and `Serving` lists those states by the step of the operation. That a failing step is the one fault, and not a second way to fail, is `Faultless`:
without a fault every Control the operation calls is alive and in the state the command expects, and the registry accepts (`Prepared`).
`StartupSettles`, an action property, holds after any number of faults (`StartupEnds`).

`HandoverProofs`, for any two Engines and any number of epochs, writes and faults. `Fenced` says which tokens a worker, a command that is under way or the Host may have
(`Entitled`: if it is the durable one, the authority and the lease name its Engine); with `Relied`, what the Host may rely on at each of its steps, `WriterIsLeased` is inductive, and the
action property `EngineIsKept` follows. `Copied` relates the copy of the root that the owner's worker has to the root itself: they are equal, but for what a target wrote before its activation was rolled back. The code lets
a source be resumed behind the root; what keeps its copy from spreading is that it cannot hand over again (`Strayed`). `OnlyRolledBackIsLost` rests on it. `Moving` has the copies of both workers around the transfer. `Smooth` is for `NoFaultStrands`: what the owner's worker does at each step of a pass in which nothing fails.

`SegmentSchedulerProofs`, for any number of sequences, numberings, refreshes, tasks, workers and attempts. `SettledIsNotRetried` is not
inductive: an observation could make a gap of a sequence that got its task after the protected keys were read. `SchedulerInv` adds that a playlist is
published under the protection of every task there is (`PublishProtects`: only `Admit` adds a task, and the loop is not there), that
nothing is left when the loop completes, parks or ends (`EndsWithoutTasks`), and that a removed task has no timer (`RemovedIsNotWoken`).
What an observation adds is the lemma `ObserveAdds`; the steps of a worker write one live task (`OneTaskWritten`) or settle one
(`OneTaskSettled`). `Shape` has the types without the bounds of the model: that the counters stay within the bounds
is left to `TypeOK`.

`CapturedIsNoGap` follows from the same facts, with one that the next property needs, too: an interrupted Recording stays interrupted (`InterruptedStays`). It needs no assumption on the faults.

`EndAccountsForAll` needs the account of every state, not only of the last (`Accounts`: what was discovered is captured, a gap, pending or a task), that a terminal state is given at the end of the
loop and leaves nothing pending (`EndsStay`, `NothingPends`), and that a task knows the numbering it was seen under, for a segment without one would count as none. That last fact,
and that what is discovered lies in an epoch there is, is `Numbering`: the epoch never runs ahead of the restarts of the source, although a refresh may outdate a poll
that saw one. What an observation removes is the lemma `ObserveKeeps`. A loop has a next sequence in hand because a set of naturals has a least element (`MinIsIn`, from the library's
well-foundedness of `<`).

`RecordingsProofs`, `Archive`: for any segments, manifests and attempts, any number of faults, crashes and power losses, on files and on objects. `Unsynced`: what is on disk differs from what a power loss leaves
by the write in progress at most. `Survives`: what was answered is supported by the root on disk, by the durable one, by the root in memory and by the
one a recovery is about to write. `Session` is for the playlists: while its Engine captures a Recording its payloads are whole, and for one that was loaded, what `LoadAll` reported is what there is to report. `Places` says where the directory is before, during and after its deletion, `Shape` how far each operation came. `CommitSurvives`,
`PlaybackFailsClosed`, `ChecksAgree` and the action property `DeletedStaysDeleted` follow.

`RecordingsProofs`, `Jobs`: for any Recordings, workers, histories and faults. `JobsShape` has the types; the Services do not reuse the number of a job, and a number above `issued` is free in memory, on disk and in `exports/`.
`QueuesOfKind`: a queue holds jobs of its Service. `WorkersApart`: two workers of the exports never have the same job, and a job is completed only after its artifact is published. `RemovedIsForgotten`: the directory that a Delete
has still to remove belongs to no job. With them `CompletedIsDurable` and `DeletionIsAlone` are inductive: every save stores the jobs that the step leaves (`SavesStore`, `DurableStep`), a Start prunes only jobs
that ended (`PrunedIsTerminal`), and no step but a Start and a restart makes a job active (`SameJobs`).

`RecordingsProofs`, `Previews`: for any Recordings, workers, segments, caps and budgets, and any number of faults and crashes. `FramesBehindIndexes` is stronger than `IndexedFramesExist`: it holds of deleted Recordings, too, for the next
process does not know who was deleted. `PreviewDeletions` says what is gone at each step of a deletion; that nothing brings it back while the tree is removed rests on `Forgotten`: no policy, no resident index that an eviction could save, and
no worker. `HandedOffIsIdle` needs the channel, for tasks of a deleted Recording stay in it when `queued` is empty: `QueuedOnce` says that every other task in it is queued, once, so a task taken after the handoff starts nothing. It is kept because a pass
queues each segment once (`PickedIsApart`, by the least turn of the loop at which it would fail), and `LoopStops` says that no pass is under way.

`IngestProofs`, for any Engines, Recordings, payloads and budgets and any number of lost calls. `Accounted`: what a payload reserved, and what the Host holds for it, cover the arrays
it has and the one it is about to allocate. `Permits` and `Queues`: who persists has the permit, and each queued payload is queued once, in its own Engine. `Buried`: the payloads of a dead Engine are dead, those that a call of it still waits for included. That the sum of the
reservations stays within the budgets is checked and not proved: it is a fold over all payloads, and needs induction over it.

`SourcesProofs`, `Adapters`: for any set of workflows and any bounds. `Places`: the queue of events has a place for each workflow that may still end, and none ends twice. `Locks`: who holds the adapter, and when nobody may, which gives `NothingRunsUnwanted`. `Requests`: what a request in flight knows of its workflow; a live one is continued in the generation that began it,
and one that is not live yet has a reservation. `Work` and `Surroundings` are the types.
`AdaptersAssumption` says that workflows are none of the names of the other callers, and that there is room for at least one process and one event: without it the first start would have no number.

`SourcesProofs`, `Watch`: for any number of Recordings and broadcasts, any number of faults and changes by a user. That at most one Recording records is not inductive, for a call on its way makes another one: `LinksAgree` counts it in (`Records`), and
says that what records is the active or the pending Recording of the `Runtime`, one of which is none. An action may look at what the adapter and the Engine say, but moves what records only through the links: `Moves` is what an action may do to them, `SameLinksMove` that it may do
so whatever the rest of the `Runtime` becomes, and `JobGoesOn` what the rest of a check relies on. `StartsAreNew` has the id of a start unknown to the Engine until the call, `Unborn` a Watch that was not defined without any, and
`SnapshotAgrees` says that what the reconciliation of links saw at an end has ended since, so that its save may forget it. All but the first two hold until a save undoes another (`harm`).
`OneActive` counts no start that was given up, and says nothing after such a save (behaviours 14 and 15).
The action property `StoppedStaysStopped`, with the same exceptions and that of behaviour 16, rests on `StopsRemembered`. A stopped Recording of the broadcast on the air that was `known` or `notified` is remembered in one of three ways (`Recalls`): it is linked still, its broadcast is suppressed, or its end is the outcome of the `Runtime`; and the steps
turn one into another in any order: the stop, its notice, the reconciliations of either link, a look at the broadcast with an identity or without (`RestIsLeftAlone`: it then claims nothing), a recovery. `Unstopped` says that no Recording of the broadcast of a claim was stopped, and `Numbered` that a claim has
seen every earlier broadcast. `Remembers` is what a step may make of the `Runtime`; `StartResolved` alone calls the Engine (`OnlyStartsCall`).

Assumptions: those named in the modules (`ConstantsAssumption`, `RegistryAssumption`, `ActivationAssumption`, `HandoverAssumption`, `SchedulerAssumption`, `ArchiveAssumption`, `IngestAssumption`, `AdaptersAssumption`, `WatchAssumption`, `PluginsAssumption`, `JobsAssumption`, `PreviewAssumption`), which TLC evaluates in
every run.

Proved without a run of their own: the epochs of the owner store, the redundancy of the registry's final validation, the law of two rollbacks, `CapturedIsNoGap` and the epochs of the scheduler.
Model-checked only: the bounds in `TypeOK` where `Types` or `Shape` leaves them out; and liveness.
Out of the prover's reach: liveness under fairness and ENABLED, and induction over data: the library's theorems take an operator. Where a proof needs one over the naturals, it takes the least counterexample instead (`LeastNatural`).

## 5. Behaviours found

What the models show the code to do, and a reader may not expect. Each is part of a module as it is, and the properties say what they except because of it; only 16 has a run of its own.

Updates and handover:

1. The first update cannot be aborted: `AbortActivation` needs the previous rollback target and the first update has none (`registry.go:285`, `:326`). After a failed activation the route is
   back on the old Control while the registry keeps the candidate active and without a journal.
2. `ResumeHandover` keeps the worker's old copy of the root, so a resumed source overwrites what a rolled-back target committed (`acquire/manager.go:518`). `OnlyRolledBackIsLost` shows that nothing else is lost.
3. A draining Engine can be made the default again; `draining` is never reset, so it refuses every start (`recorderengine/service.go:267`).
4. A source is never detached when the Recording ends on its target first (`acquire/manager.go:549`, `update_controller.go:796`). No fault is needed.
5. A lost answer to a pause leaves the source parked until a later pass (`update_controller.go:976`).
6. A Control that resumes after a failed handoff does not restart a storage-metrics loop that is still stopping (`cmd/control-plane/main.go:1001`; not modelled).
7. The request to restart the loop of the previews is not taken back: `stopPreviewReconciler` joins the loop, and if an earlier handoff that timed out left `previewRestart`, the loop starts again behind the fence
   (`cmd/control-plane/main.go:842`) although `pauseForHandoff` counts on it ("the preview producer has stopped", `:942`). Without `~leftover`, TLC refutes `HandedOffIsIdle` in five steps:
   a handoff, its deadline and the resume it causes, a second handoff, the end of the pass, and the handover.

Segments and archive:

8. The high-water mark covers a whole playlist before its sequences have tasks (`worker.go:257`): a refresh makes the loop drop the rest, and a stop before the next poll leaves them neither captured nor reported.
9. A loop that fails makes gaps of pending sequences before it joins the workers (`manager.go:1925`), so a queued commit may make one both; `CapturedIsNoGap` and `SettledIsNotRetried` except an interrupted Recording for it. A worker whose attempts are exhausted may give up a task on the ENDLIST of a source refreshed a moment ago.
10. Recovery adopts a segment from its sidecar and makes a gap of its pending entry, too (`store.go:579` to `:640`).
11. A retried deletion that finds nothing answers success without a sync (`management.go:411`), so that a power loss can undo the rename of the call before it.

Ingest:

12. A lost release of the writer permit or of a queue slot is not repeated; it stays until its Engine is dead. A blocked call of a dead Engine may be admitted after `ReleaseOwner` "reclaims every lease held by ownerID" (`coordinator.go:668`).
13. Two growing readers of one Engine exclude each other (`ingest.go:387`); those of two Engines share only the budget of the Host and may wait for each other until a deadline.

Watch:

14. A start whose answer is lost is given up while the Engine may carry it out, and the next check starts another (`watch/service.go:915`; `docs/ARCHITECTURE.md:150` has one).
15. A reconciliation saves a `Runtime` it read before the Engine answered (`reconcileOne`, `claimStarting`), and may undo a suppression, a pending or an active Recording that was saved in between.

16. A stopped broadcast may be recorded again, with no fault at all. The comment at `watch/service.go:811` promises: "If the stopped session had no stable identity, a later first session reference may
    merely be newly available metadata for the same live broadcast. Keep suppression until an offline observation." But only `NotifyRecordingStopped` suppresses, and only if it finds the Recording active (`:1035`, `:1040`). A Recording
    starts without a session reference, the user stops it, and a reconciliation clears the link first (`markTerminal`, `:1280`), or the notice comes before the start is committed: the outcome is "stopped", nothing is suppressed. The next
    check brings the first session reference; it is not the same session (`:806`), so the outcome does not count (`:828`), and a start follows. Run `watch_stopped` has the trace, and `PROJECT.json` the finding. Without an identity the same happens when a restart loses
    the notice, when the disk refuses its save, or when the `Runtime` still has the identity of an earlier session, which it then suppresses instead. `StoppedStaysStopped` excepts these cases: it needs the identity
    at the start (`known`), or a notice that was saved in time (`notified`).

Previews and jobs:

17. `RetryFailed` clears the failures of a segment whose last attempt is running, which then comes back as permanent. A policy that is disabled and enabled again during an extraction marks a permanent `source_unavailable`.
18. A canceled verification goes on while a new one of the same Recording starts. The history that was pruned for a job is not restored when the save of that job fails (`derivative/service.go:873`). `integrityStart` appends its event after it released the product lock (`routes_products.go:506`).

Plugins and adapters:

19. A crash between the rename of a directory and its `Chmod`, or within a removal, leaves a directory no load accepts and no collection removes (`storagecatalog/catalog.go:741`); its content cannot be imported again.
20. A switch of the physical backend checks that both archives are empty (`docs/PLUGIN_REGISTRY_V1.md:92`) before the candidate starts, and a rollback goes back without the check.
21. Quarantine is the memory of one Host process (`adaptercatalog/catalog.go:986`): after a restart a broken executable is probed once more.
22. The comment at `control.go:188` has a race closed by the check of the generation at publication; the gate reopens before the next process has its generation, so that a stale workflow can be published. It then ends at its next continuation.
23. `CancelWorkflow` answers success while a continuation that is past its last check still resolves and starts a Recording (`workflow.go:480`). Cancelling a continuation in flight kills the adapter process and strands the other workflows of that generation.
24. Batches of configuration documents are restored after one failure, not after a crash or a second failure (`pluginconfig/store.go:139`).

Playback (not modelled): the media sequence of a live playlist is the ordinal of its first segment, and ordinals are reserved before segments are committed out of order (`server.go:1033`).

## 6. Not modelled

Each part that is left out is listed in `PROJECT.json` with its reason: presentation and read models, wire formats and their validation, downloads and signature checks, process plumbing, plain data types, and
parts that interact little with the rest (authentication, system settings, the installation record). Of modelled parts the following is left out: initialization segments, ordinals and epoch markers, the preloaded
candidate of a handover; several Recordings in one handover pass; the retention and metrics loops of a Control; the other budgets of the Coordinator; metadata timelines; several adapters or Watches at once, but for what they share.

## 7. Plan

1. Compositions: the scheduler over `Ingest` and `Archive` (a sequence that is captured is durable), `Plugins` over `GenerationRegistry`.
2. `ControlLoops` (`cmd/control-plane/main.go`): the other background loops over fence and resume, composed with `Activation` and with the loop of `Previews`.
3. `StorageProcess`: restarts of a provider and what they do to a put in flight.
4. Pure algorithms against reference definitions: gap lists (`addMissingRanges`), segment numbering of playlists, `findHandoverCandidate`.
