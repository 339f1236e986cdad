------------------------------ MODULE Plugins ------------------------------
(* The plugin stores of the Runtime Host and the operations that change them:
   the remote selection of source plugins (pluginregistry), the adapter sets
   imported from it and from the local directory (adaptercatalog), the storage
   providers and their configured sets (storagecatalog), and the generations
   that pin one set of each (bootstrap: plugin_registry.go, storage_provider.go,
   update_controller.go).

   One operation at a time holds the gate of the update controller: op is that
   operation and the step it is at. Everything else here is durable, except
   quarantine. A directory of a store is published by
   a rename, made read-only afterwards, and removed entry by entry: a crash or
   an I/O error in between leaves it unsealed or torn.

   A plugin executable is its content digest. A source selection is the set of
   selected executables, an adapter set the set of its entries [name, by], a
   storage set <<version, config>> of the one provider; Local is the built-in
   storage. The generation registry, the Engines and Controls behind a candidate
   are the business of GenerationRegistry and Activation: here a candidate
   starts and becomes active in one step, or fails. *)
EXTENDS Integers, FiniteSets

CONSTANTS
  Bytes, NoBytes,       \* plugin executables
  AdapterOf, VersionOf, \* what the descriptor of an executable claims
  Sound,                \* the executables whose probe succeeds
  Releases,             \* the executables the remote registry may offer
  Names,                \* binary names in the local directory (adapter ids included)
  MaxVersion,           \* releases of the storage provider
  Configs, NoConfig,    \* provider configurations: physical backends
  Accepts,              \* the configurations the schema of a version accepts
  MaxHeld,       \* generations the registry holds
  MaxOps, MaxFaults, MaxEvents  \* bounds: operations, faults, events and Recordings

ASSUME PluginsAssumption ==
  /\ MaxVersion \in Nat /\ MaxHeld \in Nat \ {0}
  /\ NoBytes \notin Bytes /\ NoConfig \notin Configs
  /\ Sound \subseteq Bytes /\ Releases \subseteq Bytes
  /\ DOMAIN AdapterOf = Bytes /\ DOMAIN VersionOf = Bytes /\ {AdapterOf[b] : b \in Bytes} \subseteq Names
  /\ \A v \in 1 .. MaxVersion : Accepts[v] \subseteq Configs

Ids == 1 .. MaxHeld
Local == <<0, NoConfig>>

VARIABLES
  local,          \* the executable under each name of the local directory
  desired,        \* desired.json: the selected source plugins
  sourceSets,     \* published source sets of the remote registry
  unsealed,       \* the directories still writable
  downloads,      \* downloaded source executables
  adapterSets,    \* published adapter sets
  artifacts,      \* imported adapter executables
  quarantine,     \* executables not to be probed again by this Host
  providers,      \* imported provider executables (versions)
  providerSets,   \* published storage sets
  installed,      \* state.json: the installed version of the provider, or 0
  chosen,         \* state.json: its desired set, or Local
  torn,           \* directories of which a part is removed
  gens,           \* generations: state, adapters, storage
  active, previous, staged,
  lease,          \* the generation of a Recording in progress, or 0
  archive,        \* the backends that hold Recordings
  op,             \* the operation that holds the gate
  up,             \* the Host runs
  ops, faults, events  \* counted towards the bounds

sourceVars == <<desired, sourceSets, downloads>>
adapterVars == <<adapterSets, artifacts, quarantine>>
providerVars == <<providers, providerSets, installed, chosen>>
genVars == <<gens, active, previous, staged>>
recVars == <<lease, archive>>
vars == <<local, sourceVars, unsealed, adapterVars, providerVars, torn, genVars, recVars, op, up, ops, faults, events>>

NoGen == [state |-> "none", adapters |-> {}, storage |-> Local]
NoOp == [kind |-> "none", step |-> "", new |-> {}, old |-> {}, set |-> Local]

Idle == up /\ op = NoOp
Asked == Idle /\ ops < MaxOps /\ ops' = ops + 1
Goto(step) == op' = [op EXCEPT !.step = step]
Event == events < MaxEvents /\ events' = events + 1
Fault == faults < MaxFaults /\ faults' = faults + 1

\* A Host on which a source plugin is installed and active, and the first version
\* of the storage provider is installed and configured, not active.
Init ==
  /\ local = [n \in Names |-> NoBytes]
  /\ \E b \in Releases \cap Sound :
       LET set == {[name |-> AdapterOf[b], by |-> b]} IN
       /\ desired = {b} /\ sourceSets = {{b}} /\ downloads = {b}
       /\ adapterSets = {set} /\ artifacts = {b}
       /\ gens = [g \in Ids |-> IF g = 1 THEN [state |-> "active", adapters |-> set, storage |-> Local] ELSE NoGen]
  /\ \E c \in Accepts[1] : chosen = <<1, c>> /\ providerSets = {<<1, c>>}
  /\ providers = {1} /\ installed = 1
  /\ unsealed = {} /\ torn = {} /\ quarantine = {}
  /\ active = 1 /\ previous = 0 /\ staged = 0
  /\ lease = 0 /\ archive = {} /\ op = NoOp /\ up = TRUE
  /\ ops = 0 /\ faults = 0 /\ events = 0

-----------------------------------------------------------------------------
(* What can be loaded *)

\* validateSourceSet: all files and no write permission.
SourceSetLoads(s) == s \in sourceSets /\ <<"source", s>> \notin unsealed
\* adaptercatalog.load does not look at the write permission of the directory.
AdapterSetLoads(s) ==
  /\ s \in adapterSets /\ <<"adapters", s>> \notin torn
  /\ \A e \in s : e.by \in artifacts /\ <<"artifact", e.by>> \notin torn
\* loadArtifact requires mode 0500.
ProviderLoads(v) == v \in providers /\ <<"provider", v>> \notin unsealed \cup torn
StorageSetLoads(s) == s \in providerSets /\ <<"storage", s>> \notin torn /\ ProviderLoads(s[1])
StorageLoads(s) == s = Local \/ StorageSetLoads(s)
\* readState
ProviderStateLoads ==
  /\ installed # 0 => ProviderLoads(installed)
  /\ chosen # Local => StorageSetLoads(chosen) /\ installed # 0

Live(g) == gens[g].state \in {"active", "draining", "staged"}
Free == {g \in Ids : gens[g] = NoGen}

-----------------------------------------------------------------------------
(* Source plugins: Prepare, Commit, Rollback and CollectGarbage *)

\* The selection after a change: one executable per plugin.
With(sel, b) == {x \in sel : AdapterOf[x] # AdapterOf[b]} \cup {b}

BeginChange(kind, new) ==
  op' = [NoOp EXCEPT !.kind = kind, !.step = "set", !.old = desired, !.new = new]

\* downloadAndVerify probes the executable for the identity it was offered with.
Download(b) == b \in Sound /\ downloads' = downloads \cup {b}

\* PrepareInstall up to the download of the release the registry offers.
Install ==
  /\ Asked /\ staged = 0 /\ SourceSetLoads(desired)
  /\ \E offer \in Releases :
       /\ \A b \in desired : AdapterOf[b] = AdapterOf[offer] => VersionOf[b] # VersionOf[offer]
       /\ Download(offer)
       /\ BeginChange("install", With(desired, offer))
  /\ UNCHANGED <<local, desired, sourceSets, unsealed, adapterVars, providerVars, torn, genVars, recVars, up, faults, events>>

Uninstall ==
  /\ Asked /\ staged = 0 /\ SourceSetLoads(desired)
  /\ \E b \in desired : BeginChange("uninstall", desired \ {b})
  /\ UNCHANGED <<local, sourceVars, unsealed, adapterVars, providerVars, torn, genVars, recVars, up, faults, events>>

\* CollectGarbage keeps the selection on disk; it runs after the plan is closed.
Collected(sel) ==
  /\ sourceSets' = {sel}
  /\ unsealed' = {d \in unsealed : d[1] # "source"}
  /\ downloads' = downloads \cap sel

\* plan.Close and the deferred CollectGarbage.
EndChange == op' = NoOp /\ Collected(desired')

\* ensureSourceSet: an existing directory is valid (unsealed ones do not outlive
\* the operation or the next start), a new one is renamed into place and sealed
\* afterwards.
EnsureSourceSet ==
  /\ op.step = "set"
  /\ \/ op.new \in sourceSets /\ <<"source", op.new>> \notin unsealed
        /\ Goto("commit") /\ UNCHANGED <<sourceSets, unsealed, downloads>>
     \/ op.new \notin sourceSets /\ op.new \subseteq downloads
        /\ sourceSets' = sourceSets \cup {op.new} /\ unsealed' = unsealed \cup {<<"source", op.new>>}
        /\ Goto("seal") /\ UNCHANGED downloads
  /\ UNCHANGED <<local, desired, adapterVars, providerVars, torn, genVars, recVars, up, ops, faults, events>>

SealSourceSet ==
  /\ op.step = "seal" /\ op.kind \in {"install", "uninstall"}
  /\ unsealed' = unsealed \ {<<"source", op.new>>}
  /\ \/ Goto("commit") /\ UNCHANGED <<sourceSets, faults>>
     \/ Fault /\ op' = NoOp /\ sourceSets' \in {sourceSets, sourceSets \ {op.new}}
  /\ UNCHANGED <<local, desired, downloads, adapterVars, providerVars, torn, genVars, recVars, up, ops, events>>

\* writeAtomic: the file may have been replaced although the write is reported to
\* fail.
FailedWrite(old, new) == {old, new}

Commit ==
  /\ op.step = "commit" /\ desired = op.old
  /\ \/ desired' = op.new /\ Goto("import") /\ UNCHANGED <<sourceSets, unsealed, downloads, faults>>
     \/ Fault /\ desired' \in FailedWrite(op.old, op.new) /\ EndChange
  /\ UNCHANGED <<local, adapterVars, providerVars, torn, genVars, recVars, up, ops, events>>

\* verifyActivePlugin and verifyActivePluginAbsent
InEffect ==
  LET set == gens[active].adapters IN
  /\ AdapterSetLoads(set)
  /\ op.kind = "install" => \E e \in set : e.by \in op.new \ op.old
  /\ op.kind = "uninstall" => \A e \in set, b \in op.old \ op.new : AdapterOf[e.by] # AdapterOf[b]

Verify ==
  /\ op.step = "verify"
  /\ IF InEffect THEN UNCHANGED desired /\ EndChange ELSE Goto("rollback") /\ UNCHANGED <<desired, sourceSets, unsealed, downloads>>
  /\ UNCHANGED <<local, adapterVars, providerVars, torn, genVars, recVars, up, ops, faults, events>>

RollbackSelection ==
  /\ op.step = "rollback"
  /\ \/ desired' = op.old /\ UNCHANGED faults
     \/ Fault /\ UNCHANGED desired
  /\ EndChange
  /\ UNCHANGED <<local, adapterVars, providerVars, torn, genVars, recVars, up, ops, events>>

-----------------------------------------------------------------------------
(* The adapter catalog: ReconcileWithSources *)

EditLocal ==
  /\ Event
  /\ \E n \in Names, b \in Bytes \cup {NoBytes} : local[n] # b /\ local' = [local EXCEPT ![n] = b]
  /\ UNCHANGED <<sourceVars, unsealed, adapterVars, providerVars, torn, genVars, recVars, op, up, ops, faults>>

Candidates ==
  {[from |-> "local", name |-> n, by |-> local[n]] : n \in {m \in Names : local[m] # NoBytes}}
  \cup {[from |-> "registry", name |-> AdapterOf[b], by |-> b] : b \in desired}

SameAdapter(c, d) == AdapterOf[c.by] = AdapterOf[d.by]

\* An adapter ID and version is a claim to the bytes of the entry in use.
Conflicts(c, fallback) ==
  \E e \in fallback : SameAdapter(e, c) /\ VersionOf[e.by] = VersionOf[c.by] /\ e.by # c.by

SharesName(c) == \E d \in Candidates \ {c} : d.name = c.name
Refused(fallback, known) ==
  {c \in Candidates : ~SharesName(c) /\ (c.by \in known \/ c.by \notin Sound \/ Conflicts(c, fallback))}
Imported(fallback, known) == {c \in Candidates : ~SharesName(c)} \ Refused(fallback, known)
Twins(valid) == {c \in valid : \E d \in valid \ {c} : SameAdapter(c, d)}

\* Fault: only a duplicate adapter ID keeps the entry in use.
PreservedByAdapter(fallback, names, adapters) == {e \in fallback : AdapterOf[e.by] \in adapters}

\* The entries of the fallback that a failed candidate might have replaced.
Preserved(fallback, names, adapters) ==
  {e \in fallback : e.name \in names \/ AdapterOf[e.by] \in adapters}

\* The entries selected: what validates and is not ambiguous, and what has to be
\* kept of the fallback. A candidate that clashes with a kept entry fails too,
\* until nothing clashes.
Selected(fallback, known) ==
  LET valid == Imported(fallback, known)
      rest == valid \ Twins(valid)
      failed == Candidates \ rest
      adapters == {AdapterOf[c.by] : c \in Twins(valid) \cup {d \in Refused(fallback, known) : d.by \in Sound}}
      Kept(lost) == Preserved(fallback, {c.name : c \in failed \cup lost}, adapters)
      Clash(lost) == {c \in rest : \E e \in Kept(lost) : SameAdapter(c, e) \/ c.name = e.name}
      lost == CHOOSE l \in SUBSET rest : Clash(l) = l /\ \A m \in SUBSET rest : Clash(m) = m => l \subseteq m
  IN Kept(lost) \cup {[name |-> c.name, by |-> c.by] : c \in rest \ lost}

\* fallbackOrError: a residue in the way of an artifact or of the set leaves the
\* set in use as it is.
Outcome(fallback, known) ==
  IF \/ \E c \in Imported(fallback, known) : <<"artifact", c.by>> \in torn
     \/ <<"adapters", Selected(fallback, known)>> \in torn
  THEN fallback ELSE Selected(fallback, known)

\* Probes and imports the candidates and publishes the set.
Reconcile(fallback, known) ==
  /\ quarantine' = known \cup {c.by : c \in Refused(fallback, known)}
  /\ artifacts' = artifacts \cup {c.by : c \in Imported(fallback, known)}
  /\ adapterSets' = adapterSets \cup {Outcome(fallback, known)}

-----------------------------------------------------------------------------
(* Generations: a candidate with a new set of one kind *)

NewGen == CHOOSE g \in Free : \A h \in Free : g <= h
StageWith(adapters, storage) ==
  /\ staged = 0 /\ Free # {}
  /\ gens' = [gens EXCEPT ![NewGen] = [state |-> "staged", adapters |-> adapters, storage |-> storage]]
  /\ staged' = NewGen /\ UNCHANGED <<active, previous>>

Activated(g) ==
  /\ gens' = [gens EXCEPT ![g].state = "active", ![active].state = "draining"]
  /\ active' = g /\ previous' = active /\ staged' = 0

\* reconcileAdapters, by the periodic loop or on request.
BeginReconcile ==
  /\ Idle /\ staged = 0
  /\ \/ Outcome(gens[active].adapters, quarantine) # gens[active].adapters
     \/ Refused(gens[active].adapters, quarantine) # {c \in Candidates : ~SharesName(c) /\ c.by \in quarantine}
  /\ op' = [NoOp EXCEPT !.kind = "reconcile", !.step = "import"]
  /\ UNCHANGED <<local, sourceVars, unsealed, adapterVars, providerVars, torn, genVars, recVars, up, ops, faults, events>>

\* What follows a candidate that is not needed, is active, or failed.
AfterActive == IF op.kind \in {"install", "uninstall"} THEN Goto("verify") ELSE op' = NoOp

AfterFailed == IF op.kind \in {"install", "uninstall"} THEN Goto("rollback") ELSE op' = NoOp

ImportCandidates ==
  /\ op.step = "import" /\ SourceSetLoads(desired)
  /\ LET now == gens[active].adapters
         set == Outcome(now, quarantine)
     IN /\ Reconcile(now, quarantine)
        /\ \/ set = now /\ AfterActive /\ UNCHANGED genVars
           \/ set # now /\ Free = {} /\ AfterFailed /\ UNCHANGED genVars
           \/ set # now /\ StageWith(set, gens[active].storage) /\ Goto("start")
  /\ UNCHANGED <<local, sourceVars, unsealed, providerVars, torn, recVars, up, ops, faults, events>>

\* The Engine and the Control of the candidate start on its sets and it becomes active.
StartCandidate ==
  /\ op.step = "start"
  /\ AdapterSetLoads(gens[staged].adapters) /\ StorageLoads(gens[staged].storage)
  /\ Activated(staged) /\ AfterActive
  /\ UNCHANGED <<local, sourceVars, unsealed, adapterVars, providerVars, torn, recVars, up, ops, faults, events>>

\* failCandidate
FailCandidate ==
  /\ op.step = "start"
  /\ Fault
  /\ gens' = [gens EXCEPT ![staged].state = "failed"] /\ staged' = 0 /\ AfterFailed
  /\ UNCHANGED <<local, sourceVars, unsealed, adapterVars, providerVars, torn, active, previous, recVars, up, ops, events>>

\* An application update carries both sets of the active generation forward.
StageUpdate ==
  /\ Asked
  /\ StageWith(gens[active].adapters, gens[active].storage)
  /\ UNCHANGED <<local, sourceVars, unsealed, adapterVars, providerVars, torn, recVars, op, up, faults, events>>

ActivateUpdate ==
  /\ Idle /\ staged # 0
  /\ op' = [NoOp EXCEPT !.kind = "update", !.step = "start"]
  /\ UNCHANGED <<local, sourceVars, unsealed, adapterVars, providerVars, torn, genVars, recVars, up, ops, faults, events>>

\* RollbackUpdate restarts the previous generation on the sets it pins.
RollbackUpdate ==
  /\ Asked /\ previous # 0
  /\ AdapterSetLoads(gens[previous].adapters) /\ StorageLoads(gens[previous].storage)
  /\ gens' = [gens EXCEPT ![previous].state = "active", ![active].state = "draining"]
  /\ active' = previous /\ previous' = active /\ UNCHANGED staged
  /\ UNCHANGED <<local, sourceVars, unsealed, adapterVars, providerVars, torn, recVars, op, up, faults, events>>

-----------------------------------------------------------------------------
(* The storage provider *)

Provider(step, set) == op' = [NoOp EXCEPT !.kind = "provider", !.step = step, !.set = set]

\* PrepareStorageArtifact: a version the registry offers, other than the installed one.
ProviderOffers == (1 .. MaxVersion) \ {installed}

\* Import: an executable of that version is there and loads, or is renamed into
\* place and sealed afterwards.
Import(v) ==
  \/ ProviderLoads(v) /\ Provider("carry", <<v, NoConfig>>) /\ UNCHANGED <<providers, unsealed>>
  \/ /\ v \notin providers
     /\ providers' = providers \cup {v} /\ unsealed' = unsealed \cup {<<"provider", v>>}
     /\ Provider("seal", <<v, NoConfig>>)

InstallProvider ==
  /\ Asked /\ staged = 0 /\ ProviderStateLoads
  /\ \E v \in ProviderOffers : Import(v)
  /\ UNCHANGED <<local, sourceVars, adapterVars, providerSets, installed, chosen, torn, genVars, recVars, up, faults, events>>

SealProvider ==
  /\ op.step = "seal" /\ op.kind = "provider"
  /\ LET sealed == unsealed \ {<<"provider", op.set[1]>>} IN
     \/ unsealed' = sealed /\ Goto("carry") /\ UNCHANGED faults
     \/ Fault /\ op' = NoOp /\ unsealed' \in {unsealed, sealed}
  /\ UNCHANGED <<local, sourceVars, adapterVars, providerVars, torn, genVars, recVars, up, ops, events>>

\* CreateSet: content-addressed, so a set that is there is used if it is valid.
CreateSet(set) == <<"storage", set>> \notin torn /\ providerSets' = providerSets \cup {set}

\* An update carries the configuration over when the new schema accepts it.
CarryConfig ==
  /\ op.step = "carry"
  /\ \/ /\ installed # 0 /\ chosen # Local /\ chosen[2] \in Accepts[op.set[1]]
        /\ LET set == <<op.set[1], chosen[2]>> IN
           IF <<"storage", set>> \in torn THEN op' = NoOp /\ UNCHANGED providerSets
           ELSE CreateSet(set) /\ Provider("record", set)
     \/ /\ installed = 0 \/ chosen = Local \/ chosen[2] \notin Accepts[op.set[1]]
        /\ Goto("record") /\ UNCHANGED providerSets
  /\ UNCHANGED <<local, sourceVars, unsealed, adapterVars, providers, installed, chosen, torn, genVars, recVars, up, ops, faults, events>>

\* writeState
FailedWriteState(old, new) == {old, new}

\* Install: the marker of the installed version.
RecordInstalled ==
  /\ op.step = "record"
  /\ \/ installed' = op.set[1] /\ (IF op.set[2] = NoConfig THEN op' = NoOp ELSE Goto("select")) /\ UNCHANGED faults
     \/ Fault /\ installed' \in FailedWriteState(installed, op.set[1]) /\ op' = NoOp
  /\ UNCHANGED <<local, sourceVars, unsealed, adapterVars, providers, providerSets, chosen, torn, genVars, recVars, up, ops, events>>

Configure ==
  /\ Asked /\ installed # 0 /\ ProviderStateLoads
  /\ \E c \in Accepts[installed] : CreateSet(<<installed, c>>) /\ Provider("select", <<installed, c>>)
  /\ UNCHANGED <<local, sourceVars, unsealed, adapterVars, providers, installed, chosen, torn, genVars, recVars, up, faults, events>>

SelectDesiredSet ==
  /\ op.step = "select" /\ StorageSetLoads(op.set)
  /\ \/ chosen' = op.set /\ UNCHANGED faults
     \/ Fault /\ chosen' \in FailedWriteState(chosen, op.set)
  /\ op' = NoOp
  /\ UNCHANGED <<local, sourceVars, unsealed, adapterVars, providers, providerSets, installed, torn, genVars, recVars, up, ops, events>>

\* The markers go; the sets stay for the collection.
UninstallProvider ==
  /\ Asked /\ staged = 0 /\ installed # 0 /\ gens[active].storage = Local
  /\ installed' = 0 /\ chosen' = Local
  /\ UNCHANGED <<local, sourceVars, unsealed, adapterVars, providers, providerSets, torn, genVars, recVars, op, up, faults, events>>

Backend(set) == set[2]
SameBackend(a, b) == a # Local /\ b # Local /\ Backend(a) = Backend(b)
ArchiveEmpty(set) == Backend(set) \notin archive

\* ActivateStorage: the checks, and the candidate. The Engines go on recording.
SwitchStorage ==
  /\ Asked /\ staged = 0
  /\ \E set \in {Local, chosen} :
       LET now == gens[active].storage IN
       /\ set # now
       /\ set # Local => set[1] = installed /\ StorageSetLoads(set)
       /\ SameBackend(now, set) \/ (lease = 0 /\ ArchiveEmpty(now) /\ ArchiveEmpty(set))
       /\ StageWith(gens[active].adapters, set)
  /\ op' = [NoOp EXCEPT !.kind = "switch", !.step = "start"]
  /\ UNCHANGED <<local, sourceVars, unsealed, adapterVars, providerVars, torn, recVars, up, faults, events>>

StartRecording ==
  /\ up /\ lease = 0 /\ Event
  /\ lease' = active /\ archive' = archive \cup {Backend(gens[active].storage)}
  /\ UNCHANGED <<local, sourceVars, unsealed, adapterVars, providerVars, torn, genVars, op, up, ops, faults>>

EndRecording ==
  /\ up /\ lease # 0 /\ lease' = 0
  /\ UNCHANGED <<local, sourceVars, unsealed, adapterVars, providerVars, torn, genVars, archive, op, up, ops, faults, events>>

\* The last Recording of the backend in use is deleted.
DeleteRecordings ==
  /\ up /\ lease = 0 /\ Backend(gens[active].storage) \in archive
  /\ archive' = archive \ {Backend(gens[active].storage)}
  /\ UNCHANGED <<local, sourceVars, unsealed, adapterVars, providerVars, torn, genVars, lease, op, up, ops, faults, events>>

-----------------------------------------------------------------------------
(* Retirement and the collections *)

RetireGenerations ==
  /\ Idle
  /\ \E g \in Ids \ {active, previous, staged, lease} :
       gens[g].state \in {"draining", "failed"} /\ gens' = [gens EXCEPT ![g] = NoGen]
  /\ op' = [NoOp EXCEPT !.kind = "collect", !.step = "adapters"]
  /\ UNCHANGED <<local, sourceVars, unsealed, adapterVars, providerVars, torn, active, previous, staged, recVars, up, ops, faults, events>>

\* Fault: the generations Rollback and running Recordings need are not protected.
AdapterRootsActive == {gens[active].adapters}

AdapterRoots == {gens[g].adapters : g \in {h \in Ids : Live(h)}}
StorageRoots == ({gens[g].storage : g \in {h \in Ids : Live(h)}} \cup {chosen}) \ {Local}

OldAdapterSets == adapterSets \ AdapterRoots
OldArtifacts == artifacts \ UNION {{e.by : e \in s} : s \in AdapterRoots}
OldStorageSets == providerSets \ StorageRoots
OldProviders == providers \ ({installed} \cup {s[1] : s \in StorageRoots})

\* Both collections fail closed: one directory that does not load, or a root
\* that is not there, and nothing is removed.
AdaptersSettled == torn \cap ({"adapters", "artifact"} \X (adapterSets \cup artifacts)) = {} /\ AdapterRoots \subseteq adapterSets
ProvidersSettled ==
  /\ \A v \in providers : ProviderLoads(v)
  /\ \A s \in providerSets : StorageSetLoads(s)
  /\ StorageRoots \subseteq providerSets

CollectAdapters ==
  /\ op.step = "adapters" /\ Goto("providers")
  /\ IF AdaptersSettled
     THEN /\ adapterSets' = adapterSets \ OldAdapterSets /\ artifacts' = artifacts \ OldArtifacts
     ELSE UNCHANGED <<adapterSets, artifacts>>
  /\ UNCHANGED <<local, sourceVars, unsealed, quarantine, providerVars, torn, genVars, recVars, up, ops, faults, events>>

CollectProviders ==
  /\ op.step = "providers" /\ op' = NoOp
  /\ IF ProvidersSettled
     THEN /\ providerSets' = providerSets \ OldStorageSets /\ providers' = providers \ OldProviders
     ELSE UNCHANGED <<providerSets, providers>>
  /\ UNCHANGED <<local, sourceVars, unsealed, adapterVars, installed, chosen, torn, genVars, recVars, up, ops, faults, events>>

\* A removal ends in the middle of a directory.
TearDirectory ==
  /\ Fault /\ op.kind = "collect" /\ op' = NoOp
  /\ \/ op.step = "adapters" /\ AdaptersSettled
        /\ torn' \in {torn \cup {<<"adapters", s>>} : s \in OldAdapterSets} \cup {torn \cup {<<"artifact", b>>} : b \in OldArtifacts}
     \/ op.step = "providers" /\ ProvidersSettled
        /\ torn' \in {torn \cup {<<"storage", s>>} : s \in OldStorageSets} \cup {torn \cup {<<"provider", v>>} : v \in OldProviders}
  /\ UNCHANGED <<local, sourceVars, unsealed, adapterVars, providerVars, genVars, recVars, up, ops, events>>

-----------------------------------------------------------------------------
(* The Host *)

\* Recordings are recovered after a cold start; their leases are dropped.
Crash ==
  /\ up /\ Fault /\ up' = FALSE
  /\ Free # {}  \* bound: the registry has room for the generation of a cold start
  /\ op' = NoOp /\ quarantine' = {} /\ lease' = 0
  /\ UNCHANGED <<local, desired, sourceSets, downloads, unsealed, adapterSets, artifacts, providerVars, torn, genVars, archive, ops, events>>

\* Whether Run gets past its stores.
HostCanStart ==
  SourceSetLoads(desired) /\ ProviderStateLoads /\ AdapterSetLoads(gens[active].adapters) /\ StorageLoads(gens[active].storage)

\* Run: a candidate left staged fails, the remote registry is collected, the
\* sources are reconciled, and a changed set makes a new active generation.
Restart ==
  /\ ~up /\ HostCanStart /\ up' = TRUE
  /\ Collected(desired)
  /\ LET now == gens[active].adapters
         set == Outcome(now, {})
         old == IF staged = 0 THEN gens ELSE [gens EXCEPT ![staged].state = "failed"]
     IN /\ Reconcile(now, {})
        /\ \/ set = now /\ gens' = old /\ staged' = 0 /\ UNCHANGED <<active, previous>>
           \/ /\ set # now /\ Free # {} /\ staged' = 0 /\ active' = NewGen /\ previous' = active
              /\ gens' = [old EXCEPT ![NewGen] = [state |-> "active", adapters |-> set, storage |-> gens[active].storage],
                                     ![active].state = "draining"]
  /\ UNCHANGED <<local, desired, providerVars, torn, recVars, op, ops, faults, events>>

-----------------------------------------------------------------------------
Step ==
  \/ EnsureSourceSet \/ SealSourceSet \/ Commit \/ Verify \/ RollbackSelection
  \/ ImportCandidates \/ StartCandidate \/ FailCandidate
  \/ SealProvider \/ CarryConfig \/ RecordInstalled \/ SelectDesiredSet
  \/ CollectAdapters \/ CollectProviders

Next ==
  \/ Install \/ Uninstall \/ EditLocal \/ BeginReconcile
  \/ StageUpdate \/ ActivateUpdate \/ RollbackUpdate
  \/ InstallProvider \/ Configure \/ UninstallProvider \/ SwitchStorage
  \/ StartRecording \/ EndRecording \/ DeleteRecordings
  \/ RetireGenerations \/ TearDirectory \/ Crash \/ Restart \/ Step

Spec == Init /\ [][Next]_vars

-----------------------------------------------------------------------------
(* Properties *)

\* Everything a generation, the selection or the provider state names is there
\* and loads, whatever was collected, half published or half removed: a Host
\* that stops at any step starts again, and Rollback has its sets.
PinnedSetsLoad ==
  /\ \A g \in Ids : Live(g) => AdapterSetLoads(gens[g].adapters) /\ StorageLoads(gens[g].storage)
  /\ SourceSetLoads(desired)
  /\ ProviderStateLoads

New(g) == gens[g] = NoGen /\ gens[g]' # NoGen

\* An adapter in use leaves the set only when no source has its binary name any
\* longer or the file of that name replaced it: a broken, ambiguous or
\* contradicting file never takes it away.
EntriesLeaveOnlyReplaced == [][
  \A g \in Ids : New(g) =>
    \A e \in gens[active].adapters \ gens[g]'.adapters :
      \/ \A c \in Candidates : c.name # e.name
      \/ \E c \in Candidates : c.name = e.name /\ c.by \in Sound /\ [name |-> c.name, by |-> c.by] \in gens[g]'.adapters]_vars

=============================================================================
