-------------------------- MODULE RegistriesProofs --------------------------
(***************************************************************************)
(* Proofs about the two registries of the Runtime Host, GenerationRegistry *)
(* and Plugins.                                                            *)
(*                                                                         *)
(* Each mutation of the generation registry maps a usable snapshot to a    *)
(* usable one: one lemma each. Its invariant and the claim that            *)
(* validateSnapshot never refuses a permitted mutation both follow from    *)
(* these lemmas.                                                           *)
(*                                                                         *)
(* The plugin stores keep PluginsInv: every pointer names a generation in  *)
(* the state it should be in, each step of an operation finds what the     *)
(* step before it prepared, and what a generation pins is whole on disk.   *)
(***************************************************************************)
EXTENDS GenerationRegistry, Plugins, TLAPS, FiniteSetTheorems, WellFoundedInduction

-----------------------------------------------------------------------------
(* The registry of generations.                                            *)

\* The limits hold of a snapshot that installs and leases no more than s.
LEMMA LimitsShrink ==
  ASSUME NEW s \in Snapshot, NEW t \in Snapshot, WithinLimits(s),
         Installed(t) \subseteq Installed(s), Leased(t) \subseteq Leased(s)
  PROVE  WithinLimits(t)
<1>1. IsFiniteSet(Installed(s)) /\ IsFiniteSet(Leased(s))
  <2>1. Installed(s) \subseteq Generations /\ Leased(s) \subseteq Recordings
    BY DEF Installed, Leased
  <2> QED BY <2>1, FS_Subset, RegistryAssumption
<1>2. /\ Cardinality(Installed(t)) <= Cardinality(Installed(s))
      /\ Cardinality(Leased(t)) <= Cardinality(Leased(s))
  BY <1>1, FS_Subset
<1>3. /\ IsFiniteSet(Installed(t)) /\ IsFiniteSet(Leased(t))
  BY <1>1, FS_Subset
<1>4. /\ Cardinality(Installed(t)) \in Nat /\ Cardinality(Leased(t)) \in Nat
      /\ Cardinality(Installed(s)) \in Nat /\ Cardinality(Leased(s)) \in Nat
  BY <1>1, <1>3, FS_CardinalityType
<1> QED BY <1>2, <1>4, RegistryAssumption DEF WithinLimits

\* Staging adds one generation below the limit.
LEMMA StageKeepsUsable ==
  ASSUME NEW s \in Snapshot, Usable(s), NEW g \in Generations, CanStage(s, g)
  PROVE  StageIn(s, g) \in Snapshot /\ Usable(StageIn(s, g))
<1> DEFINE t == StageIn(s, g)
<1>1. t \in Snapshot
  BY DEF Snapshot, StageIn, States
<1>2. Installed(t) = Installed(s) \cup {g} /\ g \notin Installed(s) /\ Leased(t) = Leased(s)
  BY DEF Installed, Leased, StageIn, CanStage, Snapshot
<1>3. WithinLimits(t)
  <2>1. IsFiniteSet(Installed(s))
    <3>1. Installed(s) \subseteq Generations
      BY DEF Installed
    <3> QED BY <3>1, FS_Subset, RegistryAssumption
  <2>2. Cardinality(Installed(t)) = Cardinality(Installed(s)) + 1
    BY <1>2, <2>1, FS_AddElement
  <2>3. Cardinality(Installed(s)) \in Nat
    BY <2>1, FS_CardinalityType
  <2> QED BY <1>2, <2>2, <2>3, RegistryAssumption DEF WithinLimits, CanStage, Usable, ValidSnapshot
<1>4. Consistent(t)
  BY RegistryAssumption, <1>2 DEF Usable, ValidSnapshot, Consistent, StageIn, CanStage, Snapshot, Candidate,
     Attached, States, Leased, NoLease, Lease
<1>5. CandidateIsStaged(t) /\ TargetNeedsDefault(t)
  BY RegistryAssumption DEF Usable, CandidateIsStaged, TargetNeedsDefault, StageIn, CanStage, Snapshot
<1> QED BY <1>1, <1>3, <1>4, <1>5 DEF Usable, ValidSnapshot

\* A mutation that installs and leases no more only has to keep the rest.
LEMMA UsableByParts ==
  ASSUME NEW s \in Snapshot, Usable(s), NEW t \in Snapshot,
         Installed(t) \subseteq Installed(s), Leased(t) \subseteq Leased(s),
         Consistent(t), CandidateIsStaged(t), TargetNeedsDefault(t)
  PROVE  Usable(t)
BY LimitsShrink DEF Usable, ValidSnapshot

LEMMA AdvanceKeepsUsable ==
  ASSUME NEW s \in Snapshot, Usable(s), NEW g \in Generations,
         NEW from \in Candidate, NEW to \in Candidate, CanAdvance(s, g, from)
  PROVE  AdvanceIn(s, g, to) \in Snapshot /\ Usable(AdvanceIn(s, g, to))
<1> DEFINE t == AdvanceIn(s, g, to)
<1>1. t \in Snapshot
  BY DEF Snapshot, AdvanceIn, States, Candidate
<1>2. Installed(t) = Installed(s) /\ Leased(t) = Leased(s)
  BY DEF Installed, Leased, AdvanceIn, CanAdvance, Snapshot, Candidate
<1>3. Consistent(t)
  BY RegistryAssumption, <1>2 DEF Usable, ValidSnapshot, Consistent, AdvanceIn, CanAdvance, Snapshot, Candidate,
     Attached, States, Leased, NoLease, Lease
<1>4. CandidateIsStaged(t) /\ TargetNeedsDefault(t)
  BY RegistryAssumption DEF Usable, CandidateIsStaged, TargetNeedsDefault, AdvanceIn, CanAdvance, Snapshot, Candidate
<1> QED BY <1>1, <1>2, <1>3, <1>4, UsableByParts

LEMMA FailKeepsUsable ==
  ASSUME NEW s \in Snapshot, Usable(s), NEW g \in Generations, CanFail(s, g)
  PROVE  FailIn(s, g) \in Snapshot /\ Usable(FailIn(s, g))
<1> DEFINE t == FailIn(s, g)
<1>1. t \in Snapshot
  BY DEF Snapshot, FailIn, CanFail, States
<1>2. Installed(t) \subseteq Installed(s) /\ Leased(t) \subseteq Leased(s)
  BY RegistryAssumption DEF Installed, Leased, FailIn, CanFail, Snapshot, Candidate, Lease, NoLease
<1>3. Consistent(t)
  BY RegistryAssumption, <1>2 DEF Usable, ValidSnapshot, Consistent, FailIn, CanFail, Snapshot, Candidate,
     Attached, States, Leased, LeasesOf, NoLease, Lease, TargetNeedsDefault
<1>4. CandidateIsStaged(t) /\ TargetNeedsDefault(t)
  BY RegistryAssumption DEF Usable, ValidSnapshot, Consistent, CandidateIsStaged, TargetNeedsDefault, FailIn, CanFail,
     Snapshot, Candidate
<1> QED BY <1>1, <1>2, <1>3, <1>4, UsableByParts

LEMMA ActivateKeepsUsable ==
  ASSUME NEW s \in Snapshot, Usable(s), NEW g \in Generations, CanActivate(s, g)
  PROVE  ActivateIn(s, g) \in Snapshot /\ Usable(ActivateIn(s, g))
<1> DEFINE t == ActivateIn(s, g)
<1>1. t \in Snapshot
  BY DEF Snapshot, ActivateIn, CanActivate, States
<1>2. Installed(t) \subseteq Installed(s) /\ Leased(t) \subseteq Leased(s)
  BY RegistryAssumption DEF Installed, Leased, ActivateIn, CanActivate, Snapshot, Usable, ValidSnapshot, Consistent,
       Lease, NoLease
<1>3. Consistent(t)
  <2>1. /\ t.state = [h \in Generations |-> CASE h = g -> "active"
                                              [] h # g /\ h = s.active -> "draining"
                                              [] OTHER -> s.state[h]]
        /\ t.dormant = s.dormant \ {g} /\ t.active = g /\ t.pending = s.previous /\ t.staged = None /\ t.lease = s.lease
        /\ t.previous = IF s.active = None THEN s.previous ELSE s.active
    BY DEF ActivateIn, Snapshot
  <2>2. Consistent(s) /\ TargetNeedsDefault(s) /\ s.state[g] = "ready" /\ g # None
    BY RegistryAssumption DEF Usable, ValidSnapshot, CanActivate
  <2>3. s.active # g /\ s.previous # g /\ g \notin s.dormant
    BY <2>2 DEF Consistent
  <2>4. s.active \in Generations \cup {None} /\ s.previous \in Generations \cup {None} /\ s.dormant \subseteq Generations
    BY DEF Snapshot
  <2>5. \A h \in Generations : /\ t.state[h] = "active" <=> h = t.active
                               /\ h = s.active \/ h = s.previous => t.state[h] = "draining"
                               /\ s.state[h] \in {"draining", "retired"} => t.state[h] = s.state[h]
    <3> SUFFICES ASSUME NEW h \in Generations
                 PROVE  /\ t.state[h] = "active" <=> h = t.active
                        /\ h = s.active \/ h = s.previous => t.state[h] = "draining"
                        /\ s.state[h] \in {"draining", "retired"} => t.state[h] = s.state[h]
      OBVIOUS
    <3>1. /\ s.state[h] = "active" <=> h = s.active
          /\ h = s.previous => s.state[h] = "draining"
      BY RegistryAssumption, <2>2 DEF Consistent
    <3>2. CASE h = g
      BY <2>1, <2>2, <2>3, <3>2
    <3>3. CASE h # g /\ h = s.active
      BY <2>1, <3>1, <3>3
    <3>4. CASE h # g /\ h # s.active
      BY <2>1, <3>1, <3>4
    <3> QED BY <3>2, <3>3, <3>4
  <2>6. t.previous # None => t.state[t.previous] = "draining"
    BY <2>1, <2>4, <2>5
  <2>7. t.pending # None => /\ t.state[t.pending] = "draining" /\ t.pending # t.previous
                            /\ t.active # None /\ t.previous # None
    <3>1. s.previous # None => s.active # None /\ s.state[s.previous] = "draining" /\ s.state[s.active] = "active"
      BY <2>2, <2>4 DEF Consistent, TargetNeedsDefault
    <3> QED BY <2>1, <2>2, <2>4, <2>5, <3>1
  <2>8. \A r \in Leased(t) : Attached(t, t.lease[r].gen)
    <3>1. SUFFICES ASSUME NEW r \in Leased(s) PROVE Attached(t, s.lease[r].gen)
      BY <1>2, <2>1
    <3>2. Attached(s, s.lease[r].gen) /\ s.lease[r].gen \in Generations
      BY <2>2 DEF Consistent, Leased, Snapshot, Lease, NoLease
    <3> QED BY <2>1, <2>2, <2>5, <3>2 DEF Consistent, Attached
  <2>9. \A h \in t.dormant : t.state[h] \in {"draining", "retired"}
    BY <2>1, <2>2, <2>4, <2>5 DEF Consistent
  <2> QED BY <2>1, <2>5, <2>6, <2>7, <2>8, <2>9 DEF Consistent
<1>4. CandidateIsStaged(t) /\ TargetNeedsDefault(t)
  BY RegistryAssumption DEF Usable, ValidSnapshot, Consistent, CandidateIsStaged, TargetNeedsDefault, ActivateIn,
       CanActivate,
     Snapshot, Candidate
<1> QED BY <1>1, <1>2, <1>3, <1>4, UsableByParts

LEMMA FinalizeKeepsUsable ==
  ASSUME NEW s \in Snapshot, Usable(s), NEW g \in Generations, CanFinalize(s, g)
  PROVE  FinalizeIn(s) \in Snapshot /\ Usable(FinalizeIn(s))
<1> DEFINE t == FinalizeIn(s)
<1>1. t \in Snapshot
  BY DEF Snapshot, FinalizeIn, CanFinalize, States
<1>2. Installed(t) \subseteq Installed(s) /\ Leased(t) \subseteq Leased(s)
  BY RegistryAssumption DEF Installed, Leased, FinalizeIn, CanFinalize, Snapshot, Lease, NoLease
<1>3. Consistent(t)
  BY RegistryAssumption, <1>2 DEF Usable, ValidSnapshot, Consistent, FinalizeIn, CanFinalize, Snapshot, Candidate,
     Attached, States, Leased, LeasesOf, NoLease, Lease, TargetNeedsDefault
<1>4. CandidateIsStaged(t) /\ TargetNeedsDefault(t)
  BY RegistryAssumption DEF Usable, ValidSnapshot, Consistent, CandidateIsStaged, TargetNeedsDefault, FinalizeIn,
       CanFinalize,
     Snapshot, Candidate
<1> QED BY <1>1, <1>2, <1>3, <1>4, UsableByParts

LEMMA AbortKeepsUsable ==
  ASSUME NEW s \in Snapshot, Usable(s), NEW g \in Generations, NEW old \in Generations, CanAbort(s, g, old)
  PROVE  AbortIn(s, g, old) \in Snapshot /\ Usable(AbortIn(s, g, old))
<1> DEFINE t == AbortIn(s, g, old)
<1>1. t \in Snapshot
  BY DEF Snapshot, AbortIn, CanAbort, States
<1>2. Installed(t) \subseteq Installed(s) /\ Leased(t) \subseteq Leased(s)
  BY RegistryAssumption DEF Installed, Leased, AbortIn, CanAbort, Snapshot, Lease, NoLease
<1>3. Consistent(t)
  BY RegistryAssumption, <1>2 DEF Usable, ValidSnapshot, Consistent, AbortIn, CanAbort, Snapshot, Candidate,
     Attached, States, Leased, LeasesOf, NoLease, Lease, TargetNeedsDefault
<1>4. CandidateIsStaged(t) /\ TargetNeedsDefault(t)
  BY RegistryAssumption DEF Usable, ValidSnapshot, Consistent, CandidateIsStaged, TargetNeedsDefault, AbortIn,
       CanAbort,
     Snapshot, Candidate
<1> QED BY <1>1, <1>2, <1>3, <1>4, UsableByParts

LEMMA RollbackKeepsUsable ==
  ASSUME NEW s \in Snapshot, Usable(s), CanRollback(s)
  PROVE  RollbackIn(s) \in Snapshot /\ Usable(RollbackIn(s))
<1> DEFINE t == RollbackIn(s)
<1>1. t \in Snapshot
  BY DEF Snapshot, RollbackIn, CanRollback, States
<1>2. Installed(t) \subseteq Installed(s) /\ Leased(t) \subseteq Leased(s)
  BY RegistryAssumption DEF Installed, Leased, RollbackIn, CanRollback, Snapshot, Usable, ValidSnapshot, Consistent,
       Lease, NoLease
<1>3. Consistent(t)
  BY RegistryAssumption, <1>2 DEF Usable, ValidSnapshot, Consistent, RollbackIn, CanRollback, Snapshot, Candidate,
     Attached, States, Leased, LeasesOf, NoLease, Lease, TargetNeedsDefault
<1>4. CandidateIsStaged(t) /\ TargetNeedsDefault(t)
  BY RegistryAssumption DEF Usable, ValidSnapshot, Consistent, CandidateIsStaged, TargetNeedsDefault, RollbackIn,
       CanRollback,
     Snapshot, Candidate
<1> QED BY <1>1, <1>2, <1>3, <1>4, UsableByParts

LEMMA MarkDormantKeepsUsable ==
  ASSUME NEW s \in Snapshot, Usable(s), NEW g \in Generations, CanMarkDormant(s, g)
  PROVE  MarkDormantIn(s, g) \in Snapshot /\ Usable(MarkDormantIn(s, g))
<1> DEFINE t == MarkDormantIn(s, g)
<1>1. t \in Snapshot
  BY DEF Snapshot, MarkDormantIn, CanMarkDormant, States
<1>2. Installed(t) \subseteq Installed(s) /\ Leased(t) \subseteq Leased(s)
  BY RegistryAssumption DEF Installed, Leased, MarkDormantIn, CanMarkDormant, Snapshot, Lease, NoLease
<1>3. Consistent(t)
  BY RegistryAssumption, <1>2 DEF Usable, ValidSnapshot, Consistent, MarkDormantIn, CanMarkDormant, Snapshot,
       Candidate,
     Attached, States, Leased, LeasesOf, NoLease, Lease, TargetNeedsDefault
<1>4. CandidateIsStaged(t) /\ TargetNeedsDefault(t)
  BY RegistryAssumption DEF Usable, ValidSnapshot, Consistent, CandidateIsStaged, TargetNeedsDefault, MarkDormantIn,
       CanMarkDormant,
     Snapshot, Candidate
<1> QED BY <1>1, <1>2, <1>3, <1>4, UsableByParts

LEMMA RetireKeepsUsable ==
  ASSUME NEW s \in Snapshot, Usable(s), NEW g \in Generations, CanRetire(s, g)
  PROVE  RetireIn(s, g) \in Snapshot /\ Usable(RetireIn(s, g))
<1> DEFINE t == RetireIn(s, g)
<1>1. t \in Snapshot
  BY DEF Snapshot, RetireIn, CanRetire, States
<1>2. Installed(t) \subseteq Installed(s) /\ Leased(t) \subseteq Leased(s)
  BY RegistryAssumption DEF Installed, Leased, RetireIn, CanRetire, Snapshot, Lease, NoLease
<1>3. Consistent(t)
  BY RegistryAssumption, <1>2 DEF Usable, ValidSnapshot, Consistent, RetireIn, CanRetire, Snapshot, Candidate,
     Attached, States, Leased, LeasesOf, NoLease, Lease, TargetNeedsDefault
<1>4. CandidateIsStaged(t) /\ TargetNeedsDefault(t)
  BY RegistryAssumption DEF Usable, ValidSnapshot, Consistent, CandidateIsStaged, TargetNeedsDefault, RetireIn,
       CanRetire,
     Snapshot, Candidate
<1> QED BY <1>1, <1>2, <1>3, <1>4, UsableByParts

LEMMA RemoveKeepsUsable ==
  ASSUME NEW s \in Snapshot, Usable(s), NEW g \in Generations, CanRemove(s, g)
  PROVE  RemoveIn(s, g) \in Snapshot /\ Usable(RemoveIn(s, g))
<1> DEFINE t == RemoveIn(s, g)
<1>1. t \in Snapshot
  BY DEF Snapshot, RemoveIn, CanRemove, States
<1>2. Installed(t) \subseteq Installed(s) /\ Leased(t) \subseteq Leased(s)
  BY RegistryAssumption DEF Installed, Leased, RemoveIn, CanRemove, Snapshot, Lease, NoLease
<1>3. Consistent(t)
  BY RegistryAssumption, <1>2 DEF Usable, ValidSnapshot, Consistent, RemoveIn, CanRemove, Snapshot, Candidate,
     Attached, States, Leased, LeasesOf, NoLease, Lease, TargetNeedsDefault
<1>4. CandidateIsStaged(t) /\ TargetNeedsDefault(t)
  BY RegistryAssumption DEF Usable, ValidSnapshot, Consistent, CandidateIsStaged, TargetNeedsDefault, RemoveIn,
       CanRemove,
     Snapshot, Candidate
<1> QED BY <1>1, <1>2, <1>3, <1>4, UsableByParts

LEMMA ColdStartKeepsUsable ==
  ASSUME NEW s \in Snapshot, Usable(s), NEW g \in Generations, CanColdStart(s, g)
  PROVE  ColdStartIn(s, g) \in Snapshot /\ Usable(ColdStartIn(s, g))
<1> DEFINE t == ColdStartIn(s, g)
<1>1. t \in Snapshot
  BY DEF Snapshot, ColdStartIn, ClearLeasesIn, CanColdStart, States
<1>2. Installed(t) \subseteq Installed(s) /\ Leased(t) \subseteq Leased(s)
  BY RegistryAssumption DEF Installed, Leased, ColdStartIn, ClearLeasesIn, CanColdStart, Snapshot, Lease, NoLease
<1>3. Consistent(t)
  BY RegistryAssumption, <1>2 DEF Usable, ValidSnapshot, Consistent, ColdStartIn, ClearLeasesIn, CanColdStart,
       Snapshot, Candidate,
     Attached, States, Leased, LeasesOf, NoLease, Lease, TargetNeedsDefault
<1>4. CandidateIsStaged(t) /\ TargetNeedsDefault(t)
  BY RegistryAssumption DEF Usable, ValidSnapshot, Consistent, CandidateIsStaged, TargetNeedsDefault, ColdStartIn,
       ClearLeasesIn, CanColdStart,
     Snapshot, Candidate
<1> QED BY <1>1, <1>2, <1>3, <1>4, UsableByParts

LEMMA UnpinKeepsUsable ==
  ASSUME NEW s \in Snapshot, Usable(s), NEW r \in Recordings, s.lease[r] # NoLease
  PROVE  UnpinIn(s, r) \in Snapshot /\ Usable(UnpinIn(s, r))
<1> DEFINE t == UnpinIn(s, r)
<1>1. t \in Snapshot
  BY DEF Snapshot, UnpinIn, States
<1>2. Installed(t) \subseteq Installed(s) /\ Leased(t) \subseteq Leased(s)
  BY RegistryAssumption DEF Installed, Leased, UnpinIn, Snapshot, Lease, NoLease
<1>3. Consistent(t)
  BY RegistryAssumption, <1>2 DEF Usable, ValidSnapshot, Consistent, UnpinIn, Snapshot, Candidate,
     Attached, States, Leased, LeasesOf, NoLease, Lease, TargetNeedsDefault
<1>4. CandidateIsStaged(t) /\ TargetNeedsDefault(t)
  BY RegistryAssumption DEF Usable, ValidSnapshot, Consistent, CandidateIsStaged, TargetNeedsDefault, UnpinIn,
     Snapshot, Candidate
<1> QED BY <1>1, <1>2, <1>3, <1>4, UsableByParts

LEMMA TransferKeepsUsable ==
  ASSUME NEW s \in Snapshot, Usable(s), NEW r \in Recordings, NEW l \in Lease, NEW k \in Lease, CanTransfer(s, r, l, k) \/ CanTransferBack(s, r, l, k)
  PROVE  PinIn(s, r, k) \in Snapshot /\ Usable(PinIn(s, r, k))
<1> DEFINE t == PinIn(s, r, k)
<1>1. t \in Snapshot
  BY DEF Snapshot, PinIn, CanTransfer, CanTransferBack, States
<1>2. Installed(t) \subseteq Installed(s) /\ Leased(t) \subseteq Leased(s)
  BY RegistryAssumption DEF Installed, Leased, PinIn, CanTransfer, CanTransferBack, Snapshot, Lease, NoLease
<1>3. Consistent(t)
  BY RegistryAssumption, <1>2 DEF Usable, ValidSnapshot, Consistent, PinIn, CanTransfer, CanTransferBack, Snapshot,
       Candidate,
     Attached, States, Leased, LeasesOf, NoLease, Lease, TargetNeedsDefault
<1>4. CandidateIsStaged(t) /\ TargetNeedsDefault(t)
  BY RegistryAssumption DEF Usable, ValidSnapshot, Consistent, CandidateIsStaged, TargetNeedsDefault, PinIn,
       CanTransfer, CanTransferBack,
     Snapshot, Candidate
<1> QED BY <1>1, <1>2, <1>3, <1>4, UsableByParts

LEMMA ClearLeasesKeepsUsable ==
  ASSUME NEW s \in Snapshot, Usable(s), TRUE
  PROVE  ClearLeasesIn(s) \in Snapshot /\ Usable(ClearLeasesIn(s))
<1> DEFINE t == ClearLeasesIn(s)
<1>1. t \in Snapshot
  BY DEF Snapshot, ClearLeasesIn, States
<1>2. Installed(t) \subseteq Installed(s) /\ Leased(t) \subseteq Leased(s)
  BY RegistryAssumption DEF Installed, Leased, ClearLeasesIn, Snapshot, Lease, NoLease
<1>3. Consistent(t)
  BY RegistryAssumption, <1>2 DEF Usable, ValidSnapshot, Consistent, ClearLeasesIn, Snapshot, Candidate,
     Attached, States, Leased, LeasesOf, NoLease, Lease, TargetNeedsDefault
<1>4. CandidateIsStaged(t) /\ TargetNeedsDefault(t)
  BY RegistryAssumption DEF Usable, ValidSnapshot, Consistent, CandidateIsStaged, TargetNeedsDefault, ClearLeasesIn,
     Snapshot, Candidate
<1> QED BY <1>1, <1>2, <1>3, <1>4, UsableByParts

\* Pinning adds one lease below the limit.
LEMMA PinKeepsUsable ==
  ASSUME NEW s \in Snapshot, Usable(s), NEW r \in Recordings, NEW l \in Lease, CanPin(s, r, l)
  PROVE  PinIn(s, r, l) \in Snapshot /\ Usable(PinIn(s, r, l))
<1> DEFINE t == PinIn(s, r, l)
<1>1. t \in Snapshot
  BY DEF Snapshot, PinIn
<1>2. Installed(t) = Installed(s) /\ Leased(t) = Leased(s) \cup {r} /\ r \notin Leased(s)
  BY RegistryAssumption DEF Installed, Leased, PinIn, CanPin, Snapshot, Lease, NoLease
<1>3. WithinLimits(t)
  <2>1. IsFiniteSet(Leased(s))
    <3>1. Leased(s) \subseteq Recordings
      BY DEF Leased
    <3> QED BY <3>1, FS_Subset, RegistryAssumption
  <2>2. Cardinality(Leased(t)) = Cardinality(Leased(s)) + 1
    BY <1>2, <2>1, FS_AddElement
  <2>3. Cardinality(Leased(s)) \in Nat
    BY <2>1, FS_CardinalityType
  <2> QED BY <1>2, <2>2, <2>3, RegistryAssumption DEF WithinLimits, CanPin, Usable, ValidSnapshot
<1>4. Consistent(t)
  BY RegistryAssumption, <1>2 DEF Usable, ValidSnapshot, Consistent, PinIn, CanPin, Snapshot, Candidate,
     Attached, States, Leased, NoLease, Lease
<1>5. CandidateIsStaged(t) /\ TargetNeedsDefault(t)
  BY RegistryAssumption DEF Usable, CandidateIsStaged, TargetNeedsDefault, PinIn, Snapshot
<1> QED BY <1>1, <1>3, <1>4, <1>5 DEF Usable, ValidSnapshot

\* An inventory only rewrites leases; its size is what Change still validates.
LEMMA ReconcileKeepsRest ==
  ASSUME NEW s \in Snapshot, Usable(s), NEW gs \in SUBSET Generations,
         NEW reports \in [gs -> Inventory], CanReconcile(s, reports)
  PROVE  LET t == ReconcileIn(s, reports) IN
           t \in Snapshot /\ CandidateIsStaged(t) /\ TargetNeedsDefault(t)
<1> DEFINE t == ReconcileIn(s, reports)
<1>1. \A r \in Recordings : t.lease[r] \in Lease \cup {NoLease}
  <2> SUFFICES ASSUME NEW r \in Recordings PROVE t.lease[r] \in Lease \cup {NoLease}
    OBVIOUS
  <2>1. CASE ReportedBy(reports, r) # {}
    <3> DEFINE g == CHOOSE g \in ReportedBy(reports, r) : TRUE
    <3>1. g \in ReportedBy(reports, r)
      BY <2>1
    <3>2. g \in Generations /\ reports[g].worker \in Workers
      BY <3>1 DEF ReportedBy, Inventory
    <3>3. t.lease[r] = [gen |-> g, worker |-> reports[g].worker]
      BY <2>1 DEF ReconcileIn, Snapshot
    <3> QED BY <3>2, <3>3 DEF Lease
  <2>2. CASE ReportedBy(reports, r) = {}
    BY <2>2 DEF ReconcileIn, Snapshot
  <2> QED BY <2>1, <2>2
<1>2. /\ t.state = s.state /\ t.dormant = s.dormant /\ t.active = s.active
      /\ t.previous = s.previous /\ t.pending = s.pending /\ t.staged = s.staged
  BY DEF ReconcileIn, Snapshot
<1>3. t \in Snapshot
  <2>1. t.lease \in [Recordings -> Lease \cup {NoLease}]
    BY <1>1 DEF ReconcileIn, Snapshot
  <2>2. t = [s EXCEPT !.lease = t.lease]
    BY DEF ReconcileIn, Snapshot
  <2> QED BY <2>1, <2>2 DEF Snapshot
<1> QED BY <1>2, <1>3 DEF Usable, CandidateIsStaged, TargetNeedsDefault

-----------------------------------------------------------------------------
(* The invariant of the registry.                                          *)

RegistryInvariant == TypeOK /\ DiskIsUsable

LEMMA EmptyUsable == EmptySnapshot \in Snapshot /\ Usable(EmptySnapshot)
<1>1. EmptySnapshot \in Snapshot
  BY DEF EmptySnapshot, Snapshot, States
<1>2. Installed(EmptySnapshot) = {} /\ Leased(EmptySnapshot) = {}
  BY DEF Installed, Leased, EmptySnapshot
<1>3. WithinLimits(EmptySnapshot)
  BY <1>2, FS_EmptySet, RegistryAssumption DEF WithinLimits
<1>4. Consistent(EmptySnapshot)
  BY <1>2, RegistryAssumption DEF Consistent, EmptySnapshot
<1> QED BY <1>1, <1>3, <1>4, RegistryAssumption
     DEF Usable, ValidSnapshot, CandidateIsStaged, TargetNeedsDefault, EmptySnapshot, Candidate

LEMMA ChangeKeepsInvariant ==
  ASSUME RegistryInvariant, NEW next \in Snapshot, Usable(next), Change(next)
  PROVE  RegistryInvariant'
BY DEF RegistryInvariant, TypeOK, DiskIsUsable, Change

LEMMA StepKeepsInvariant == RegistryInvariant /\ [RegistryNext]_registryVars => RegistryInvariant'
<1> SUFFICES ASSUME RegistryInvariant, [RegistryNext]_registryVars PROVE RegistryInvariant'
  OBVIOUS
<1> USE DEF RegistryInvariant
<1>1. mem \in Snapshot /\ Usable(mem)
  BY DEF TypeOK, DiskIsUsable
<1>2. ASSUME LifecycleNext PROVE RegistryInvariant'
  <2>1. ASSUME NEW g \in Generations, Stage(g) PROVE RegistryInvariant'
    BY <1>1, <2>1, StageKeepsUsable, ChangeKeepsInvariant DEF Stage
  <2>2. ASSUME NEW g \in Generations, MarkVerified(g) PROVE RegistryInvariant'
    BY <1>1, <2>2, AdvanceKeepsUsable, ChangeKeepsInvariant DEF MarkVerified, Candidate
  <2>3. ASSUME NEW g \in Generations, MarkReady(g) PROVE RegistryInvariant'
    BY <1>1, <2>3, AdvanceKeepsUsable, ChangeKeepsInvariant DEF MarkReady, Candidate
  <2>4. ASSUME NEW g \in Generations, Fail(g) PROVE RegistryInvariant'
    BY <1>1, <2>4, FailKeepsUsable, ChangeKeepsInvariant DEF Fail
  <2>5. ASSUME NEW g \in Generations, Activate(g) PROVE RegistryInvariant'
    BY <1>1, <2>5, ActivateKeepsUsable, ChangeKeepsInvariant DEF Activate
  <2>6. ASSUME NEW g \in Generations, FinalizeActivation(g) PROVE RegistryInvariant'
    BY <1>1, <2>6, FinalizeKeepsUsable, ChangeKeepsInvariant DEF FinalizeActivation
  <2>7. ASSUME NEW g \in Generations, MarkEngineDormant(g) PROVE RegistryInvariant'
    BY <1>1, <2>7, MarkDormantKeepsUsable, ChangeKeepsInvariant DEF MarkEngineDormant
  <2>8. ASSUME NEW g \in Generations, Retire(g) PROVE RegistryInvariant'
    BY <1>1, <2>8, RetireKeepsUsable, ChangeKeepsInvariant DEF Retire
  <2>9. ASSUME NEW g \in Generations, RemoveRetired(g) PROVE RegistryInvariant'
    BY <1>1, <2>9, RemoveKeepsUsable, ChangeKeepsInvariant DEF RemoveRetired
  <2>10. ASSUME NEW g \in Generations, NEW old \in Generations, AbortActivation(g, old)
         PROVE RegistryInvariant'
    BY <1>1, <2>10, AbortKeepsUsable, ChangeKeepsInvariant DEF AbortActivation
  <2>11. ASSUME Rollback PROVE RegistryInvariant'
    BY <1>1, <2>11, RollbackKeepsUsable, ChangeKeepsInvariant DEF Rollback
  <2> QED BY <1>2, <2>1, <2>2, <2>3, <2>4, <2>5, <2>6, <2>7, <2>8, <2>9, <2>10, <2>11
       DEF LifecycleNext
<1>3. ASSUME LeaseNext PROVE RegistryInvariant'
  <2>1. ASSUME NEW r \in Recordings, NEW l \in Lease, PinRecording(r, l) PROVE RegistryInvariant'
    BY <1>1, <2>1, PinKeepsUsable, ChangeKeepsInvariant DEF PinRecording
  <2>2. ASSUME NEW r \in Recordings, NEW l \in Lease, ReleaseRecordingOwner(r, l)
        PROVE RegistryInvariant'
    <3>1. mem.lease[r] # NoLease
      BY <2>2, RegistryAssumption DEF ReleaseRecordingOwner, CanReleaseOwner, Lease, NoLease
    <3> QED BY <1>1, <2>2, <3>1, UnpinKeepsUsable, ChangeKeepsInvariant DEF ReleaseRecordingOwner
  <2>3. ASSUME NEW r \in Recordings, NEW l \in Lease, NEW k \in Lease,
               TransferRecording(r, l, k) \/ RollbackRecordingTransfer(r, l, k)
        PROVE RegistryInvariant'
    BY <1>1, <2>3, TransferKeepsUsable, ChangeKeepsInvariant
       DEF TransferRecording, RollbackRecordingTransfer
  <2>4. ASSUME NEW r \in Recordings, NEW g \in Generations, ReleaseRecording(r, g)
        PROVE RegistryInvariant'
    BY <1>1, <2>4, UnpinKeepsUsable, ChangeKeepsInvariant DEF ReleaseRecording, CanRelease
  <2>5. ASSUME ClearLeases PROVE RegistryInvariant'
    BY <1>1, <2>5, ClearLeasesKeepsUsable, ChangeKeepsInvariant DEF ClearLeases
  <2>6. ASSUME NEW g \in Generations, ReconcileColdStart(g) PROVE RegistryInvariant'
    BY <1>1, <2>6, ColdStartKeepsUsable, ChangeKeepsInvariant DEF ReconcileColdStart
  <2>7. ASSUME NEW gs \in SUBSET Generations, NEW reports \in [gs -> Inventory],
               ReconcileInventories(reports)
        PROVE RegistryInvariant'
    <3> DEFINE t == ReconcileIn(mem, reports)
    <3>1. t \in Snapshot /\ CandidateIsStaged(t) /\ TargetNeedsDefault(t)
      BY <1>1, <2>7, ReconcileKeepsRest DEF ReconcileInventories
    <3>2. Change(t) /\ ValidSnapshot(t)
      BY <2>7 DEF ReconcileInventories, Change
    <3> QED BY <3>1, <3>2, ChangeKeepsInvariant DEF Usable
  <2> QED BY <1>3, <2>1, <2>2, <2>3, <2>4, <2>5, <2>6, <2>7 DEF LeaseNext
<1>4. ASSUME Reopen PROVE RegistryInvariant'
  BY <1>4 DEF Reopen, TypeOK, DiskIsUsable
<1>5. ASSUME PowerLoss PROVE RegistryInvariant'
  BY <1>5 DEF PowerLoss, TypeOK, DiskIsUsable
<1>6. ASSUME UNCHANGED registryVars PROVE RegistryInvariant'
  BY <1>6 DEF registryVars, TypeOK, DiskIsUsable
<1> QED BY <1>2, <1>3, <1>4, <1>5, <1>6 DEF RegistryNext

\* Whatever the registry holds in memory or a power loss leaves on disk, it is
\* well typed and a snapshot Open accepts (Open, change, persist).
THEOREM RegistryIsUsable == RegistrySpec => [](TypeOK /\ DiskIsUsable)
<1>1. RegistryInit => RegistryInvariant
  BY EmptyUsable DEF RegistryInit, RegistryInvariant, TypeOK, DiskIsUsable
<1> QED BY <1>1, StepKeepsInvariant, PTL DEF RegistrySpec, RegistryInvariant

\* No permitted mutation is refused by validateSnapshot (change).
THEOREM ValidationIsRedundant == RegistrySpec => []ValidationNeverRefuses
<1>1. TypeOK /\ DiskIsUsable => ValidationNeverRefuses
  <2> SUFFICES ASSUME mem \in Snapshot, Usable(mem) PROVE ValidationNeverRefuses
    BY DEF TypeOK, DiskIsUsable
  <2>1. LifecycleKeepsValid
    BY StageKeepsUsable, AdvanceKeepsUsable, FailKeepsUsable, ActivateKeepsUsable,
       FinalizeKeepsUsable, AbortKeepsUsable, MarkDormantKeepsUsable, RetireKeepsUsable,
       RemoveKeepsUsable, ColdStartKeepsUsable, RollbackKeepsUsable
       DEF LifecycleKeepsValid, Usable, Candidate
  <2>2. LeasesKeepValid
    <3> SUFFICES ASSUME NEW r \in Recordings, NEW l \in Lease
        PROVE /\ CanPin(mem, r, l) => ValidSnapshot(PinIn(mem, r, l))
              /\ CanReleaseOwner(mem, r, l) => ValidSnapshot(UnpinIn(mem, r))
              /\ \A m \in Lease :
                   CanTransfer(mem, r, l, m) \/ CanTransferBack(mem, r, l, m) =>
                     ValidSnapshot(PinIn(mem, r, m))
      BY DEF LeasesKeepValid
    <3>1. CanReleaseOwner(mem, r, l) => mem.lease[r] # NoLease
      BY RegistryAssumption DEF CanReleaseOwner, Lease, NoLease
    <3> QED BY <3>1, PinKeepsUsable, UnpinKeepsUsable, TransferKeepsUsable DEF Usable
  <2> QED BY <2>1, <2>2 DEF ValidationNeverRefuses
<1> QED BY <1>1, RegistryIsUsable, PTL

\* An aborted activation leaves the snapshot as it was, but for the failed
\* candidate (Activate, AbortActivation).
THEOREM AbortRestores == RegistrySpec => []AbortUndoesActivate
<1>1. TypeOK /\ DiskIsUsable => AbortUndoesActivate
  <2> SUFFICES ASSUME mem \in Snapshot, Usable(mem), NEW g \in Generations,
                      CanActivate(mem, g), mem.previous # None
               PROVE  LET activated == ActivateIn(mem, g) IN
                        /\ CanAbort(activated, g, mem.active)
                        /\ AbortIn(activated, g, mem.active) =
                             [mem EXCEPT !.state[g] = "failed", !.staged = None, !.pending = None]
    BY DEF TypeOK, DiskIsUsable, AbortUndoesActivate
  <2> DEFINE activated == ActivateIn(mem, g)
             restored == [mem EXCEPT !.state[g] = "failed", !.staged = None, !.pending = None]
             aborted == AbortIn(activated, g, mem.active)
  <2>1. /\ mem.active \in Generations /\ mem.active # g /\ mem.state[mem.active] = "active"
        /\ mem.active \notin mem.dormant /\ g \notin mem.dormant
        /\ mem.staged = g /\ mem.state[g] = "ready"
    BY RegistryAssumption DEF Usable, ValidSnapshot, Consistent, TargetNeedsDefault, CanActivate, Snapshot
  <2>2. LeasesOf(mem, g) = {}
    BY <2>1, RegistryAssumption
       DEF Usable, ValidSnapshot, Consistent, LeasesOf, Leased, Attached, NoLease, Lease, Snapshot
  <2>3. activated.state = [mem.state EXCEPT ![g] = "active", ![mem.active] = "draining"]
    BY <2>1 DEF ActivateIn, Snapshot
  <2>4. CanAbort(activated, g, mem.active)
    <3>1. /\ activated.active = g /\ activated.previous = mem.active
          /\ activated.pending = mem.previous /\ activated.lease = mem.lease
      BY <2>1, RegistryAssumption DEF ActivateIn, Snapshot
    <3>2. activated.state[g] = "active" /\ activated.state[mem.active] = "draining"
      BY <2>1, <2>3 DEF Snapshot
    <3> QED BY <2>2, <3>1, <3>2 DEF CanAbort, LeasesOf
  <2>5. aborted.state = [mem.state EXCEPT ![g] = "failed"]
    BY <2>1, <2>3 DEF AbortIn, ActivateIn, Snapshot
  <2>6. aborted.dormant = mem.dormant
    BY <2>1 DEF AbortIn, ActivateIn, Snapshot
  <2>7. /\ aborted.active = mem.active /\ aborted.previous = mem.previous
        /\ aborted.pending = None /\ aborted.staged = None /\ aborted.lease = mem.lease
    BY <2>1 DEF AbortIn, ActivateIn, Snapshot
  <2>8. aborted = restored
    <3>1. aborted \in Snapshot /\ restored \in Snapshot
      <4>1. activated \in Snapshot /\ Usable(activated)
        BY ActivateKeepsUsable
      <4>2. aborted \in Snapshot
        BY <2>1, <2>4, <4>1, AbortKeepsUsable
      <4> QED BY <4>2 DEF Snapshot, States
    <3>2. /\ restored.state = [mem.state EXCEPT ![g] = "failed"] /\ restored.dormant = mem.dormant
          /\ restored.active = mem.active /\ restored.previous = mem.previous
          /\ restored.pending = None /\ restored.staged = None /\ restored.lease = mem.lease
      BY DEF Snapshot
    <3> QED BY <2>5, <2>6, <2>7, <3>1, <3>2 DEF Snapshot
  <2> QED BY <2>4, <2>8
<1> QED BY <1>1, RegistryIsUsable, PTL

\* Rolling back twice only attaches the Engine of the rollback target again
\* (Rollback).
THEOREM RollbackTwice == RegistrySpec => []RollbackIsInvolution
<1>1. TypeOK /\ DiskIsUsable => RollbackIsInvolution
  <2> SUFFICES ASSUME mem \in Snapshot, Usable(mem), CanRollback(mem)
               PROVE  /\ CanRollback(RollbackIn(mem))
                      /\ RollbackIn(RollbackIn(mem)) = [mem EXCEPT !.dormant = @ \ {mem.previous}]
    BY DEF TypeOK, DiskIsUsable, RollbackIsInvolution
  <2> DEFINE back == RollbackIn(mem)
             again == RollbackIn(back)
  <2>1. /\ mem.active \in Generations /\ mem.previous \in Generations
        /\ mem.active # mem.previous /\ mem.state[mem.active] = "active"
        /\ mem.state[mem.previous] = "draining" /\ mem.active \notin mem.dormant
    BY RegistryAssumption DEF Usable, ValidSnapshot, Consistent, CanRollback, Snapshot
  <2>2. back \in Snapshot /\ Usable(back)
    BY RollbackKeepsUsable
  <2>3. /\ back.active = mem.previous /\ back.previous = mem.active /\ back.pending = mem.pending
        /\ back.staged = mem.staged /\ back.lease = mem.lease
        /\ back.dormant = mem.dormant \ {mem.previous}
        /\ back.state = [mem.state EXCEPT ![mem.active] = "draining", ![mem.previous] = "active"]
    BY DEF RollbackIn, Snapshot
  <2>4. CanRollback(back)
    BY <2>1, <2>3, RegistryAssumption DEF CanRollback, Snapshot
  <2>5. again \in Snapshot
    BY <2>2, <2>4, RollbackKeepsUsable
  <2>6. again.state = mem.state
    <3>1. again.state = [back.state EXCEPT ![mem.previous] = "draining", ![mem.active] = "active"]
      BY <2>2, <2>3 DEF RollbackIn, Snapshot
    <3> QED BY <2>1, <2>3, <3>1 DEF Snapshot
  <2>7. /\ again.active = mem.active /\ again.previous = mem.previous /\ again.pending = mem.pending
        /\ again.staged = mem.staged /\ again.lease = mem.lease
        /\ again.dormant = mem.dormant \ {mem.previous}
    BY <2>1, <2>2, <2>3 DEF RollbackIn, Snapshot
  <2>8. again = [mem EXCEPT !.dormant = @ \ {mem.previous}]
    BY <2>5, <2>6, <2>7 DEF Snapshot
  <2> QED BY <2>4, <2>8
<1> QED BY <1>1, RegistryIsUsable, PTL

\* A change publishes its copy in memory or leaves memory alone.
LEMMA ChangeMoves ==
  ASSUME NEW next, Change(next), LeaseMoves(mem, next)
  PROVE  LeaseMoves(mem, mem')
BY DEF Change, LeaseMoves

\* A mutation that keeps or drops every lease moves none.
LEMMA KeptOrDropped ==
  ASSUME NEW s, NEW t, \A r \in Recordings : t.lease[r] \in {s.lease[r], NoLease}
  PROVE  LeaseMoves(s, t)
BY DEF LeaseMoves, Leased

\* But for a restart or a power loss, leases change generation by a transfer
\* only (TransferRecording, RollbackRecordingTransfer, ReconcileInventories).
THEOREM OnlyTransfersMoveLeases == RegistrySpec => LeasesMoveByTransfer
<1> DEFINE P == mem' \in maybe \/ LeaseMoves(mem, mem')
<1>1. TypeOK /\ DiskIsUsable /\ [RegistryNext]_registryVars => [P]_registryVars
  <2> SUFFICES ASSUME TypeOK, DiskIsUsable, RegistryNext PROVE P
    OBVIOUS
  <2>1. mem \in Snapshot /\ Usable(mem)
    BY DEF TypeOK, DiskIsUsable
  <2>2. ASSUME LifecycleNext PROVE P
    <3> SUFFICES ASSUME NEW next, Change(next), next.lease = mem.lease PROVE P
      BY <2>1, <2>2 DEF LifecycleNext, Stage, MarkVerified, MarkReady, Fail, Activate,
         FinalizeActivation, MarkEngineDormant, Retire, RemoveRetired, AbortActivation, Rollback,
         StageIn, AdvanceIn, FailIn, ActivateIn, FinalizeIn, MarkDormantIn, RetireIn, RemoveIn,
         AbortIn, RollbackIn, Snapshot
    <3> QED BY ChangeMoves, KeptOrDropped
  <2>3. ASSUME NEW r \in Recordings, NEW l \in Lease, PinRecording(r, l) PROVE P
    <3>1. LeaseMoves(mem, PinIn(mem, r, l))
      BY <2>1, <2>3 DEF PinRecording, CanPin, PinIn, LeaseMoves, Leased, Snapshot
    <3> QED BY <2>3, <3>1, ChangeMoves DEF PinRecording
  <2>4. ASSUME NEW r \in Recordings, Change(UnpinIn(mem, r)) PROVE P
    <3>1. \A q \in Recordings : UnpinIn(mem, r).lease[q] \in {mem.lease[q], NoLease}
      BY <2>1 DEF UnpinIn, Snapshot
    <3> QED BY <2>4, <3>1, KeptOrDropped, ChangeMoves
  <2>5. ASSUME NEW r \in Recordings, NEW l \in Lease, NEW k \in Lease,
               TransferRecording(r, l, k) \/ RollbackRecordingTransfer(r, l, k)
        PROVE P
    <3>1. LeaseMoves(mem, PinIn(mem, r, k))
      BY <2>1, <2>5 DEF TransferRecording, RollbackRecordingTransfer, CanTransfer, CanTransferBack,
         PinIn, LeaseMoves, Leased, Snapshot
    <3> QED BY <2>5, <3>1, ChangeMoves DEF TransferRecording, RollbackRecordingTransfer
  <2>6. ASSUME NEW next, next.lease = [r \in Recordings |-> NoLease], Change(next) PROVE P
    BY <2>6, KeptOrDropped, ChangeMoves
  <2>7. ASSUME NEW gs \in SUBSET Generations, NEW reports \in [gs -> Inventory],
               ReconcileInventories(reports)
        PROVE P
    <3> DEFINE t == ReconcileIn(mem, reports)
    <3>1. LeaseMoves(mem, t)
      <4> SUFFICES ASSUME NEW r \in Leased(mem) \cap Leased(t)
                   PROVE  mem.lease[r].gen = t.lease[r].gen
        BY DEF LeaseMoves
      <4>1. r \in Recordings /\ mem.lease[r] # NoLease
        BY DEF Leased
      <4>2. CASE ReportedBy(reports, r) # {}
        <5> DEFINE g == CHOOSE g \in ReportedBy(reports, r) : TRUE
        <5>1. g \in ReportedBy(reports, r)
          BY <4>2
        <5>2. mem.lease[r].gen = g
          BY <2>7, <4>1, <5>1 DEF ReconcileInventories, CanReconcile
        <5>3. t.lease[r] = [gen |-> g, worker |-> reports[g].worker]
          BY <2>1, <4>1, <4>2 DEF ReconcileIn, Snapshot
        <5> QED BY <5>2, <5>3
      <4>3. CASE ReportedBy(reports, r) = {}
        <5>1. t.lease[r] \in {mem.lease[r], NoLease}
          BY <2>1, <4>1, <4>3 DEF ReconcileIn, Snapshot
        <5> QED BY <5>1 DEF Leased
      <4> QED BY <4>2, <4>3
    <3> QED BY <2>7, <3>1, ChangeMoves DEF ReconcileInventories
  <2>8. ASSUME LeaseNext PROVE P
    <3>1. ClearLeasesIn(mem).lease = [r \in Recordings |-> NoLease]
      BY <2>1 DEF ClearLeasesIn, Snapshot
    <3>2. \A g \in Generations : ColdStartIn(mem, g).lease = [r \in Recordings |-> NoLease]
      BY <2>1 DEF ColdStartIn, ClearLeasesIn, Snapshot
    <3> QED BY <2>3, <2>4, <2>5, <2>6, <2>7, <2>8, <3>1, <3>2
         DEF LeaseNext, ReleaseRecordingOwner, ReleaseRecording, ClearLeases, ReconcileColdStart
  <2>9. ASSUME Reopen \/ PowerLoss PROVE P
    BY <2>9 DEF Reopen, PowerLoss, DiskIsUsable
  <2> QED BY <2>2, <2>8, <2>9 DEF RegistryNext
<1> QED BY <1>1, RegistryIsUsable, PTL DEF RegistrySpec, LeasesMoveByTransfer

-----------------------------------------------------------------------------
(* The plugin stores.                                                      *)

IsGen(x) == x = [state |-> x.state, adapters |-> x.adapters, storage |-> x.storage]
IsOp(x) == x = [kind |-> x.kind, step |-> x.step, new |-> x.new, old |-> x.old, set |-> x.set]

\* Each of the three pointers names a generation in the state of its own.
Pointers ==
  /\ DOMAIN gens = Ids /\ \A g \in Ids : IsGen(gens[g])
  /\ active \in Ids /\ gens[active].state = "active"
  /\ previous # 0 => previous \in Ids /\ gens[previous].state = "draining"
  /\ staged # 0 => staged \in Ids /\ gens[staged].state = "staged"

\* What an operation has ready before the step it is at.
Prepared ==
  /\ IsOp(op) /\ (~up => op = NoOp)
  /\ op.step = "start" => staged # 0
  /\ op.step = "set" => op.kind \in {"install", "uninstall"}
  /\ op.step = "seal" /\ op.kind \in {"install", "uninstall"} => op.new \in sourceSets /\ op.new # desired
  /\ op.step = "commit" => SourceSetLoads(op.new)
  /\ op.step = "seal" /\ op.kind = "provider" =>
       op.set[1] \in providers /\ <<"provider", op.set[1]>> \notin torn /\ op.set[1] # 0
  /\ op.step \in {"carry", "record", "select"} => ProviderLoads(op.set[1]) /\ op.set[1] # 0
  /\ op.step = "select" => installed # 0

\* A provider executable is removed in part only where it is still listed.
TornListed == \A v : <<"provider", v>> \in torn => v \in providers

PluginsInv == Pointers /\ Prepared /\ TornListed /\ PinnedSetsLoad

LEMMA PluginsInit ==
  ASSUME 1 \in Ids, Init
  PROVE  PluginsInv
<1>0. PICK b \in Releases \cap Sound :
        /\ desired = {b} /\ sourceSets = {{b}} /\ adapterSets = {{[name |-> AdapterOf[b], by |-> b]}} /\ artifacts = {b}
        /\ gens = [g \in Ids |-> IF g = 1 THEN [state |-> "active", adapters |-> {[name |-> AdapterOf[b], by |-> b]}, storage |-> Local] ELSE NoGen]
  BY Zenon DEF Init
<1>1. PICK set :
        /\ set = {[name |-> AdapterOf[b], by |-> b]}
        /\ desired = {b} /\ sourceSets = {{b}} /\ adapterSets = {set} /\ artifacts = {b}
        /\ gens = [g \in Ids |-> IF g = 1 THEN [state |-> "active", adapters |-> set, storage |-> Local] ELSE NoGen]
  BY <1>0
<1>2. PICK c \in Accepts[1] : chosen = <<1, c>> /\ providerSets = {<<1, c>>}
  BY DEF Init
<1>3. /\ providers = {1} /\ installed = 1 /\ unsealed = {} /\ torn = {} /\ active = 1 /\ previous = 0 /\ staged = 0
      /\ op = NoOp /\ up = TRUE
  BY DEF Init
<1>4. Pointers
  <2>1. /\ IsGen([state |-> "active", adapters |-> set, storage |-> Local]) /\ IsGen(NoGen)
    BY DEF IsGen, NoGen
  <2> QED BY <1>1, <1>3, <2>1 DEF Pointers
<1>5. Prepared
  BY <1>3 DEF Prepared, NoOp, IsOp
<1>6. TornListed
  BY <1>3 DEF TornListed
<1>7. PinnedSetsLoad
  <2>1. AdapterSetLoads(set)
    BY <1>1, <1>3 DEF AdapterSetLoads
  <2>2. \A g \in Ids : Live(g) => AdapterSetLoads(gens[g].adapters) /\ StorageLoads(gens[g].storage)
    BY <1>1, <2>1 DEF Live, StorageLoads, NoGen
  <2>3. SourceSetLoads(desired) /\ ProviderLoads(1) /\ StorageSetLoads(chosen)
    BY <1>1, <1>2, <1>3 DEF SourceSetLoads, ProviderLoads, StorageSetLoads
  <2> QED BY <1>3, <2>2, <2>3 DEF PinnedSetsLoad, ProviderStateLoads
<1> QED BY <1>4, <1>5, <1>6, <1>7 DEF PluginsInv

\* The operation after a step of it.
LEMMA OpForm ==
  ASSUME IsOp(op)
  PROVE  /\ \A step : Goto(step) => op' = [kind |-> op.kind, step |-> step, new |-> op.new, old |-> op.old, set |-> op.set]
         /\ \A step, set : Provider(step, set) => op' = [kind |-> "provider", step |-> step, new |-> {}, old |-> {}, set |-> set]
         /\ \A kind, new : BeginChange(kind, new) => op' = [kind |-> kind, step |-> "set", new |-> new, old |-> desired, set |-> Local]
         /\ \A kind, step : op' = [NoOp EXCEPT !.kind = kind, !.step = step]
                              => op' = [kind |-> kind, step |-> step, new |-> {}, old |-> {}, set |-> Local]
<1>1. ASSUME NEW step, Goto(step)
      PROVE  op' = [kind |-> op.kind, step |-> step, new |-> op.new, old |-> op.old, set |-> op.set]
  <2>1. PICK x : x = op /\ x = [kind |-> x.kind, step |-> x.step, new |-> x.new, old |-> x.old, set |-> x.set]
    BY DEF IsOp
  <2>2. [x EXCEPT !.step = step] = [kind |-> x.kind, step |-> step, new |-> x.new, old |-> x.old, set |-> x.set]
    BY ONLY <2>1
  <2> QED BY <1>1, <2>1, <2>2 DEF Goto
<1>2. ASSUME NEW step, NEW set, Provider(step, set)
      PROVE  op' = [kind |-> "provider", step |-> step, new |-> {}, old |-> {}, set |-> set]
  BY <1>2 DEF Provider, NoOp
<1>3. ASSUME NEW kind, NEW new, BeginChange(kind, new)
      PROVE  op' = [kind |-> kind, step |-> "set", new |-> new, old |-> desired, set |-> Local]
  BY <1>3 DEF BeginChange, NoOp
<1>4. ASSUME NEW kind, NEW step, op' = [NoOp EXCEPT !.kind = kind, !.step = step]
      PROVE  op' = [kind |-> kind, step |-> step, new |-> {}, old |-> {}, set |-> Local]
  BY <1>4 DEF NoOp
<1> QED BY <1>1, <1>2, <1>3, <1>4

\* What loads goes on loading while nothing of it is removed or written again.
Grows ==
  /\ adapterSets \subseteq adapterSets' /\ artifacts \subseteq artifacts'
  /\ providers \subseteq providers' /\ providerSets \subseteq providerSets' /\ torn' = torn
  /\ \A v \in providers : <<"provider", v>> \in unsealed' => <<"provider", v>> \in unsealed

LEMMA LoadsGrow ==
  ASSUME Grows
  PROVE  /\ \A s : AdapterSetLoads(s) => AdapterSetLoads(s)'
         /\ \A v : ProviderLoads(v) => ProviderLoads(v)'
         /\ \A s : StorageSetLoads(s) => StorageSetLoads(s)'
         /\ \A s : StorageLoads(s) => StorageLoads(s)'
<1>1. \A s : AdapterSetLoads(s) => AdapterSetLoads(s)'
  BY DEF Grows, AdapterSetLoads
<1>2. \A v : ProviderLoads(v) => ProviderLoads(v)'
  BY DEF Grows, ProviderLoads
<1>3. \A s : StorageSetLoads(s) => StorageSetLoads(s)'
  BY <1>2 DEF Grows, StorageSetLoads
<1>4. \A s : StorageLoads(s) => StorageLoads(s)'
  BY <1>3 DEF StorageLoads
<1> QED BY <1>1, <1>2, <1>3, <1>4

\* A step at which no generation moves and no marker of the provider.
LEMMA PinsStay ==
  ASSUME PluginsInv, UNCHANGED genVars, UNCHANGED <<installed, chosen>>, Grows, SourceSetLoads(desired)'
  PROVE  Pointers' /\ PinnedSetsLoad' /\ TornListed'
<1>1. Pointers'
  BY DEF PluginsInv, Pointers, genVars, IsGen
<1>2. TornListed'
  BY DEF PluginsInv, TornListed, Grows
<1>3. \A g \in Ids : Live(g)' => AdapterSetLoads(gens[g].adapters)' /\ StorageLoads(gens[g].storage)'
  <2> SUFFICES ASSUME NEW g \in Ids, Live(g)'
               PROVE  AdapterSetLoads(gens[g].adapters)' /\ StorageLoads(gens[g].storage)'
    OBVIOUS
  <2>1. PICK x : x = gens[g] /\ gens'[g] = x
    BY DEF genVars
  <2>2. AdapterSetLoads(x.adapters) /\ StorageLoads(x.storage)
    BY <2>1 DEF PluginsInv, PinnedSetsLoad, Live
  <2>3. AdapterSetLoads(x.adapters)' /\ StorageLoads(x.storage)'
    BY <2>2, LoadsGrow
  <2> QED BY <2>1, <2>3 DEF AdapterSetLoads, StorageLoads, StorageSetLoads, ProviderLoads
<1>4. ProviderStateLoads'
  <2>1. PICK i, c : i = installed /\ c = chosen
    OBVIOUS
  <2>2. (i # 0 => ProviderLoads(i)) /\ (c # Local => StorageSetLoads(c) /\ i # 0)
    BY <2>1 DEF PluginsInv, PinnedSetsLoad, ProviderStateLoads
  <2>3. (i # 0 => ProviderLoads(i)') /\ (c # Local => StorageSetLoads(c)' /\ i # 0)
    BY <2>2, LoadsGrow
  <2> QED BY <2>1, <2>3 DEF ProviderStateLoads, StorageSetLoads, ProviderLoads
<1> QED BY <1>1, <1>2, <1>3, <1>4 DEF PinnedSetsLoad

\* The installed version is among what the steps of an operation load.
LEMMA Facts ==
  ASSUME PluginsInv
  PROVE  /\ IsOp(op) /\ SourceSetLoads(desired) /\ ProviderStateLoads
         /\ NoOp.step = "" /\ NoOp.kind = "none" /\ IsOp(NoOp)
         /\ Idle => op.step = "" /\ up
<1>1. NoOp.step = "" /\ NoOp.kind = "none" /\ IsOp(NoOp)
  BY DEF NoOp, IsOp
<1>2. IsOp(op) /\ SourceSetLoads(desired) /\ ProviderStateLoads
  BY DEF PluginsInv, PinnedSetsLoad, Prepared
<1> QED BY <1>1, <1>2 DEF Idle

\* Requests of source plugins, the local directory, and what needs no step.
LEMMA RequestsKeep ==
  ASSUME PluginsInv, Install \/ Uninstall \/ EditLocal \/ BeginReconcile \/ ActivateUpdate
                     \/ StartRecording \/ EndRecording \/ DeleteRecordings
  PROVE  PluginsInv'
<1>1. /\ UNCHANGED genVars /\ UNCHANGED <<installed, chosen, desired, sourceSets, unsealed, adapterSets, artifacts, providers, providerSets, torn, up>>
  BY DEF Install, Uninstall, EditLocal, BeginReconcile, ActivateUpdate, StartRecording, EndRecording,
       DeleteRecordings,
     sourceVars, adapterVars, providerVars
<1>2. Pointers' /\ PinnedSetsLoad' /\ TornListed'
  <2>1. SourceSetLoads(desired)'
    BY <1>1, Facts DEF SourceSetLoads
  <2>2. Grows
    BY <1>1 DEF Grows
  <2> QED BY <1>1, <2>1, <2>2, PinsStay
<1>3. CASE op' = op
  BY <1>1, <1>2, <1>3 DEF PluginsInv, Prepared, SourceSetLoads, ProviderLoads, genVars, IsOp
<1>4. ASSUME NEW kind \in {"install", "uninstall"}, NEW new, BeginChange(kind, new), up
      PROVE  Prepared'
  <2>1. op' = [kind |-> kind, step |-> "set", new |-> new, old |-> desired, set |-> Local]
    BY <1>4, OpForm, Facts
  <2> QED BY <1>1, <1>4, <2>1 DEF Prepared, IsOp
<1>5. ASSUME NEW kind, NEW step \in {"import", "start"}, op' = [NoOp EXCEPT !.kind = kind, !.step = step], step = "start" => staged # 0, up
      PROVE  Prepared'
  <2>1. op' = [kind |-> kind, step |-> step, new |-> {}, old |-> {}, set |-> Local]
    BY <1>5, OpForm, Facts
  <2> QED BY <1>1, <1>5, <2>1 DEF Prepared, IsOp, genVars
<1>6. op' = op \/ Prepared'
  <2>1. CASE Install
    <3>1. up /\ \E new : BeginChange("install", new)
      BY <2>1 DEF Install, Asked, Idle
    <3> QED BY <1>4, <3>1
  <2>2. CASE Uninstall
    <3>1. up /\ \E new : BeginChange("uninstall", new)
      BY <2>2 DEF Uninstall, Asked, Idle
    <3> QED BY <1>4, <3>1
  <2>3. CASE BeginReconcile
    <3>1. up /\ op' = [NoOp EXCEPT !.kind = "reconcile", !.step = "import"]
      BY <2>3 DEF BeginReconcile, Idle
    <3> QED BY <1>5, <3>1
  <2>4. CASE ActivateUpdate
    <3>1. up /\ op' = [NoOp EXCEPT !.kind = "update", !.step = "start"] /\ staged # 0
      BY <2>4 DEF ActivateUpdate, Idle
    <3> QED BY <1>5, <3>1
  <2>5. CASE EditLocal \/ StartRecording \/ EndRecording \/ DeleteRecordings
    BY <2>5 DEF EditLocal, StartRecording, EndRecording, DeleteRecordings
  <2> QED BY <2>1, <2>2, <2>3, <2>4, <2>5
<1> QED BY <1>2, <1>3, <1>6 DEF PluginsInv

\* The steps of a source selection before it is imported.
LEMMA SelectionKeeps ==
  ASSUME PluginsInv, EnsureSourceSet \/ SealSourceSet
  PROVE  PluginsInv'
<1>1. /\ UNCHANGED genVars /\ UNCHANGED <<installed, chosen, desired, adapterSets, artifacts, providers, providerSets, torn, up>>
  BY DEF EnsureSourceSet, SealSourceSet, adapterVars, providerVars
<1>2. desired \in sourceSets /\ <<"source", desired>> \notin unsealed
  BY Facts DEF SourceSetLoads
<1>3. op.step \in {"set", "seal"} /\ op # NoOp /\ up
  BY Facts DEF EnsureSourceSet, SealSourceSet, PluginsInv, Prepared
<1>4. ASSUME NEW step, Goto(step)
      PROVE  op' = [kind |-> op.kind, step |-> step, new |-> op.new, old |-> op.old, set |-> op.set]
  BY <1>4, OpForm, Facts
<1>5. CASE EnsureSourceSet
  <2>1. op.kind \in {"install", "uninstall"}
    BY <1>5 DEF EnsureSourceSet, PluginsInv, Prepared
  <2>2. CASE op.new \in sourceSets /\ <<"source", op.new>> \notin unsealed /\ Goto("commit") /\ UNCHANGED <<sourceSets, unsealed, downloads>>
    <3>1. op' = [kind |-> op.kind, step |-> "commit", new |-> op.new, old |-> op.old, set |-> op.set]
      BY <1>4, <2>2
    <3>2. Grows /\ SourceSetLoads(desired)'
      BY <1>1, <1>2, <2>2 DEF Grows, SourceSetLoads
    <3>3. Prepared'
      BY <1>1, <1>3, <2>2, <3>1 DEF Prepared, IsOp, SourceSetLoads
    <3> QED BY <1>1, <3>2, <3>3, PinsStay DEF PluginsInv
  <2>3. CASE op.new \notin sourceSets /\ sourceSets' = sourceSets \cup {op.new} /\ unsealed' = unsealed \cup {<<"source", op.new>>} /\ Goto("seal")
    <3>1. op' = [kind |-> op.kind, step |-> "seal", new |-> op.new, old |-> op.old, set |-> op.set]
      BY <1>4, <2>3
    <3>2. op.new # desired
      BY <1>2, <2>3
    <3>3. Grows /\ SourceSetLoads(desired)'
      BY <1>1, <1>2, <2>3, <3>2 DEF Grows, SourceSetLoads
    <3>4. Prepared'
      BY <1>1, <1>3, <2>1, <2>3, <3>1, <3>2 DEF Prepared, IsOp
    <3> QED BY <1>1, <3>3, <3>4, PinsStay DEF PluginsInv
  <2> QED BY <1>5, <2>2, <2>3 DEF EnsureSourceSet
<1>6. CASE SealSourceSet
  <2>1. op.new \in sourceSets /\ op.new # desired /\ unsealed' = unsealed \ {<<"source", op.new>>}
    BY <1>6 DEF SealSourceSet, PluginsInv, Prepared
  <2>2. CASE Goto("commit") /\ UNCHANGED sourceSets
    <3>1. op' = [kind |-> op.kind, step |-> "commit", new |-> op.new, old |-> op.old, set |-> op.set]
      BY <1>4, <2>2
    <3>2. Grows /\ SourceSetLoads(desired)'
      BY <1>1, <1>2, <2>1, <2>2 DEF Grows, SourceSetLoads
    <3>3. Prepared'
      BY <1>1, <1>3, <2>1, <2>2, <3>1 DEF Prepared, IsOp, SourceSetLoads
    <3> QED BY <1>1, <3>2, <3>3, PinsStay DEF PluginsInv
  <2>3. CASE op' = NoOp /\ sourceSets' \in {sourceSets, sourceSets \ {op.new}}
    <3>1. Grows /\ SourceSetLoads(desired)'
      BY <1>1, <1>2, <2>1, <2>3 DEF Grows, SourceSetLoads
    <3>2. Prepared'
      BY <1>1, <2>3, Facts DEF Prepared, IsOp
    <3> QED BY <1>1, <3>1, <3>2, PinsStay DEF PluginsInv
  <2> QED BY <1>6, <2>2, <2>3 DEF SealSourceSet
<1> QED BY <1>5, <1>6

\* The selection changes only to a set that loads.
LEMMA CommitKeeps ==
  ASSUME PluginsInv, Commit \/ Verify \/ RollbackSelection
  PROVE  PluginsInv'
<1>1. /\ UNCHANGED genVars /\ UNCHANGED <<installed, chosen, adapterSets, artifacts, providers, providerSets, torn, up>>
  BY DEF Commit, Verify, RollbackSelection, adapterVars, providerVars
<1>2. op.step \in {"commit", "verify", "rollback"} /\ op # NoOp /\ up
  BY Facts DEF Commit, Verify, RollbackSelection, PluginsInv, Prepared
<1>3. CASE EndChange
  <2>1. op' = NoOp /\ sourceSets' = {desired'} /\ unsealed' = {d \in unsealed : d[1] # "source"}
    BY <1>3 DEF EndChange, Collected
  <2>2. Grows /\ SourceSetLoads(desired)'
    <3>1. <<"source", desired'>> \notin unsealed'
      <4>1. <<"source", desired'>>[1] = "source"
        OBVIOUS
      <4> QED BY <2>1, <4>1
    <3> QED BY <1>1, <2>1, <3>1 DEF Grows, SourceSetLoads
  <2>3. Prepared'
    BY <1>1, <2>1, Facts DEF Prepared, IsOp
  <2> QED BY <1>1, <2>2, <2>3, PinsStay DEF PluginsInv
<1>4. CASE /\ UNCHANGED <<sourceSets, unsealed, downloads>> /\ SourceSetLoads(desired') /\ \E step \in {"import", "rollback"} : Goto(step)
  <2>1. PICK step \in {"import", "rollback"} : op' = [kind |-> op.kind, step |-> step, new |-> op.new, old |-> op.old, set |-> op.set]
    BY <1>4, OpForm, Facts
  <2>2. Grows /\ SourceSetLoads(desired)'
    BY <1>1, <1>4 DEF Grows, SourceSetLoads
  <2>3. Prepared'
    BY <1>1, <1>2, <2>1 DEF Prepared, IsOp
  <2> QED BY <1>1, <2>2, <2>3, PinsStay DEF PluginsInv
<1>5. CASE Commit
  <2>1. SourceSetLoads(op.new)
    BY <1>5 DEF Commit, PluginsInv, Prepared
  <2> QED BY <1>3, <1>4, <1>5, <2>1 DEF Commit
<1>6. CASE Verify
  BY <1>3, <1>4, <1>6, Facts DEF Verify
<1>7. CASE RollbackSelection
  BY <1>3, <1>7 DEF RollbackSelection
<1> QED BY <1>5, <1>6, <1>7

\* The steps of the storage provider.
LEMMA ProviderKeeps ==
  ASSUME PluginsInv, InstallProvider \/ SealProvider \/ CarryConfig \/ Configure
  PROVE  PluginsInv'
<1>1. /\ UNCHANGED genVars /\ UNCHANGED <<installed, chosen, desired, sourceSets, adapterSets, artifacts, torn, up>>
  BY DEF InstallProvider, SealProvider, CarryConfig, Configure, adapterVars, sourceVars, providerVars
<1>2. desired \in sourceSets /\ <<"source", desired>> \notin unsealed
  BY Facts DEF SourceSetLoads
<1>3. up
  BY Facts DEF InstallProvider, SealProvider, CarryConfig, Configure, Asked, PluginsInv, Prepared
<1>4. /\ \A step, set : Provider(step, set) => op' = [kind |-> "provider", step |-> step, new |-> {}, old |-> {}, set |-> set]
      /\ \A step : Goto(step) => op' = [kind |-> op.kind, step |-> step, new |-> op.new, old |-> op.old, set |-> op.set]
  BY OpForm, Facts
<1>5. \A x, y : <<"source", x>> # <<"provider", y>>
  <2> SUFFICES ASSUME NEW x, NEW y, <<"source", x>> = <<"provider", y>> PROVE FALSE
    OBVIOUS
  <2>1. <<"source", x>>[1] = "source" /\ <<"provider", y>>[1] = "provider"
    OBVIOUS
  <2> QED BY <2>1
<1>6. \A v, x : <<v, x>>[1] = v
  OBVIOUS
<1>7. ASSUME Grows, unsealed' \subseteq unsealed \cup {<<"provider", v>> : v \in providers'}, Prepared'
      PROVE  PluginsInv'
  <2>1. SourceSetLoads(desired)'
    BY <1>1, <1>2, <1>5, <1>7 DEF SourceSetLoads
  <2> QED BY <1>1, <1>7, <2>1, PinsStay DEF PluginsInv
<1>8. CASE InstallProvider
  <2>1. PICK v \in ProviderOffers : Import(v)
    BY <1>8 DEF InstallProvider
  <2>2. v # 0 /\ providerSets' = providerSets
    <3>1. MaxVersion \in Nat
      BY PluginsAssumption
    <3> QED BY <1>8, <2>1, <3>1 DEF ProviderOffers, InstallProvider
  <2>3. CASE ProviderLoads(v) /\ Provider("carry", <<v, NoConfig>>) /\ UNCHANGED <<providers, unsealed>>
    <3>1. op' = [kind |-> "provider", step |-> "carry", new |-> {}, old |-> {}, set |-> <<v, NoConfig>>]
      BY <1>4, <2>3
    <3>2. op'.set[1] = v /\ op'.step = "carry" /\ op'.kind = "provider" /\ IsOp(op')
      BY <3>1 DEF IsOp
    <3>3. ProviderLoads(v)'
      BY <1>1, <2>3 DEF ProviderLoads
    <3>4. Prepared'
      BY <1>3, <1>1, <2>2, <3>2, <3>3 DEF Prepared, ProviderLoads, IsOp
    <3>5. Grows
      BY <1>1, <2>2, <2>3 DEF Grows
    <3> QED BY <1>7, <2>3, <3>4, <3>5
  <2>4. CASE /\ v \notin providers
             /\ providers' = providers \cup {v} /\ unsealed' = unsealed \cup {<<"provider", v>>}
             /\ Provider("seal", <<v, NoConfig>>)
    <3>1. op' = [kind |-> "provider", step |-> "seal", new |-> {}, old |-> {}, set |-> <<v, NoConfig>>]
      BY <1>4, <2>4
    <3>2. op'.set[1] = v /\ op'.step = "seal" /\ op'.kind = "provider" /\ IsOp(op')
      BY <3>1 DEF IsOp
    <3>3. <<"provider", v>> \notin torn
      BY <2>4 DEF PluginsInv, TornListed
    <3>4. Prepared'
      BY <1>3, <1>1, <2>2, <2>4, <3>2, <3>3 DEF Prepared, IsOp
    <3>5. \A u : <<"provider", u>> = <<"provider", v>> => u = v
      <4>1. \A u : <<"provider", u>>[2] = u
        OBVIOUS
      <4> QED BY <4>1
    <3>6. Grows
      BY <1>1, <2>2, <2>4, <3>5 DEF Grows
    <3> QED BY <1>7, <2>4, <3>4, <3>6
  <2> QED BY <2>1, <2>3, <2>4 DEF Import
<1>9. CASE SealProvider
  <2>1. /\ op.set[1] \in providers /\ <<"provider", op.set[1]>> \notin torn /\ op.set[1] # 0
        /\ UNCHANGED <<providers, providerSets>> /\ op.kind = "provider"
    BY <1>9 DEF SealProvider, PluginsInv, Prepared, providerVars
  <2>2. CASE unsealed' = unsealed \ {<<"provider", op.set[1]>>} /\ Goto("carry")
    <3>1. op' = [kind |-> op.kind, step |-> "carry", new |-> op.new, old |-> op.old, set |-> op.set]
      BY <1>4, <2>2
    <3>2. op'.set[1] = op.set[1] /\ op'.step = "carry" /\ op'.kind = "provider" /\ IsOp(op')
      BY <2>1, <3>1 DEF IsOp
    <3>3. ProviderLoads(op.set[1])'
      BY <1>1, <2>1, <2>2, <3>2 DEF ProviderLoads
    <3>4. Prepared'
      BY <1>3, <1>1, <2>1, <3>2, <3>3 DEF Prepared, IsOp
    <3>5. Grows
      BY <1>1, <2>1, <2>2 DEF Grows
    <3> QED BY <1>7, <2>2, <3>4, <3>5
  <2>3. CASE op' = NoOp /\ unsealed' \in {unsealed, unsealed \ {<<"provider", op.set[1]>>}}
    <3>1. Prepared'
      BY <1>1, <1>3, <2>3, Facts DEF Prepared, IsOp
    <3>2. Grows
      BY <1>1, <2>1, <2>3 DEF Grows
    <3> QED BY <1>7, <2>3, <3>1, <3>2
  <2> QED BY <1>9, <2>2, <2>3 DEF SealProvider
<1>10. CASE CarryConfig
  <2>1. ProviderLoads(op.set[1]) /\ op.set[1] # 0 /\ UNCHANGED <<providers, unsealed>>
    BY <1>10 DEF CarryConfig, PluginsInv, Prepared
  <2>2. ASSUME providerSets \subseteq providerSets' PROVE Grows
    BY <1>1, <2>1, <2>2 DEF Grows
  <2>3. CASE op' = NoOp /\ providerSets' = providerSets
    <3>1. Prepared'
      BY <1>1, <1>3, <2>3, Facts DEF Prepared, IsOp
    <3> QED BY <1>7, <2>1, <2>2, <2>3, <3>1
  <2>4. CASE \E c : CreateSet(<<op.set[1], c>>) /\ Provider("record", <<op.set[1], c>>)
    <3>1. PICK c : CreateSet(<<op.set[1], c>>) /\ op' = [kind |-> "provider", step |-> "record", new |-> {}, old |-> {}, set |-> <<op.set[1], c>>]
      BY <1>4, <2>4
    <3>2. op'.set[1] = op.set[1] /\ op'.step = "record" /\ op'.kind = "provider" /\ IsOp(op')
      BY <3>1 DEF IsOp
    <3>3. ProviderLoads(op.set[1])' /\ providerSets \subseteq providerSets'
      BY <1>1, <2>1, <3>1, <3>2 DEF ProviderLoads, CreateSet
    <3>4. Prepared'
      BY <1>3, <1>1, <2>1, <3>2, <3>3 DEF Prepared, IsOp
    <3> QED BY <1>7, <2>1, <2>2, <3>3, <3>4
  <2>5. CASE Goto("record") /\ UNCHANGED providerSets
    <3>1. op' = [kind |-> op.kind, step |-> "record", new |-> op.new, old |-> op.old, set |-> op.set]
      BY <1>4, <2>5
    <3>2. op'.set[1] = op.set[1] /\ op'.step = "record" /\ IsOp(op')
      BY <3>1 DEF IsOp
    <3>3. ProviderLoads(op.set[1])'
      BY <1>1, <2>1, <2>5, <3>2 DEF ProviderLoads
    <3>4. Prepared'
      BY <1>3, <1>1, <2>1, <3>2, <3>3 DEF Prepared, IsOp
    <3> QED BY <1>7, <2>1, <2>2, <2>5, <3>4
  <2> QED BY <1>10, <2>3, <2>4, <2>5 DEF CarryConfig
<1>11. CASE Configure
  <2>1. PICK c : CreateSet(<<installed, c>>) /\ op' = [kind |-> "provider", step |-> "select", new |-> {}, old |-> {}, set |-> <<installed, c>>]
    BY <1>4, <1>11 DEF Configure
  <2>2. installed # 0 /\ ProviderLoads(installed) /\ UNCHANGED <<providers, unsealed>> /\ providerSets \subseteq providerSets'
    BY <1>11, <2>1 DEF Configure, ProviderStateLoads, CreateSet
  <2>3. op'.set[1] = installed /\ op'.step = "select" /\ op'.kind = "provider" /\ IsOp(op')
    BY <2>1 DEF IsOp
  <2>4. PICK v : v = installed
    OBVIOUS
  <2>5. ProviderLoads(v)'
    BY <1>1, <2>2, <2>4 DEF ProviderLoads
  <2>6. Prepared'
    BY <1>3, <1>1, <2>2, <2>3, <2>4, <2>5 DEF Prepared, IsOp, ProviderLoads
  <2>7. Grows
    BY <1>1, <2>2 DEF Grows
  <2> QED BY <1>7, <2>2, <2>6, <2>7
<1> QED BY <1>8, <1>9, <1>10, <1>11

\* The markers change only to what loads, the desired set never without an
\* installed version.
LEMMA MarkersKeep ==
  ASSUME PluginsInv, RecordInstalled \/ SelectDesiredSet \/ UninstallProvider
  PROVE  PluginsInv'
<1>1. UNCHANGED genVars /\ UNCHANGED <<desired, sourceSets, unsealed, adapterSets, artifacts, torn, up, providers, providerSets>>
  BY DEF RecordInstalled, SelectDesiredSet, UninstallProvider, adapterVars, sourceVars, providerVars
<1>2. IsOp(op) /\ SourceSetLoads(desired) /\ ProviderStateLoads /\ NoOp.step = "" /\ NoOp.kind = "none" /\ IsOp(NoOp) /\ up
  BY Facts DEF RecordInstalled, SelectDesiredSet, UninstallProvider, Asked, PluginsInv, Prepared
<1>3. /\ op.step \in {"record", "select"} => ProviderLoads(op.set[1]) /\ op.set[1] # 0
      /\ op.step = "select" => installed # 0
  BY DEF PluginsInv, Prepared
<1>4. ProviderStateLoads' /\ (op' = NoOp \/ (op.step = "record" /\ Goto("select") /\ installed' # 0))
  <2>1. CASE RecordInstalled
    BY <1>1, <1>2, <1>3, <2>1 DEF RecordInstalled, FailedWriteState, ProviderStateLoads, StorageSetLoads,
         ProviderLoads
  <2>2. CASE SelectDesiredSet
    BY <1>1, <1>2, <1>3, <2>2 DEF SelectDesiredSet, FailedWriteState, ProviderStateLoads, StorageSetLoads,
         ProviderLoads
  <2>3. CASE UninstallProvider
    <3>1. op = NoOp /\ op' = op
      BY <2>3 DEF UninstallProvider, Asked, Idle
    <3> QED BY <2>3, <3>1 DEF UninstallProvider, ProviderStateLoads
  <2> QED BY <2>1, <2>2, <2>3
<1>5. Prepared'
  <2>1. CASE op' = NoOp
    BY <1>1, <1>2, <2>1 DEF Prepared, IsOp
  <2>2. CASE op.step = "record" /\ Goto("select") /\ installed' # 0
    <3>1. op' = [kind |-> op.kind, step |-> "select", new |-> op.new, old |-> op.old, set |-> op.set]
      BY <1>2, <2>2, OpForm
    <3>2. op'.set[1] = op.set[1] /\ op'.step = "select" /\ IsOp(op')
      BY <3>1 DEF IsOp
    <3>3. ProviderLoads(op.set[1])' /\ op.set[1] # 0
      BY <1>1, <1>3, <2>2, <3>2 DEF ProviderLoads
    <3> QED BY <1>1, <1>2, <2>2, <3>2, <3>3 DEF Prepared
  <2> QED BY <1>4, <2>1, <2>2
<1>6. Pointers' /\ TornListed'
  BY <1>1 DEF PluginsInv, Pointers, TornListed, genVars, IsGen
<1>7. PinnedSetsLoad'
  <2>1. \A g \in Ids : Live(g)' => AdapterSetLoads(gens[g].adapters)' /\ StorageLoads(gens[g].storage)'
    BY <1>1 DEF PluginsInv, PinnedSetsLoad, genVars, Live, AdapterSetLoads, StorageLoads,
         StorageSetLoads, ProviderLoads
  <2>2. SourceSetLoads(desired)'
    BY <1>1, <1>2 DEF SourceSetLoads
  <2> QED BY <1>4, <2>1, <2>2 DEF PinnedSetsLoad
<1> QED BY <1>5, <1>6, <1>7 DEF PluginsInv

\* A step that prepares nothing.
LEMMA NothingPrepared ==
  ASSUME IsOp(op'), up' \/ op' = NoOp, op'.step \notin {"start", "set", "seal", "commit", "carry", "record", "select"}
  PROVE  Prepared'
BY DEF Prepared

LEMMA OpEnds ==
  ASSUME IsOp(op), up', op' = NoOp \/ AfterActive \/ AfterFailed \/ (\E step \in {"adapters", "providers"} : Goto(step))
  PROVE  Prepared'
<1>1. NoOp.step = "" /\ IsOp(NoOp)
  BY DEF NoOp, IsOp
<1>2. op' = NoOp \/ \E step \in {"verify", "rollback", "adapters", "providers"} : Goto(step)
  BY DEF AfterActive, AfterFailed
<1>3. CASE op' = NoOp
  BY <1>1, <1>3, NothingPrepared
<1>4. ASSUME NEW step \in {"verify", "rollback", "adapters", "providers"}, Goto(step) PROVE Prepared'
  <2>1. op' = [kind |-> op.kind, step |-> step, new |-> op.new, old |-> op.old, set |-> op.set]
    BY <1>4, OpForm
  <2>2. IsOp(op') /\ op'.step = step
    BY <2>1 DEF IsOp
  <2> QED BY <2>2, NothingPrepared
<1> QED BY <1>2, <1>3, <1>4

LEMMA NewGenIsFree ==
  ASSUME Free # {}
  PROVE  NewGen \in Ids /\ gens[NewGen] = NoGen /\ NewGen # 0
<1> DEFINE R == OpToRel(<, Nat)
<1>1. IsWellFoundedOn(R, Nat)
  BY NatLessThanWellFounded
<1>2. \A x, y \in Nat : x < y => <<x, y>> \in R
  BY DEF OpToRel
<1> HIDE DEF R
<1>3. Free \in SUBSET Nat /\ 0 \notin Free
  BY PluginsAssumption DEF Free, Ids
<1>4. PICK x \in Free : \A y \in Free : ~(<<y, x>> \in R)
  BY <1>1, <1>3, WFMin
<1>a. \A y \in Free : ~(y < x)
  BY <1>2, <1>3, <1>4
<1>5. \A y \in Free : x <= y
  BY <1>3, <1>a
<1>6. NewGen \in Free
  BY <1>4, <1>5 DEF NewGen
<1> QED BY <1>3, <1>6 DEF Free

\* Generations move, and each that may be used pins sets that load.
PinsLoad ==
  \A g \in Ids : Live(g)' => \E a, s : /\ gens'[g].adapters = a /\ gens'[g].storage = s
                                       /\ AdapterSetLoads(a) \/ AdapterSetLoads(a)'
                                       /\ StorageLoads(s)

LEMMA PinsMove ==
  ASSUME PluginsInv, Grows, UNCHANGED <<installed, chosen>>, SourceSetLoads(desired)', PinsLoad
  PROVE  PinnedSetsLoad' /\ TornListed'
<1>1. TornListed'
  BY DEF PluginsInv, TornListed, Grows
<1>2. \A g \in Ids : Live(g)' => AdapterSetLoads(gens[g].adapters)' /\ StorageLoads(gens[g].storage)'
  <2> SUFFICES ASSUME NEW g \in Ids, Live(g)'
               PROVE  AdapterSetLoads(gens[g].adapters)' /\ StorageLoads(gens[g].storage)'
    OBVIOUS
  <2>1. PICK a, s : /\ gens'[g].adapters = a /\ gens'[g].storage = s
                    /\ AdapterSetLoads(a) \/ AdapterSetLoads(a)'
                    /\ StorageLoads(s)
    BY DEF PinsLoad
  <2>2. AdapterSetLoads(a)' /\ StorageLoads(s)'
    BY <2>1, LoadsGrow
  <2> QED BY <2>1, <2>2 DEF AdapterSetLoads, StorageLoads, StorageSetLoads, ProviderLoads
<1>3. ProviderStateLoads'
  <2>1. PICK i, c : i = installed /\ c = chosen
    OBVIOUS
  <2>2. (i # 0 => ProviderLoads(i)) /\ (c # Local => StorageSetLoads(c) /\ i # 0)
    BY <2>1 DEF PluginsInv, PinnedSetsLoad, ProviderStateLoads
  <2>3. (i # 0 => ProviderLoads(i)') /\ (c # Local => StorageSetLoads(c)' /\ i # 0)
    BY <2>2, LoadsGrow
  <2> QED BY <2>1, <2>3 DEF ProviderStateLoads, StorageSetLoads, ProviderLoads
<1> QED BY <1>1, <1>2, <1>3 DEF PinnedSetsLoad

\* What a reconciliation selects is in use already or imported by it.
LEMMA SelectedFrom ==
  ASSUME NEW fallback, NEW known
  PROVE  \A e \in Selected(fallback, known) :
           e \in fallback \/ \E c \in Imported(fallback, known) : e = [name |-> c.name, by |-> c.by]
BY DEF Selected, Preserved

LEMMA OutcomeLoads ==
  ASSUME NEW fallback, NEW known, NEW out, out = Outcome(fallback, known),
         AdapterSetLoads(fallback), Reconcile(fallback, known), torn' = torn
  PROVE  AdapterSetLoads(out)'
<1>1. PICK imported : imported = Imported(fallback, known)
  OBVIOUS
<1>2. artifacts' = artifacts \cup {c.by : c \in imported} /\ adapterSets' = adapterSets \cup {out}
  BY <1>1 DEF Reconcile
<1>3. CASE out = fallback
  BY <1>1, <1>2, <1>3 DEF AdapterSetLoads
<1>4. CASE out # fallback
  <2>1. /\ out = Selected(fallback, known) /\ <<"adapters", out>> \notin torn
        /\ \A c \in imported : <<"artifact", c.by>> \notin torn
    BY <1>1, <1>4 DEF Outcome
  <2>2. \A e \in out : e \in fallback \/ \E c \in imported : e = [name |-> c.name, by |-> c.by]
    BY <1>1, <2>1, SelectedFrom
  <2>3. \A e \in out : e.by \in artifacts' /\ <<"artifact", e.by>> \notin torn
    <3> SUFFICES ASSUME NEW e \in out PROVE e.by \in artifacts' /\ <<"artifact", e.by>> \notin torn
      OBVIOUS
    <3>1. CASE e \in fallback
      BY <1>2, <3>1 DEF AdapterSetLoads
    <3>2. ASSUME NEW c \in imported, e = [name |-> c.name, by |-> c.by]
          PROVE  e.by \in artifacts' /\ <<"artifact", e.by>> \notin torn
      BY <1>2, <2>1, <3>2
    <3> QED BY <2>2, <3>1, <3>2
  <2> QED BY <1>2, <2>1, <2>3 DEF AdapterSetLoads
<1> QED BY <1>3, <1>4

\* A free place of the registry takes a candidate.
LEMMA StageForm ==
  ASSUME Pointers, NEW a, NEW s, StageWith(a, s)
  PROVE  /\ Pointers' /\ staged' # 0
         /\ \A g \in Ids : \/ gens'[g] = gens[g]
                           \/ gens'[g].adapters = a /\ gens'[g].storage = s
<1>1. PICK n : n = NewGen
  OBVIOUS
<1>2. n \in Ids /\ gens[n] = NoGen /\ n # 0
  BY <1>1, NewGenIsFree DEF StageWith
<1>3. /\ staged = 0 /\ staged' = n /\ UNCHANGED <<active, previous>>
      /\ gens' = [gens EXCEPT ![n] = [state |-> "staged", adapters |-> a, storage |-> s]]
  BY <1>1 DEF StageWith
<1>4. /\ DOMAIN gens' = Ids /\ gens'[n] = [state |-> "staged", adapters |-> a, storage |-> s]
      /\ \A g \in Ids \ {n} : gens'[g] = gens[g]
  BY <1>2, <1>3 DEF Pointers
<1>5. NoGen.state = "none"
  BY DEF NoGen
<1>6. gens'[n].state = "staged" /\ gens'[n].adapters = a /\ gens'[n].storage = s /\ IsGen(gens'[n])
  BY <1>4 DEF IsGen
<1>7. n # active /\ (previous # 0 => n # previous)
  BY <1>2, <1>5 DEF Pointers
<1>8. Pointers'
  BY <1>2, <1>3, <1>4, <1>6, <1>7 DEF Pointers, IsGen
<1> QED BY <1>2, <1>3, <1>4, <1>6, <1>8

\* The set of a live generation, as the steps carry it on.
LEMMA LiveSets ==
  ASSUME PluginsInv
  PROVE  /\ AdapterSetLoads(gens[active].adapters) /\ StorageLoads(gens[active].storage)
         /\ \A g \in Ids : Live(g) => AdapterSetLoads(gens[g].adapters) /\ StorageLoads(gens[g].storage)
BY DEF PluginsInv, PinnedSetsLoad, Pointers, Live

LEMMA StagedPins ==
  ASSUME PluginsInv, Grows, UNCHANGED <<installed, chosen, desired, sourceSets, unsealed>>, NEW a, NEW s, StageWith(a, s),
         AdapterSetLoads(a) \/ AdapterSetLoads(a)', StorageLoads(s), Prepared'
  PROVE  PluginsInv'
<1>1. /\ Pointers' /\ staged' # 0
      /\ \A g \in Ids : gens'[g] = gens[g] \/ (gens'[g].adapters = a /\ gens'[g].storage = s)
  BY StageForm DEF PluginsInv
<1>2. PinsLoad
  <2> SUFFICES ASSUME NEW g \in Ids, Live(g)'
               PROVE  \E b, t : /\ gens'[g].adapters = b /\ gens'[g].storage = t
                                /\ AdapterSetLoads(b) \/ AdapterSetLoads(b)'
                                /\ StorageLoads(t)
    BY DEF PinsLoad
  <2>1. CASE gens'[g] = gens[g]
    <3>1. Live(g)
      BY <2>1 DEF Live
    <3>2. PICK b, t : b = gens[g].adapters /\ t = gens[g].storage
      OBVIOUS
    <3>3. AdapterSetLoads(b) /\ StorageLoads(t)
      BY <3>1, <3>2, LiveSets
    <3> QED BY <2>1, <3>2, <3>3
  <2>2. CASE gens'[g].adapters = a /\ gens'[g].storage = s
    BY <2>2
  <2> QED BY <1>1, <2>1, <2>2
<1>3. SourceSetLoads(desired)'
  BY Facts DEF SourceSetLoads
<1>4. PinnedSetsLoad' /\ TornListed'
  <2>1. UNCHANGED <<installed, chosen>>
    OBVIOUS
  <2> QED BY <1>2, <1>3, <2>1, PinsMove
<1> QED BY <1>1, <1>4 DEF PluginsInv

LEMMA ImportKeeps ==
  ASSUME PluginsInv, ImportCandidates
  PROVE  PluginsInv'
<1>1. PICK now, set : now = gens[active].adapters /\ set = Outcome(now, quarantine)
  OBVIOUS
<1>2. /\ UNCHANGED <<desired, sourceSets, unsealed, providers, providerSets, installed, chosen, torn, up>>
      /\ Reconcile(now, quarantine) /\ op.step = "import"
      /\ \/ set = now /\ AfterActive /\ UNCHANGED genVars
         \/ set # now /\ Free = {} /\ AfterFailed /\ UNCHANGED genVars
         \/ set # now /\ StageWith(set, gens[active].storage) /\ Goto("start")
  BY <1>1 DEF ImportCandidates, sourceVars, providerVars
<1>3. Grows
  BY <1>2 DEF Grows, Reconcile
<1>4. IsOp(op) /\ up /\ SourceSetLoads(desired)'
  BY <1>2, Facts DEF PluginsInv, Prepared, SourceSetLoads
<1>5. AdapterSetLoads(now) /\ StorageLoads(gens[active].storage)
  BY <1>1, LiveSets
<1>6. AdapterSetLoads(set)'
  <2>1. PICK known : known = quarantine
    OBVIOUS
  <2> QED BY <1>1, <1>2, <1>5, <2>1, OutcomeLoads
<1>7. CASE UNCHANGED genVars /\ (AfterActive \/ AfterFailed)
  <2>1. Prepared'
    BY <1>2, <1>4, <1>7, OpEnds
  <2> QED BY <1>2, <1>3, <1>4, <1>7, <2>1, PinsStay DEF PluginsInv
<1>8. CASE StageWith(set, gens[active].storage) /\ Goto("start")
  <2>1. PICK s : s = gens[active].storage
    OBVIOUS
  <2>2. staged' # 0
    BY <1>8, <2>1, StageForm DEF PluginsInv
  <2>3. op' = [kind |-> op.kind, step |-> "start", new |-> op.new, old |-> op.old, set |-> op.set]
    BY <1>4, <1>8, OpForm
  <2>4. Prepared'
    BY <1>2, <1>4, <2>2, <2>3 DEF Prepared, IsOp
  <2> QED BY <1>2, <1>3, <1>5, <1>6, <1>8, <2>1, <2>4, StagedPins
<1> QED BY <1>2, <1>7, <1>8

LEMMA StageKeeps ==
  ASSUME PluginsInv, StageUpdate \/ SwitchStorage
  PROVE  PluginsInv'
<1>1. UNCHANGED <<desired, sourceSets, unsealed, adapterSets, artifacts, providers, providerSets, installed, chosen, torn, up>> /\ Idle
  BY DEF StageUpdate, SwitchStorage, sourceVars, adapterVars, providerVars, Asked
<1>2. Grows
  BY <1>1 DEF Grows
<1>3. op.step = "" /\ IsOp(op) /\ up
  BY <1>1, Facts
<1>4. PICK a : a = gens[active].adapters /\ AdapterSetLoads(a)
  BY LiveSets
<1>5. CASE StageUpdate
  <2>1. PICK s : s = gens[active].storage /\ StorageLoads(s)
    BY LiveSets
  <2>2. StageWith(a, s) /\ op' = op
    BY <1>4, <1>5, <2>1 DEF StageUpdate
  <2>3. IsOp(op') /\ op'.step = ""
    BY <1>3, <2>2
  <2>4. Prepared'
    BY <1>1, <1>3, <2>3, NothingPrepared
  <2> QED BY <1>1, <1>2, <1>4, <2>1, <2>2, <2>4, StagedPins
<1>6. CASE SwitchStorage
  <2>1. PICK s : StorageLoads(s) /\ StageWith(a, s)
    BY <1>4, <1>6 DEF SwitchStorage, StorageLoads
  <2>2. op' = [kind |-> "switch", step |-> "start", new |-> {}, old |-> {}, set |-> Local]
    BY <1>3, <1>6, OpForm DEF SwitchStorage
  <2>3. staged' # 0
    BY <2>1, StageForm DEF PluginsInv
  <2>4. Prepared'
    BY <1>1, <1>3, <2>2, <2>3 DEF Prepared, IsOp
  <2> QED BY <1>1, <1>2, <1>4, <2>1, <2>4, StagedPins
<1> QED BY <1>5, <1>6

\* A change of the states of generations that does not touch their sets.
LEMMA StatesMove ==
  ASSUME PluginsInv, UNCHANGED <<installed, chosen, desired, sourceSets, unsealed, adapterSets, artifacts, providers, providerSets, torn>>,
         Pointers', Prepared',
         \A g \in Ids : gens'[g] = NoGen \/ (/\ gens'[g].adapters = gens[g].adapters /\ gens'[g].storage = gens[g].storage
                                             /\ Live(g)' => Live(g))
  PROVE  PluginsInv'
<1>1. PinsLoad
  <2> SUFFICES ASSUME NEW g \in Ids, Live(g)'
               PROVE  \E b, t : /\ gens'[g].adapters = b /\ gens'[g].storage = t
                                /\ AdapterSetLoads(b) \/ AdapterSetLoads(b)'
                                /\ StorageLoads(t)
    BY DEF PinsLoad
  <2>1. gens'[g] # NoGen
    BY DEF Live, NoGen
  <2>2. PICK b, t : b = gens[g].adapters /\ t = gens[g].storage
    OBVIOUS
  <2>3. AdapterSetLoads(b) /\ StorageLoads(t)
    BY <2>1, <2>2, LiveSets
  <2> QED BY <2>1, <2>2, <2>3
<1>2. SourceSetLoads(desired)' /\ Grows /\ UNCHANGED <<installed, chosen>>
  BY Facts DEF SourceSetLoads, Grows
<1>3. PinnedSetsLoad' /\ TornListed'
  BY <1>1, <1>2, PinsMove
<1> QED BY <1>3 DEF PluginsInv

LEMMA StateForm ==
  ASSUME NEW x, IsGen(x), NEW state
  PROVE  [x EXCEPT !.state = state] = [state |-> state, adapters |-> x.adapters, storage |-> x.storage]
BY DEF IsGen

LEMMA ActivateKeeps ==
  ASSUME PluginsInv, StartCandidate \/ FailCandidate \/ RollbackUpdate \/ RetireGenerations
  PROVE  PluginsInv'
<1>1. /\ UNCHANGED <<installed, chosen, desired, sourceSets, unsealed, adapterSets, artifacts, providers, providerSets, torn, up>>
  BY DEF StartCandidate, FailCandidate, RollbackUpdate, RetireGenerations, sourceVars, adapterVars, providerVars
<1>2. up /\ IsOp(op)
  BY Facts DEF StartCandidate, FailCandidate, RollbackUpdate, RetireGenerations, Asked, PluginsInv, Prepared
<1>3. Pointers /\ \A g \in Ids : IsGen(gens[g])
  BY DEF PluginsInv, Pointers
<1>4. NoGen.state = "none" /\ IsGen(NoGen)
  BY DEF NoGen, IsGen
\* g takes the place of the active generation.
<1>5. ASSUME NEW g, g \in Ids, gens[g].state \in {"staged", "draining"},
             gens' = [gens EXCEPT ![g].state = "active", ![active].state = "draining"], active' = g, previous' = active,
             staged' = 0 \/ (staged' = staged /\ gens[g].state = "draining"), Prepared'
      PROVE  PluginsInv'
  <2>1. active \in Ids /\ active # g /\ gens[active].state = "active"
    BY <1>3, <1>5 DEF Pointers
  <2>2. /\ DOMAIN gens' = Ids
        /\ gens'[g] = [gens[g] EXCEPT !.state = "active"] /\ gens'[active] = [gens[active] EXCEPT !.state = "draining"]
        /\ \A h \in Ids \ {g, active} : gens'[h] = gens[h]
    BY <1>3, <1>5, <2>1 DEF Pointers
  <2>3. /\ gens'[g] = [state |-> "active", adapters |-> gens[g].adapters, storage |-> gens[g].storage]
        /\ gens'[active] = [state |-> "draining", adapters |-> gens[active].adapters, storage |-> gens[active].storage]
    BY <1>3, <1>5, <2>1, <2>2, StateForm
  <2>4. /\ gens'[g].state = "active" /\ gens'[active].state = "draining" /\ IsGen(gens'[g]) /\ IsGen(gens'[active])
        /\ gens'[g].adapters = gens[g].adapters /\ gens'[g].storage = gens[g].storage
        /\ gens'[active].adapters = gens[active].adapters /\ gens'[active].storage = gens[active].storage
    BY <2>3 DEF IsGen
  <2>5. active # 0 => active \in Ids
    BY <2>1
  <2>6. staged' # 0 => staged' \in Ids /\ staged' # g /\ staged' # active /\ gens'[staged'].state = "staged"
    BY <1>3, <1>5, <2>1, <2>2 DEF Pointers
  <2>7. Pointers'
    <3>1. \A h \in Ids : IsGen(gens'[h])
      BY <1>3, <2>2, <2>4
    <3> QED BY <1>5, <2>1, <2>2, <2>4, <2>6, <3>1 DEF Pointers, IsGen
  <2>8. \A h \in Ids : /\ gens'[h].adapters = gens[h].adapters /\ gens'[h].storage = gens[h].storage
                       /\ Live(h)' => Live(h)
    <3> SUFFICES ASSUME NEW h \in Ids PROVE /\ gens'[h].adapters = gens[h].adapters /\ gens'[h].storage = gens[h].storage
                                            /\ Live(h)' => Live(h)
      OBVIOUS
    <3>1. CASE h \in {g, active}
      BY <1>5, <2>1, <2>4, <3>1 DEF Live
    <3>2. CASE h \notin {g, active}
      BY <2>2, <3>2 DEF Live
    <3> QED BY <3>1, <3>2
  <2> QED BY <1>1, <1>5, <2>7, <2>8, StatesMove
<1>6. CASE StartCandidate
  <2>1. staged # 0
    BY <1>6 DEF StartCandidate, PluginsInv, Prepared
  <2>2. Prepared'
    BY <1>1, <1>2, <1>6, OpEnds DEF StartCandidate
  <2>3. PICK g : g = staged
    OBVIOUS
  <2> QED BY <1>3, <1>5, <1>6, <2>1, <2>2, <2>3 DEF StartCandidate, Activated, Pointers
<1>7. CASE RollbackUpdate
  <2>1. op' = op /\ op.step = ""
    BY <1>7, Facts DEF RollbackUpdate, Asked
  <2>2. Prepared'
    BY <1>1, <1>2, <2>1, NothingPrepared DEF IsOp
  <2>3. PICK g : g = previous
    OBVIOUS
  <2> QED BY <1>3, <1>5, <1>7, <2>2, <2>3 DEF RollbackUpdate, Pointers
<1>8. ASSUME NEW g \in Ids, NEW x, gens' = [gens EXCEPT ![g] = x], IsGen(x), UNCHANGED <<active, previous>>,
             g # active, previous # 0 => g # previous, staged' = 0 \/ (staged' = staged /\ g # staged), Prepared',
             x = NoGen \/ (x.adapters = gens[g].adapters /\ x.storage = gens[g].storage /\ x.state = "failed")
      PROVE  PluginsInv'
  <2>1. DOMAIN gens' = Ids /\ gens'[g] = x /\ \A h \in Ids \ {g} : gens'[h] = gens[h]
    BY <1>3, <1>8 DEF Pointers
  <2>2. Pointers'
    <3>1. \A h \in Ids : IsGen(gens'[h])
      BY <1>3, <1>8, <2>1
    <3>2. staged' # 0 => staged' \in Ids /\ gens'[staged'].state = "staged"
      BY <1>3, <1>8, <2>1 DEF Pointers
    <3>3. active' \in Ids /\ gens'[active'].state = "active" /\ (previous' # 0 => previous' \in Ids /\ gens'[previous'].state = "draining")
      BY <1>3, <1>8, <2>1 DEF Pointers
    <3> QED BY <2>1, <3>1, <3>2, <3>3 DEF Pointers, IsGen
  <2>3. \A h \in Ids : gens'[h] = NoGen \/ (/\ gens'[h].adapters = gens[h].adapters /\ gens'[h].storage = gens[h].storage
                                            /\ Live(h)' => Live(h))
    <3> SUFFICES ASSUME NEW h \in Ids, gens'[h] # NoGen
                 PROVE  /\ gens'[h].adapters = gens[h].adapters /\ gens'[h].storage = gens[h].storage
                        /\ Live(h)' => Live(h)
      OBVIOUS
    <3> QED BY <1>8, <2>1 DEF Live
  <2> QED BY <1>1, <1>8, <2>2, <2>3, StatesMove
<1>9. CASE FailCandidate
  <2>1. staged # 0 /\ staged \in Ids /\ gens[staged].state = "staged"
    BY <1>3, <1>9 DEF FailCandidate, PluginsInv, Prepared, Pointers
  <2>2. Prepared'
    BY <1>1, <1>2, <1>9, OpEnds DEF FailCandidate
  <2>3. PICK g, x : g = staged /\ x = [gens[g] EXCEPT !.state = "failed"]
    OBVIOUS
  <2>4. x = [state |-> "failed", adapters |-> gens[g].adapters, storage |-> gens[g].storage]
    BY <1>3, <2>1, <2>3, StateForm
  <2>5. IsGen(x) /\ x.adapters = gens[g].adapters /\ x.storage = gens[g].storage /\ x.state = "failed"
    BY <2>4 DEF IsGen
  <2>6. gens' = [gens EXCEPT ![g] = x] /\ staged' = 0 /\ UNCHANGED <<active, previous>>
    BY <1>9, <2>3 DEF FailCandidate
  <2>7. g # active /\ (previous # 0 => g # previous)
    BY <1>3, <2>1, <2>3 DEF Pointers
  <2> QED BY <1>8, <2>1, <2>2, <2>3, <2>5, <2>6, <2>7
<1>10. CASE RetireGenerations
  <2>1. PICK g \in Ids \ {active, previous, staged, lease} : gens' = [gens EXCEPT ![g] = NoGen]
    BY <1>10 DEF RetireGenerations
  <2>2. op' = [kind |-> "collect", step |-> "adapters", new |-> {}, old |-> {}, set |-> Local]
    BY <1>2, <1>10, OpForm DEF RetireGenerations
  <2>3. IsOp(op') /\ op'.step = "adapters"
    BY <2>2 DEF IsOp
  <2>4. Prepared'
    BY <1>1, <1>2, <2>3, NothingPrepared
  <2> QED BY <1>4, <1>8, <1>10, <2>1, <2>4 DEF RetireGenerations
<1> QED BY <1>6, <1>7, <1>9, <1>10

\* A collection spares what is named.
Spared ==
  /\ \A s \in AdapterRoots : AdapterSetLoads(s) => AdapterSetLoads(s)'
  /\ \A s \in StorageRoots : StorageSetLoads(s) => StorageSetLoads(s)'
  /\ \A v : v = installed /\ ProviderLoads(v) => ProviderLoads(v)'

LEMMA SparedLoads ==
  ASSUME PluginsInv, UNCHANGED genVars, UNCHANGED <<installed, chosen, desired, sourceSets, unsealed>>, Spared
  PROVE  PinnedSetsLoad'
<1>1. \A g \in Ids : Live(g)' => AdapterSetLoads(gens[g].adapters)' /\ StorageLoads(gens[g].storage)'
  <2> SUFFICES ASSUME NEW g \in Ids, Live(g)'
               PROVE  AdapterSetLoads(gens[g].adapters)' /\ StorageLoads(gens[g].storage)'
    OBVIOUS
  <2>1. PICK x : x = gens[g] /\ gens'[g] = x
    BY DEF genVars
  <2>2. Live(g) /\ AdapterSetLoads(x.adapters) /\ StorageLoads(x.storage)
    BY <2>1 DEF PluginsInv, PinnedSetsLoad, Live
  <2>3. AdapterSetLoads(x.adapters)'
    BY <2>1, <2>2 DEF Spared, AdapterRoots
  <2>4. StorageLoads(x.storage)'
    BY <2>1, <2>2 DEF Spared, StorageRoots, StorageLoads
  <2> QED BY <2>1, <2>3, <2>4 DEF AdapterSetLoads, StorageLoads, StorageSetLoads, ProviderLoads
<1>2. ProviderStateLoads'
  <2>1. PICK i, c : i = installed /\ c = chosen
    OBVIOUS
  <2>2. (i # 0 => ProviderLoads(i)) /\ (c # Local => StorageSetLoads(c) /\ i # 0)
    BY <2>1 DEF PluginsInv, PinnedSetsLoad, ProviderStateLoads
  <2>3. c # Local => c \in StorageRoots
    BY <2>1 DEF StorageRoots
  <2>4. (i # 0 => ProviderLoads(i)') /\ (c # Local => StorageSetLoads(c)' /\ i # 0)
    BY <2>1, <2>2, <2>3 DEF Spared
  <2> QED BY <2>1, <2>4 DEF ProviderStateLoads, StorageSetLoads, ProviderLoads
<1>3. SourceSetLoads(desired)'
  BY Facts DEF SourceSetLoads
<1> QED BY <1>1, <1>2, <1>3 DEF PinnedSetsLoad

LEMMA CollectKeeps ==
  ASSUME PluginsInv, CollectAdapters \/ CollectProviders \/ TearDirectory
  PROVE  PluginsInv'
<1>1. UNCHANGED genVars /\ UNCHANGED <<installed, chosen, desired, sourceSets, unsealed, up>>
  BY DEF CollectAdapters, CollectProviders, TearDirectory, sourceVars, adapterVars, providerVars
<1>2. IsOp(op) /\ op # NoOp /\ up
  BY Facts DEF CollectAdapters, CollectProviders, TearDirectory, PluginsInv, Prepared
<1>3. Pointers'
  BY <1>1 DEF PluginsInv, Pointers, genVars, IsGen
<1>4. Prepared'
  BY <1>1, <1>2, OpEnds DEF CollectAdapters, CollectProviders, TearDirectory
<1>5. CASE CollectAdapters
  <2>1. UNCHANGED <<providers, providerSets, torn>>
    BY <1>5 DEF CollectAdapters, providerVars
  <2>2. \A s \in AdapterRoots : AdapterSetLoads(s) => AdapterSetLoads(s)'
    <3>1. CASE UNCHANGED <<adapterSets, artifacts>>
      BY <2>1, <3>1 DEF AdapterSetLoads
    <3>2. CASE adapterSets' = adapterSets \ OldAdapterSets /\ artifacts' = artifacts \ OldArtifacts
      <4> SUFFICES ASSUME NEW s \in AdapterRoots, AdapterSetLoads(s) PROVE AdapterSetLoads(s)'
        OBVIOUS
      <4>1. s \in adapterSets'
        BY <3>2 DEF AdapterSetLoads, OldAdapterSets
      <4>2. \A e \in s : e.by \notin OldArtifacts
        BY DEF OldArtifacts
      <4> QED BY <2>1, <3>2, <4>1, <4>2 DEF AdapterSetLoads
    <3> QED BY <1>5, <3>1, <3>2 DEF CollectAdapters
  <2>3. Spared
    BY <1>1, <2>1, <2>2 DEF Spared, StorageSetLoads, ProviderLoads
  <2>4. TornListed'
    BY <2>1 DEF PluginsInv, TornListed
  <2> QED BY <1>1, <1>3, <1>4, <2>3, <2>4, SparedLoads DEF PluginsInv
<1>6. CASE CollectProviders
  <2>1. UNCHANGED <<adapterSets, artifacts, torn>>
    BY <1>6 DEF CollectProviders, adapterVars
  <2>2. CASE UNCHANGED <<providerSets, providers>>
    <3>1. Spared
      BY <1>1, <2>1, <2>2 DEF Spared, AdapterSetLoads, StorageSetLoads, ProviderLoads
    <3>2. TornListed'
      BY <2>1, <2>2 DEF PluginsInv, TornListed
    <3> QED BY <1>1, <1>3, <1>4, <3>1, <3>2, SparedLoads DEF PluginsInv
  <2>3. CASE ProvidersSettled /\ providerSets' = providerSets \ OldStorageSets /\ providers' = providers \ OldProviders
    <3>1. \A s \in StorageRoots : StorageSetLoads(s) => StorageSetLoads(s)'
      <4> SUFFICES ASSUME NEW s \in StorageRoots, StorageSetLoads(s) PROVE StorageSetLoads(s)'
        OBVIOUS
      <4>1. s \in providerSets'
        BY <2>3 DEF StorageSetLoads, OldStorageSets
      <4>2. s[1] \in providers'
        BY <2>3 DEF StorageSetLoads, ProviderLoads, OldProviders
      <4> QED BY <1>1, <2>1, <4>1, <4>2 DEF StorageSetLoads, ProviderLoads
    <3>2. \A v : v = installed /\ ProviderLoads(v) => ProviderLoads(v)'
      BY <1>1, <2>1, <2>3 DEF ProviderLoads, OldProviders
    <3>3. Spared
      BY <2>1, <3>1, <3>2 DEF Spared, AdapterSetLoads
    <3>4. TornListed'
      <4>1. \A v : <<"provider", v>> \notin torn
        BY <2>3 DEF PluginsInv, TornListed, ProvidersSettled, ProviderLoads
      <4> QED BY <2>1, <4>1 DEF TornListed
    <3> QED BY <1>1, <1>3, <1>4, <3>3, <3>4, SparedLoads DEF PluginsInv
  <2> QED BY <1>6, <2>2, <2>3 DEF CollectProviders
<1>7. CASE TearDirectory
  <2>1. UNCHANGED <<adapterSets, artifacts, providers, providerSets>>
    BY <1>7 DEF TearDirectory, adapterVars, providerVars
  <2>2. \A x, y, v, w : <<x, v>> = <<y, w>> => x = y /\ v = w
    <3> SUFFICES ASSUME NEW x, NEW y, NEW v, NEW w, <<x, v>> = <<y, w>> PROVE x = y /\ v = w
      OBVIOUS
    <3>1. <<x, v>>[1] = x /\ <<x, v>>[2] = v /\ <<y, w>>[1] = y /\ <<y, w>>[2] = w
      OBVIOUS
    <3> QED BY <3>1
  <2>3. CASE \E s \in OldAdapterSets : torn' = torn \cup {<<"adapters", s>>}
    <3>1. PICK s \in OldAdapterSets : torn' = torn \cup {<<"adapters", s>>}
      BY <2>3
    <3>2. \A v : ProviderLoads(v) => ProviderLoads(v)'
      BY <1>1, <2>1, <2>2, <3>1 DEF ProviderLoads
    <3>3. \A t : StorageSetLoads(t) => StorageSetLoads(t)'
      BY <1>1, <2>1, <2>2, <3>1, <3>2 DEF StorageSetLoads
    <3>4. \A t \in AdapterRoots : AdapterSetLoads(t) => AdapterSetLoads(t)'
      BY <2>1, <2>2, <3>1 DEF AdapterSetLoads, OldAdapterSets
    <3>5. Spared
      BY <3>2, <3>3, <3>4 DEF Spared
    <3>6. TornListed'
      BY <2>1, <2>2, <3>1 DEF PluginsInv, TornListed
    <3> QED BY <1>1, <1>3, <1>4, <3>5, <3>6, SparedLoads DEF PluginsInv
  <2>4. CASE \E b \in OldArtifacts : torn' = torn \cup {<<"artifact", b>>}
    <3>1. PICK b \in OldArtifacts : torn' = torn \cup {<<"artifact", b>>}
      BY <2>4
    <3>2. \A v : ProviderLoads(v) => ProviderLoads(v)'
      BY <1>1, <2>1, <2>2, <3>1 DEF ProviderLoads
    <3>3. \A t : StorageSetLoads(t) => StorageSetLoads(t)'
      BY <1>1, <2>1, <2>2, <3>1, <3>2 DEF StorageSetLoads
    <3>4. \A t \in AdapterRoots : AdapterSetLoads(t) => AdapterSetLoads(t)'
      <4> SUFFICES ASSUME NEW t \in AdapterRoots, AdapterSetLoads(t) PROVE AdapterSetLoads(t)'
        OBVIOUS
      <4>1. \A e \in t : e.by \notin OldArtifacts
        BY DEF OldArtifacts
      <4> QED BY <2>1, <2>2, <3>1, <4>1 DEF AdapterSetLoads
    <3>5. Spared
      BY <3>2, <3>3, <3>4 DEF Spared
    <3>6. TornListed'
      BY <2>1, <2>2, <3>1 DEF PluginsInv, TornListed
    <3> QED BY <1>1, <1>3, <1>4, <3>5, <3>6, SparedLoads DEF PluginsInv
  <2>5. CASE \E s \in OldStorageSets : torn' = torn \cup {<<"storage", s>>}
    <3>1. PICK s \in OldStorageSets : torn' = torn \cup {<<"storage", s>>}
      BY <2>5
    <3>2. \A v : ProviderLoads(v) => ProviderLoads(v)'
      BY <1>1, <2>1, <2>2, <3>1 DEF ProviderLoads
    <3>3. \A t \in StorageRoots : StorageSetLoads(t) => StorageSetLoads(t)'
      BY <1>1, <2>1, <2>2, <3>1, <3>2 DEF StorageSetLoads, OldStorageSets
    <3>4. \A t : AdapterSetLoads(t) => AdapterSetLoads(t)'
      BY <2>1, <2>2, <3>1 DEF AdapterSetLoads
    <3>5. Spared
      BY <3>2, <3>3, <3>4 DEF Spared
    <3>6. TornListed'
      BY <2>1, <2>2, <3>1 DEF PluginsInv, TornListed
    <3> QED BY <1>1, <1>3, <1>4, <3>5, <3>6, SparedLoads DEF PluginsInv
  <2>6. CASE \E v \in OldProviders : torn' = torn \cup {<<"provider", v>>}
    <3>1. PICK v \in OldProviders : torn' = torn \cup {<<"provider", v>>}
      BY <2>6
    <3>2. \A u : u # v /\ ProviderLoads(u) => ProviderLoads(u)'
      BY <1>1, <2>1, <2>2, <3>1 DEF ProviderLoads
    <3>3. v # installed /\ \A t \in StorageRoots : t[1] # v
      BY <3>1 DEF OldProviders
    <3>4. \A t \in StorageRoots : StorageSetLoads(t) => StorageSetLoads(t)'
      BY <1>1, <2>1, <2>2, <3>1, <3>2, <3>3 DEF StorageSetLoads
    <3>5. \A t : AdapterSetLoads(t) => AdapterSetLoads(t)'
      BY <2>1, <2>2, <3>1 DEF AdapterSetLoads
    <3>6. Spared
      BY <3>2, <3>3, <3>4, <3>5 DEF Spared
    <3>7. TornListed'
      <4>1. v \in providers
        BY <3>1 DEF OldProviders
      <4> QED BY <2>1, <2>2, <3>1, <4>1 DEF PluginsInv, TornListed
    <3> QED BY <1>1, <1>3, <1>4, <3>6, <3>7, SparedLoads DEF PluginsInv
  <2> QED BY <1>7, <2>3, <2>4, <2>5, <2>6 DEF TearDirectory
<1> QED BY <1>5, <1>6, <1>7

LEMMA CrashKeeps ==
  ASSUME PluginsInv, Crash
  PROVE  PluginsInv'
<1>1. /\ UNCHANGED genVars /\ op' = NoOp /\ up' = FALSE
      /\ UNCHANGED <<installed, chosen, desired, sourceSets, unsealed, adapterSets, artifacts, providers, providerSets, torn>>
  BY DEF Crash, providerVars
<1>2. Prepared'
  <2>1. NoOp.step = "" /\ IsOp(NoOp)
    BY Facts
  <2> QED BY <1>1, <2>1 DEF Prepared, IsOp
<1>3. SourceSetLoads(desired)' /\ Grows
  BY <1>1, Facts DEF SourceSetLoads, Grows
<1> QED BY <1>1, <1>2, <1>3, PinsStay DEF PluginsInv

\* A start fails the candidate left behind; a changed set makes a generation.
LEMMA RestartKeeps ==
  ASSUME PluginsInv, Restart
  PROVE  PluginsInv'
<1>1. PICK now, set, old : /\ now = gens[active].adapters /\ set = Outcome(now, {})
                           /\ old = IF staged = 0 THEN gens ELSE [gens EXCEPT ![staged].state = "failed"]
  OBVIOUS
<1>2. /\ UNCHANGED <<desired, installed, chosen, providers, providerSets, torn, op>> /\ op = NoOp
      /\ sourceSets' = {desired} /\ unsealed' = {d \in unsealed : d[1] # "source"}
      /\ Reconcile(now, {}) /\ staged' = 0
      /\ \/ set = now /\ gens' = old /\ UNCHANGED <<active, previous>>
         \/ /\ set # now /\ Free # {} /\ active' = NewGen /\ previous' = active
            /\ gens' = [old EXCEPT ![NewGen] = [state |-> "active", adapters |-> set, storage |-> gens[active].storage],
                                   ![active].state = "draining"]
  BY <1>1 DEF Restart, providerVars, Collected, PluginsInv, Prepared
<1>3. Grows /\ SourceSetLoads(desired)'
  <2>1. <<"source", desired'>> \notin unsealed'
    <3>1. <<"source", desired'>>[1] = "source"
      OBVIOUS
    <3> QED BY <1>2, <3>1
  <2> QED BY <1>2, <2>1 DEF Grows, SourceSetLoads, Reconcile
<1>4. Prepared'
  <2>1. NoOp.step = "" /\ IsOp(NoOp)
    BY Facts
  <2> QED BY <1>2, <2>1 DEF Prepared, IsOp
<1>5. AdapterSetLoads(set)' /\ \E s : s = gens[active].storage /\ StorageLoads(s)
  <2>1. AdapterSetLoads(now) /\ StorageLoads(gens[active].storage)
    BY <1>1, LiveSets
  <2>2. Outcome(now, {}) = set
    BY <1>1
  <2> QED BY <1>2, <2>1, <2>2, OutcomeLoads
<1>6. /\ DOMAIN old = Ids /\ \A g \in Ids : IsGen(old[g])
      /\ \A g \in Ids : g # staged => old[g] = gens[g]
      /\ \A g \in Ids : old[g].adapters = gens[g].adapters /\ old[g].storage = gens[g].storage /\ (old[g] = gens[g] \/ old[g].state = "failed")
  <2>0. Pointers
    BY DEF PluginsInv
  <2>1. CASE staged = 0
    BY <1>1, <2>0, <2>1 DEF Pointers
  <2>2. CASE staged # 0
    <3>1. staged \in Ids /\ old = [gens EXCEPT ![staged].state = "failed"]
      BY <1>1, <2>0, <2>2 DEF Pointers
    <3>2. old[staged] = [gens[staged] EXCEPT !.state = "failed"] /\ DOMAIN old = Ids /\ \A g \in Ids : g # staged => old[g] = gens[g]
      BY <2>0, <3>1 DEF Pointers
    <3>3. old[staged] = [state |-> "failed", adapters |-> gens[staged].adapters, storage |-> gens[staged].storage]
      BY <2>0, <3>1, <3>2, StateForm DEF Pointers
    <3>4. /\ IsGen(old[staged]) /\ old[staged].adapters = gens[staged].adapters /\ old[staged].storage = gens[staged].storage
          /\ old[staged].state = "failed"
      BY <3>3 DEF IsGen
    <3>5. \A g \in Ids : IsGen(old[g])
      BY <2>0, <3>2, <3>4 DEF Pointers
    <3>6. \A g \in Ids : old[g].adapters = gens[g].adapters /\ old[g].storage = gens[g].storage /\ (old[g] = gens[g] \/ old[g].state = "failed")
      BY <3>2, <3>4
    <3> QED BY <3>2, <3>5, <3>6
  <2> QED BY <2>1, <2>2
<1>7. /\ active \in Ids /\ active # staged /\ gens[active].state = "active"
      /\ previous # 0 => previous \in Ids /\ previous # staged /\ gens[previous].state = "draining"
  <2>1. Pointers
    BY DEF PluginsInv
  <2>2. 0 \notin Ids
    BY PluginsAssumption DEF Ids
  <2>3. active \in Ids /\ gens[active].state = "active" /\ active # staged
    BY <2>1, <2>2 DEF Pointers
  <2>4. previous # 0 => previous \in Ids /\ gens[previous].state = "draining" /\ previous # staged
    BY <2>1, <2>2 DEF Pointers
  <2> QED BY <2>3, <2>4
<1>8. CASE set = now /\ gens' = old /\ UNCHANGED <<active, previous>>
  <2>1. Pointers'
    BY <1>2, <1>6, <1>7, <1>8 DEF Pointers, IsGen
  <2>2. PinsLoad
    <3> SUFFICES ASSUME NEW g \in Ids, Live(g)'
                 PROVE  \E b, t : /\ gens'[g].adapters = b /\ gens'[g].storage = t
                                  /\ AdapterSetLoads(b) \/ AdapterSetLoads(b)'
                                  /\ StorageLoads(t)
      BY DEF PinsLoad
    <3>1. old[g] = gens[g]
      BY <1>6, <1>8 DEF Live
    <3>2. Live(g)
      BY <1>8, <3>1 DEF Live
    <3>3. PICK b, t : b = gens[g].adapters /\ t = gens[g].storage
      OBVIOUS
    <3> QED BY <1>8, <3>1, <3>2, <3>3, LiveSets
  <2> QED BY <1>2, <1>3, <1>4, <2>1, <2>2, PinsMove DEF PluginsInv
<1>9. CASE /\ Free # {} /\ active' = NewGen /\ previous' = active
           /\ gens' = [old EXCEPT ![NewGen] = [state |-> "active", adapters |-> set, storage |-> gens[active].storage],
                                  ![active].state = "draining"]
  <2>1. PICK n, s : n = NewGen /\ s = gens[active].storage /\ StorageLoads(s)
    BY <1>5
  <2>2. n \in Ids /\ gens[n] = NoGen /\ n # 0
    BY <1>9, <2>1, NewGenIsFree
  <2>3. n # active
    BY <1>7, <2>2 DEF NoGen
  <2>4. /\ DOMAIN gens' = Ids /\ gens'[n] = [state |-> "active", adapters |-> set, storage |-> s]
        /\ gens'[active] = [old[active] EXCEPT !.state = "draining"] /\ \A g \in Ids \ {n, active} : gens'[g] = old[g]
    BY <1>6, <1>7, <1>9, <2>1, <2>2, <2>3
  <2>5. gens'[active] = [state |-> "draining", adapters |-> old[active].adapters, storage |-> old[active].storage]
    BY <1>6, <1>7, <2>4, StateForm
  <2>6. /\ gens'[n].state = "active" /\ gens'[n].adapters = set /\ gens'[n].storage = s /\ IsGen(gens'[n])
        /\ gens'[active].state = "draining" /\ IsGen(gens'[active])
        /\ gens'[active].adapters = old[active].adapters /\ gens'[active].storage = old[active].storage
    BY <2>4, <2>5 DEF IsGen
  <2>7. Pointers'
    <3>1. \A g \in Ids : IsGen(gens'[g])
      BY <1>6, <2>4, <2>6
    <3>2. active' = n /\ previous' = active /\ staged' = 0
      BY <1>2, <1>9, <2>1
    <3> QED BY <1>7, <2>2, <2>4, <2>6, <3>1, <3>2 DEF Pointers, IsGen
  <2>8. PinsLoad
    <3> SUFFICES ASSUME NEW g \in Ids, Live(g)'
                 PROVE  \E b, t : /\ gens'[g].adapters = b /\ gens'[g].storage = t
                                  /\ AdapterSetLoads(b) \/ AdapterSetLoads(b)'
                                  /\ StorageLoads(t)
      BY DEF PinsLoad
    <3>1. CASE g = n
      BY <1>5, <2>1, <2>6, <3>1
    <3>2. CASE g # n
      <4>1. Live(g)
        <5>1. CASE g = active
          BY <1>7, <5>1 DEF Live
        <5>2. CASE g # active
          <6>1. gens'[g] = old[g]
            BY <2>4, <3>2, <5>2
          <6>2. old[g] = gens[g]
            BY <1>6, <6>1 DEF Live
          <6> QED BY <6>1, <6>2 DEF Live
        <5> QED BY <5>1, <5>2
      <4>2. gens'[g].adapters = gens[g].adapters /\ gens'[g].storage = gens[g].storage
        <5>1. CASE g = active
          BY <1>6, <1>7, <2>6, <5>1
        <5>2. CASE g # active
          <6>1. gens'[g] = old[g]
            BY <2>4, <3>2, <5>2
          <6> QED BY <1>6, <6>1
        <5> QED BY <5>1, <5>2
      <4>3. PICK b, t : b = gens[g].adapters /\ t = gens[g].storage
        OBVIOUS
      <4>4. AdapterSetLoads(b) /\ StorageLoads(t)
        BY <4>1, <4>3, LiveSets
      <4> QED BY <4>2, <4>3, <4>4
    <3> QED BY <3>1, <3>2
  <2> QED BY <1>2, <1>3, <1>4, <2>7, <2>8, PinsMove DEF PluginsInv
<1> QED BY <1>2, <1>8, <1>9

LEMMA PluginsStep ==
  ASSUME PluginsInv, [Next]_vars
  PROVE  PluginsInv'
<1>1. CASE UNCHANGED vars
  <2>1. UNCHANGED genVars /\ UNCHANGED <<op, up, installed, chosen, desired, sourceSets, unsealed, adapterSets, artifacts, providers, providerSets, torn>>
    BY <1>1 DEF vars, sourceVars, adapterVars, providerVars
  <2>2. SourceSetLoads(desired)' /\ Grows
    BY <2>1, Facts DEF SourceSetLoads, Grows
  <2>3. Prepared'
    BY <2>1 DEF PluginsInv, Prepared, SourceSetLoads, ProviderLoads, genVars, IsOp
  <2> QED BY <2>1, <2>2, <2>3, PinsStay DEF PluginsInv
<1>2. CASE Next
  BY <1>2, RequestsKeep, SelectionKeeps, CommitKeeps, ProviderKeeps, MarkersKeep, ImportKeeps, StageKeeps,
       ActivateKeeps,
     CollectKeeps, CrashKeeps, RestartKeeps DEF Next, Step
<1> QED BY <1>1, <1>2

\* Whatever is installed, configured, collected or cut short, what the Host names
\* is there and loads.
THEOREM PinnedSetsAlwaysLoad == Spec => []PinnedSetsLoad
<1>1. Init => PluginsInv
  <2>1. 1 \in Ids
    BY PluginsAssumption DEF Ids
  <2> QED BY <2>1, PluginsInit
<1>2. PluginsInv /\ [Next]_vars => PluginsInv'
  BY PluginsStep
<1>3. PluginsInv => PinnedSetsLoad
  BY DEF PluginsInv
<1> QED BY <1>1, <1>2, <1>3, PTL DEF Spec

\* An entry that a reconciliation takes out has lost its file, or a sound
\* candidate of its name is selected.
LEMMA SelectedReplaces ==
  ASSUME NEW fallback, NEW known, NEW e \in fallback \ Selected(fallback, known), NEW c \in Candidates, c.name = e.name
  PROVE  c.by \in Sound /\ [name |-> c.name, by |-> c.by] \in Selected(fallback, known)
<1> DEFINE valid == Imported(fallback, known)
<1> DEFINE rest == valid \ Twins(valid)
<1> DEFINE failed == Candidates \ rest
<1> DEFINE adapters == {AdapterOf[d.by] : d \in Twins(valid) \cup {x \in Refused(fallback, known) : x.by \in Sound}}
<1>1. PICK lost : Selected(fallback, known) = Preserved(fallback, {d.name : d \in failed \cup lost}, adapters)
                                            \cup {[name |-> d.name, by |-> d.by] : d \in rest \ lost}
  BY DEF Selected
<1> HIDE DEF adapters
<1>2. e.name \notin {d.name : d \in failed \cup lost}
  BY <1>1 DEF Preserved
<1>3. c \in rest \ lost
  BY <1>2
<1>4. c.by \in Sound
  BY <1>3 DEF Imported, Refused
<1> QED BY <1>1, <1>3, <1>4

LEMMA OutcomeReplaces ==
  ASSUME NEW fallback, NEW known, NEW e \in fallback \ Outcome(fallback, known)
  PROVE  \/ \A c \in Candidates : c.name # e.name
         \/ \E c \in Candidates : c.name = e.name /\ c.by \in Sound /\ [name |-> c.name, by |-> c.by] \in Outcome(fallback, known)
<1>1. Outcome(fallback, known) = Selected(fallback, known)
  BY DEF Outcome
<1> QED BY <1>1, SelectedReplaces

OnlyReplacedLeave ==
  \A g \in Ids : New(g) =>
    \A e \in gens[active].adapters \ gens[g]'.adapters :
      \/ \A c \in Candidates : c.name # e.name
      \/ \E c \in Candidates : c.name = e.name /\ c.by \in Sound /\ [name |-> c.name, by |-> c.by] \in gens[g]'.adapters

\* Only a reconciliation makes a generation whose adapter set is another one.
LEMMA NewGenerations ==
  ASSUME PluginsInv, Next, NEW g \in Ids, New(g)
  PROVE  gens'[g].adapters = gens[active].adapters \/ \E known : gens'[g].adapters = Outcome(gens[active].adapters, known)
<1>1. Pointers /\ gens[g] = NoGen /\ gens'[g] # NoGen /\ NoGen.state = "none" /\ gens' # gens
  BY DEF PluginsInv, New, NoGen
<1>2. g # active /\ (staged # 0 => g # staged) /\ (previous # 0 => g # previous)
  BY <1>1 DEF Pointers
<1>3. ASSUME NEW a, NEW s, StageWith(a, s)
      PROVE  gens'[g].adapters = a
  BY <1>1, <1>3, StageForm
<1>4. CASE Restart
  <2>1. PICK now, set, old, n : /\ now = gens[active].adapters /\ set = Outcome(now, {}) /\ n = NewGen
                                /\ old = IF staged = 0 THEN gens ELSE [gens EXCEPT ![staged].state = "failed"]
    OBVIOUS
  <2>2. DOMAIN old = Ids /\ old[g] = NoGen
    BY <1>1, <1>2, <2>1 DEF Pointers
  <2>3. /\ gens' # old
        /\ gens' = [old EXCEPT ![n] = [state |-> "active", adapters |-> set, storage |-> gens[active].storage], ![active].state = "draining"]
    BY <1>1, <1>4, <2>1, <2>2 DEF Restart
  <2>4. g = n
    BY <1>1, <1>2, <2>2, <2>3
  <2>5. gens'[g].adapters = set
    BY <1>2, <2>2, <2>3, <2>4
  <2> QED BY <2>1, <2>5
<1>5. CASE ImportCandidates
  <2>1. StageWith(Outcome(gens[active].adapters, quarantine), gens[active].storage)
    BY <1>1, <1>5 DEF ImportCandidates, genVars
  <2> QED BY <1>3, <2>1
<1>6. CASE StageUpdate \/ SwitchStorage
  BY <1>3, <1>6 DEF StageUpdate, SwitchStorage
<1>b. ASSUME NEW h, h # g, gens' = [gens EXCEPT ![h].state = "active", ![active].state = "draining"]
      PROVE  FALSE
  <2>1. DOMAIN gens = Ids
    BY <1>1 DEF Pointers
  <2>2. gens'[g] = gens[g]
    BY <1>2, <1>b, <2>1
  <2> QED BY <1>1, <2>2
<1>7. CASE StartCandidate \/ FailCandidate
  <2>1. staged # 0
    BY <1>7 DEF StartCandidate, FailCandidate, PluginsInv, Prepared
  <2>2. g # staged /\ DOMAIN gens = Ids
    BY <1>1, <1>2, <2>1 DEF Pointers
  <2>3. CASE StartCandidate
    BY <1>b, <2>2, <2>3 DEF StartCandidate, Activated
  <2>4. CASE FailCandidate
    <3>1. gens'[g] = gens[g]
      BY <2>2, <2>4 DEF FailCandidate
    <3> QED BY <1>1, <3>1
  <2> QED BY <1>7, <2>3, <2>4
<1>8. CASE RollbackUpdate
  BY <1>b, <1>2, <1>8 DEF RollbackUpdate
<1>9. CASE RetireGenerations
  BY <1>1, <1>9 DEF RetireGenerations
<1>10. ~(UNCHANGED genVars)
  BY <1>1 DEF genVars
<1> QED BY <1>4, <1>5, <1>6, <1>7, <1>8, <1>9, <1>10 DEF Next, Step, Install, Uninstall, EditLocal,
             BeginReconcile, ActivateUpdate,
     InstallProvider, Configure, UninstallProvider, StartRecording, EndRecording, DeleteRecordings, TearDirectory, Crash,
     EnsureSourceSet, SealSourceSet, Commit, Verify, RollbackSelection, SealProvider, CarryConfig, RecordInstalled, SelectDesiredSet,
     CollectAdapters, CollectProviders

\* A broken, ambiguous or contradicting file never takes an adapter away.
THEOREM EntriesLeaveOnlyWhenReplaced == Spec => EntriesLeaveOnlyReplaced
<1>1. Init => PluginsInv
  <2>1. 1 \in Ids
    BY PluginsAssumption DEF Ids
  <2> QED BY <2>1, PluginsInit
<1>2. PluginsInv /\ [Next]_vars => PluginsInv'
  BY PluginsStep
<1>3. PluginsInv /\ [Next]_vars => [OnlyReplacedLeave]_(vars)
  <2> SUFFICES ASSUME PluginsInv, Next, NEW g \in Ids, New(g), NEW e \in gens[active].adapters \ gens[g]'.adapters
               PROVE  \/ \A c \in Candidates : c.name # e.name
                      \/ \E c \in Candidates : c.name = e.name /\ c.by \in Sound /\ [name |-> c.name, by |-> c.by] \in gens[g]'.adapters
    BY DEF OnlyReplacedLeave
  <2>1. PICK known : gens'[g].adapters = Outcome(gens[active].adapters, known)
    BY NewGenerations
  <2>2. PICK now, set : now = gens[active].adapters /\ set = gens'[g].adapters
    OBVIOUS
  <2>3. e \in now \ Outcome(now, known) /\ set = Outcome(now, known)
    BY <2>1, <2>2
  <2> QED BY <2>2, <2>3, OutcomeReplaces
<1> QED BY <1>1, <1>2, <1>3, PTL DEF Spec, EntriesLeaveOnlyReplaced, OnlyReplacedLeave

=============================================================================
