\* Two faults, in any step of the Host: a lost call and the failure of what
\* should have repaired it.
SPECIFICATION Spec
CONSTANTS
  e1 = e1
  e2 = e2
  Engines = {e1, e2}
  None = None
  MaxEpoch = 7
  MaxCommits = 3
  MaxFaults = 2
  FaultySteps <- AllSteps
SYMMETRY Symmetry
INVARIANTS
  WriterIsLeased
  NoFaultStrands
PROPERTIES
  EngineIsKept
  OnlyRolledBackIsLost
