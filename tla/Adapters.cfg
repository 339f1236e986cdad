SPECIFICATION Spec
CONSTANTS
  Workflows = {w1, w2}
  NoOne = NoOne
  Earlier = Earlier
  MaxProcesses = 2
  MaxActive = 2
  MaxPending = 2
  MaxTransitions = 2
  MaxControls = 1
  MaxContinues = 1
  MaxVisits = 1
  MaxFaults = 1
SYMMETRY Alike
INVARIANTS
  ContinuationsKeepTheirProcess
  EndingsAreReportedOnce
  NothingRunsUnwanted
