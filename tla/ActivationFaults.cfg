\* Four generations (installation, two updates, a staged one), rollbacks between
\* the updates, and up to three faults in any step.
SPECIFICATION Spec
CONSTANTS
  Generations = {g1, g2, g3, g4}
  Recordings = {r1}
  Workers = {w1}
  None = None
  MaxGenerations = 4
  MaxLeases = 1
  MaxUnsynced = 3
  MaxFaults = 3
  MaxRequests = 1
SYMMETRY Symmetry
INVARIANTS
  OneControlServes
  MutationsStayInTheirEpoch
  OneFaultKeepsService
PROPERTIES
  StartupSettles
\* A behaviour may stop: every generation of the bounded set has been staged
\* and failed or retired, and no operation is left for the Host to begin.
CHECK_DEADLOCK FALSE
