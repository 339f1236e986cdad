CONSTANTS
  e1 = e1
  e2 = e2
  p1 = p1
  p2 = p2
  r1 = r1
  r2 = r2
  Engines = {e1, e2}
  Recordings = {r1, r2}
  Payloads = {p1, p2}
  Assignments <- MCAssignments
  GlobalBytes = 3
  PerRecordingBytes = 3
  MaxPayloadBytes = 2
  QueueObjects = 1
  MaxFaults = 1
SPECIFICATION Spec
CHECK_DEADLOCK FALSE
INVARIANTS
  HostCoversArrays
  OneWriterPersists
PROPERTIES
  ReadsEnd
