CONSTANTS
  Segments = {s1, s2}
  Manifests = {m1}
  PersistAttempts = 2
  MaxFaults = 2
  MaxCrashes = 2
SYMMETRY SegmentSymmetry
SPECIFICATION Spec
CHECK_DEADLOCK FALSE
INVARIANTS
  CommitSurvives
  PlaybackFailsClosed
  ChecksAgree
  DeletedStaysDeleted
