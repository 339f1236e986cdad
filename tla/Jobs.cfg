SPECIFICATION FairJobsSpec
CONSTANTS
  Recordings = {r1}
  Workers = {w1, w2}
  MaxActive = 2
  MaxHistory = 1
  MaxJobs = 2
  MaxJobFaults = 2
INVARIANTS
  CompletedIsDurable
  DeletionIsAlone
PROPERTIES
  JobsEnd
CHECK_DEADLOCK FALSE
