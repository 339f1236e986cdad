\* One task and one worker; a source that restarts its numbering, is refreshed
\* and ends; a loop, a refresh or the storage may fail.
SPECIFICATION FairSpec
CONSTANTS
  MaxSeq = 2
  MaxRun = 2
  MaxGeneration = 1
  MaxWindow = 2
  GapTags = {}
  MaxTasks = 1
  MaxWorkers = 1
  SegmentAttempts = 1
  MaxRefreshCycles = 1
  Faults = {"poll", "refresh", "storage"}
CHECK_DEADLOCK FALSE
INVARIANTS
  SettledIsNotRetried
  EndAccountsForAll
PROPERTIES
  EndListDrains
  StopEnds
