SPECIFICATION FairWatchSpec
CONSTANTS
  MaxRecordings = 2
  MaxSessions = 1
  MaxEvents = 1
INVARIANTS
  OneActive
PROPERTIES
  StoppedStaysStopped
  PendingResolves
CHECK_DEADLOCK FALSE
