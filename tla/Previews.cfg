SPECIFICATION FairPreviewsSpec
CONSTANTS
  PreviewRecordings = {r1, r2}
  PreviewWorkers = {w1}
  QueueCapacity = 1
  IndexCap = 1
  PersistBatch = 2
  MaxTaskRetries = 2
  PassWindow = 1
  PassBudget = 1
  LatestBudget = 1
  MaxSegments = 1
  MaxEvents = 2
INVARIANTS
  IndexedFramesExist
  DeletedLeavesNothing
  HandedOffIsIdle
PROPERTIES
  SegmentsSettle
CHECK_DEADLOCK FALSE
