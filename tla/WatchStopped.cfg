\* A user who only stops a Recording, and nothing that goes wrong.
SPECIFICATION WatchSpec
CONSTANTS
  MaxRecordings = 2
  MaxSessions = 1
  MaxEvents = 0
PROPERTIES
  StoppedIsNotRecordedAgain
CHECK_DEADLOCK FALSE
