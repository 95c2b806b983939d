SPECIFICATION FairSpec
CONSTANTS
  QueueCount = 2
  GlobalLimit = 1
  MaxInFlight = 1
  BatchSize = 1
  MaxWork = 1
  Closable = {}
  DrainTimeouts = FALSE
PROPERTIES
  EveryQueueIsAttended
CHECK_DEADLOCK FALSE
