SPECIFICATION Spec
CONSTANTS
  QueueCount = 1
  GlobalLimit = 1
  MaxInFlight = 1
  BatchSize = 1
  MaxWork = 1
  Closable = {}
  DrainTimeouts = TRUE
INVARIANTS
  StoreOutlivesWork
CHECK_DEADLOCK FALSE
