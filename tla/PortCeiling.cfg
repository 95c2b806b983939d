SPECIFICATION Spec
CONSTANTS
  QueueCount = 2
  GlobalLimit = 1
  MaxInFlight = 1
  BatchSize = 1
  MaxWork = 1
  Closable = {1}
  DrainTimeouts = FALSE
INVARIANTS
  GlobalCeiling
CHECK_DEADLOCK FALSE
