SPECIFICATION FairSpec
CONSTANTS
  QueueCount = 2
  GlobalLimit = 2
  MaxInFlight = 2
  BatchSize = 2
  MaxWork = 3
  Closable = {1}
  DrainTimeouts = TRUE
INVARIANTS
  RegisteredCeiling
  ClosedFacetIsIdle
  OrderlyClose
PROPERTIES
  OnlyExecutionsKeepWaiting
CHECK_DEADLOCK FALSE
