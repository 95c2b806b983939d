SPECIFICATION Spec
CONSTANTS
  WorkItems <- Items2
  Priority <- LowAndHigh
  Partition <- OnePartition
  PriorityCycle <- LongCycle
  LeaseLimits <- Roomy
  Reservation = 1
  Expiring = {}
  Retried = {1}
  AgingInterval = 1
  AgingBatch = 2
  BatchSizes = {1}
  MaxVisits = 4
  MaxTime = 4
PROPERTIES
  AgeingOnlyPromotes
CHECK_DEADLOCK FALSE
