SPECIFICATION Spec
CONSTANTS
  WorkItems <- Items3
  Priority <- Mixed3
  Partition <- OnePartition
  PriorityCycle <- ShortCycle
  LeaseLimits <- Roomy
  Reservation = 1
  Expiring = {1, 2, 3}
  Retried = {3}
  AgingInterval = 5
  AgingBatch = 2
  BatchSizes = {1}
  MaxVisits = 4
  MaxTime = 0
INVARIANTS
  CountsAreDropped
CHECK_DEADLOCK FALSE
