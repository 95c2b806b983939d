SPECIFICATION Spec
CONSTANTS
  WorkItems <- Items3
  Priority <- Mixed3
  Partition <- OnePartition
  PriorityCycle <- ShortCycle
  LeaseLimits <- Roomy
  Reservation = 1
  Expiring = {}
  Retried = {3}
  AgingInterval = 1
  AgingBatch = 2
  BatchSizes = {1}
  MaxVisits = 4
  MaxTime = 2
PROPERTIES
  ClaimsLeaveNothingBehind
CHECK_DEADLOCK FALSE
