SPECIFICATION Spec
CONSTANTS
  WorkItems <- Items4
  Priority <- Priorities4
  Partition <- TwoTenants4
  PriorityCycle <- OneSlotEach
  LeaseLimits <- Loose
  Reservation = 1
  Expiring = {4}
  Retried = {2}
  AgingInterval = 1
  AgingBatch = 2
  BatchSizes = {1, 2}
  MaxVisits = 4
  MaxTime = 1
INVARIANTS
  ClassesGetTheirShare
PROPERTIES
  SiblingsKeepTheirReservation
  ClaimsLeaveOnlyRowless
CHECK_DEADLOCK FALSE
