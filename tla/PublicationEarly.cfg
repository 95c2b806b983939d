SPECIFICATION Spec
CONSTANTS
  None = None
  Backlog = 2
  MaxRevision = 3
  MaxPolicy = 1
  MaxPlugins = 1
  MaxFaults = 2
INVARIANTS
  NothingIsStranded
CHECK_DEADLOCK FALSE
