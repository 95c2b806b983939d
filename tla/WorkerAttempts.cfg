SPECIFICATION FairSpec
CONSTANTS
  a = a
  b = b
  WorkItems = {a}
  MaxAttempts = 3
  Terminable = {}
  Outcomes = {"completed", "retry", "cancelled", "failed", "progress"}
  ContextCalls = {"completed", "failed"}
  OperatorActions = {"cancel"}
INVARIANTS
  NoOverlap
PROPERTIES
  ImplementsAttempts
  EveryAttemptEnds
CHECK_DEADLOCK FALSE
