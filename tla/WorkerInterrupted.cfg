SPECIFICATION Spec
CONSTANTS
  a = a
  b = b
  WorkItems = {a}
  MaxAttempts = 1
  Terminable = {}
  Outcomes = {"completed", "retry", "cancelled", "failed", "progress"}
  ContextCalls = {}
  OperatorActions = {}
PROPERTIES
  InterruptionReturnsTheItem
CHECK_DEADLOCK FALSE
