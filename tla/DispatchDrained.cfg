SPECIFICATION DispatchSpec
CONSTANTS
  a = a
  b = b
  c1 = c1
  c2 = c2
  WorkItems = {a}
  MaxAttempts = 2
  Terminable = {}
  Outcomes = {"completed", "retry"}
  ContextCalls = {}
  OperatorActions = {}
  Calls = {c1}
  CreditLimit = 2
  BatchSize = 1
INVARIANTS
  DrainedMeansIdle
CHECK_DEADLOCK FALSE
