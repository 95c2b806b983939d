SPECIFICATION DispatchSpec
CONSTANTS
  a = a
  b = b
  c1 = c1
  c2 = c2
  WorkItems = {a, b}
  MaxAttempts = 1
  Terminable = {}
  Outcomes = {"completed"}
  ContextCalls = {}
  OperatorActions = {}
  Calls = {c1, c2}
  CreditLimit = 1
  BatchSize = 1
INVARIANTS
  CreditRespected
CHECK_DEADLOCK FALSE
