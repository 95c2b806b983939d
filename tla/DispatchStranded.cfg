SPECIFICATION DispatchSpec
CONSTANTS
  a = a
  b = b
  c1 = c1
  c2 = c2
  WorkItems = {a, b}
  MaxAttempts = 1
  Terminable = {}
  Outcomes = {"completed"}
  ContextCalls = {}
  OperatorActions = {}
  Calls = {c1}
  CreditLimit = 2
  BatchSize = 2
INVARIANTS
  LeasesAreStarted
CHECK_DEADLOCK FALSE
