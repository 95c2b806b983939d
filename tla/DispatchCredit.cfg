SPECIFICATION FairDispatchSpec
CONSTANTS
  a = a
  b = b
  c1 = c1
  c2 = c2
  WorkItems = {a, b}
  MaxAttempts = 1
  Terminable = {b}
  Outcomes = {"completed", "progress"}
  ContextCalls = {"retry"}
  OperatorActions = {"cancel", "fail", "recover", "acknowledge"}
  Calls = {c1}
  CreditLimit = 1
  BatchSize = 2
INVARIANTS
  CreditRespected
  ReservationsBacked
PROPERTIES
  CreditReturns
CHECK_DEADLOCK FALSE
