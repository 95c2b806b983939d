SPECIFICATION FairSpec
CONSTANTS
  a = a
  b = b
  c = c
  NoKey = NoKey
  WorkItems = {a}
  DedupeKey <- OwnKeys
  ConcurrencyKey <- NoKeys
  MaxAttempts = 2
  LeaseTimeout = 2
  Delays = {0, 1}
  Lifetimes = {3, 5}
  BatchSizes = {1}
  MaxOutstanding = 2
  MaxDelayed = 1
  MaxLeased = 2
  MaxFailed = 1
  MaxTerminalItems = 1
  CleanupBatch = 1
  SweepEvery = 1
  ReceiptForms = {"explicit"}
  ControlModes = {"active", "paused"}
  MaxTime = 5
  MaxIncarnations = 1
INVARIANTS
  TypeOK
  LeaseColumnsAgree
  AttemptBudget
  ReceiptSettlesItsOwnAttempt
PROPERTIES
  LeasesMoveForward
  ImplementsAttempts
  DeadlineEnforced
CHECK_DEADLOCK FALSE
