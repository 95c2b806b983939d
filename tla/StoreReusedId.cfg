SPECIFICATION Spec
CONSTANTS
  a = a
  b = b
  c = c
  NoKey = NoKey
  WorkItems = {a, b}
  DedupeKey <- OwnKeys
  ConcurrencyKey <- NoKeys
  MaxAttempts = 2
  LeaseTimeout = 2
  Delays = {0}
  Lifetimes = {4}
  BatchSizes = {1}
  MaxOutstanding = 2
  MaxDelayed = 1
  MaxLeased = 2
  MaxFailed = 1
  MaxTerminalItems = 1
  CleanupBatch = 1
  SweepEvery = 1
  ReceiptForms = {}
  ControlModes = {}
  MaxTime = 4
  MaxIncarnations = 2
INVARIANTS
  ReceiptSettlesItsOwnAttempt
CHECK_DEADLOCK FALSE
