SPECIFICATION Spec
CONSTANTS
  a = a
  b = b
  c = c
  NoKey = NoKey
  WorkItems = {a}
  DedupeKey <- OwnKeys
  ConcurrencyKey <- NoKeys
  MaxAttempts = 2
  LeaseTimeout = 1
  Delays = {0}
  Lifetimes = {3}
  BatchSizes = {1}
  MaxOutstanding = 2
  MaxDelayed = 1
  MaxLeased = 2
  MaxFailed = 1
  MaxTerminalItems = 1
  CleanupBatch = 1
  SweepEvery = 1
  ReceiptForms = {}
  ControlModes = {}
  MaxTime = 3
  MaxIncarnations = 1
INVARIANTS
  ReceiptsNameTheirAttempt
CHECK_DEADLOCK FALSE
