SPECIFICATION Spec
CONSTANTS
  a = a
  b = b
  c = c
  NoKey = NoKey
  WorkItems = {a, b}
  DedupeKey <- OwnKeys
  ConcurrencyKey <- NoKeys
  MaxAttempts = 1
  LeaseTimeout = 1
  Delays = {0}
  Lifetimes = {3}
  BatchSizes = {1}
  MaxOutstanding = 2
  MaxDelayed = 1
  MaxLeased = 1
  MaxFailed = 1
  MaxTerminalItems = 1
  CleanupBatch = 1
  SweepEvery = 1
  ReceiptForms = {}
  ControlModes = {}
  MaxTime = 3
  MaxIncarnations = 1
INVARIANTS
  InDoubtRetainsCredit
CHECK_DEADLOCK FALSE
