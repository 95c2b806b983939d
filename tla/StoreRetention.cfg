SPECIFICATION Spec
CONSTANTS
  a = a
  b = b
  c = c
  NoKey = NoKey
  WorkItems = {a, b, c, d1, d2, d3, d4}
  DedupeKey <- OwnKeys
  ConcurrencyKey <- NoKeys
  MaxAttempts = 1
  LeaseTimeout = 1
  Delays = {0}
  Lifetimes = {1}
  BatchSizes = {}
  MaxOutstanding = 7
  MaxDelayed = 1
  MaxLeased = 1
  MaxFailed = 1
  MaxTerminalItems = 1
  CleanupBatch = 3
  SweepEvery = 3
  ReceiptForms = {}
  ControlModes = {}
  MaxTime = 1
  MaxIncarnations = 1
SYMMETRY Symmetry
INVARIANTS
  TerminalRowsAreBounded
CHECK_DEADLOCK FALSE
