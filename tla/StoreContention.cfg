SPECIFICATION Spec
CONSTANTS
  a = a
  b = b
  c = c
  NoKey = NoKey
  WorkItems = {a, b, c}
  DedupeKey <- AliasedBC
  ConcurrencyKey <- SharedByAB
  MaxAttempts = 1
  LeaseTimeout = 1
  Delays = {0}
  Lifetimes = {2}
  BatchSizes = {2}
  MaxOutstanding = 2
  MaxDelayed = 1
  MaxLeased = 2
  MaxFailed = 1
  MaxTerminalItems = 1
  CleanupBatch = 2
  SweepEvery = 2
  ReceiptForms = {}
  ControlModes = {}
  MaxTime = 2
  MaxIncarnations = 1
INVARIANTS
  ConcurrencyKeyExclusion
  OneItemPerDedupeKey
  CapacitiesHold
PROPERTIES
  LiveLeaseUndisturbed
CHECK_DEADLOCK FALSE
