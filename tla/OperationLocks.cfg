SPECIFICATION OpSpec
CONSTANTS
  p1 = p1
  p2 = p2
  c1 = c1
  c2 = c2
  c3 = c3
  NoCall = NoCall
  Procs = {p1, p2}
  Calls = {c1, c2, c3}
  ProcOf <- TwoAndOne
  Ttl = 2
  MaxWaiting = 2
  MaxTime = 3
INVARIANTS
  LiveHandleHoldsTheRow
  WaitersArePolled
  SuccessIsExclusive
PROPERTIES
  ImplementsExpiringLock
SYMMETRY SameProcess
CHECK_DEADLOCK FALSE
