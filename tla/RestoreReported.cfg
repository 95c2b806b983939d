SPECIFICATION Spec
CONSTANTS
  Records <- TwoFiles
  HastyLosses = FALSE
  MaxFaults = 1
  MaxMeddling = 0
INVARIANTS
  FailedMeansPrior
CHECK_DEADLOCK FALSE
