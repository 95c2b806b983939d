SPECIFICATION Spec
CONSTANTS
  Records <- TwoFiles
  HastyLosses = FALSE
  MaxFaults = 1
  MaxMeddling = 0
PROPERTIES
  StartupReconciles
CHECK_DEADLOCK FALSE
