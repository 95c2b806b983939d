SPECIFICATION Spec
CONSTANTS
  Records <- TwoFiles
  HastyLosses = FALSE
  MaxFaults = 0
  MaxMeddling = 1
PROPERTIES
  OthersAreLeftAlone
CHECK_DEADLOCK FALSE
