SPECIFICATION Spec
CONSTANTS
  Records <- OneOfEach
  HastyLosses = TRUE
  MaxFaults = 2
  MaxMeddling = 0
INVARIANTS
  PriorSurvives
CHECK_DEADLOCK FALSE
