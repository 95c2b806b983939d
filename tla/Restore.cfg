SPECIFICATION Spec
CONSTANTS
  Records <- OneOfEach
  HastyLosses = FALSE
  MaxFaults = 3
  MaxMeddling = 1
INVARIANTS
  OneGenerationWhole
  PriorSurvives
  ReceiptIsTrue
  AcknowledgedIsDurable
PROPERTIES
  StartupRecovers
CHECK_DEADLOCK FALSE
