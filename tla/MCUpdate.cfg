SPECIFICATION UpdateSpec
CONSTANTS
  MaxCuts = 2
  MaxRefused = 1
INVARIANTS
  SuccessMeansComplete
PROPERTIES
  OneVersion
  SuccessIsServed
CHECK_DEADLOCK FALSE
