SPECIFICATION FairSpec
CONSTANTS
  MaxFaults = 1
PROPERTIES
  CaptureGoesOn
CHECK_DEADLOCK FALSE
