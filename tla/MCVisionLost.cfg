SPECIFICATION FairSpec
CONSTANTS
  MaxFrames = 3
  MaxSessions = 1
PROPERTIES
  DoneIsDelivered
CHECK_DEADLOCK FALSE
