SPECIFICATION FairSpec
CONSTANTS
  MaxFrames = 2
  MaxSessions = 2
INVARIANTS
  BusyIsHeld
  GrantIsOwn
PROPERTIES
  GivesUpOnlyAtEnd
  SilenceIsSurvived
CHECK_DEADLOCK FALSE
