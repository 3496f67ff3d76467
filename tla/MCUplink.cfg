SPECIFICATION FairSpec
CONSTANTS
  Aec = FALSE
  Preroll = 2
  MaxFrames = 4
  MaxFaults = 1
INVARIANTS
  SentInOrder
  NothingLost
  StartIsEnded
PROPERTIES
  SentencesSpec
  HearsAgain
CHECK_DEADLOCK FALSE
