SPECIFICATION FairSpec
CONSTANTS
  MaxFrames = 2
  MaxRequests = 1
  MaxChats = 1
  MaxStarts = 1
PROPERTIES
  PlayingEnds
CHECK_DEADLOCK FALSE
