SPECIFICATION FairSpec
CONSTANTS
  MaxToken = 2
  MaxList = 2
  MaxChunks = 2
  None = None
INVARIANTS
  StaleTransferStopped
  WorkIsActive
PROPERTIES
  
  PlaylistSpec
  SupersededIsReleased
  QueuedIsTakenUp
CHECK_DEADLOCK FALSE
