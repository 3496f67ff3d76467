SPECIFICATION LiveSpec
CONSTANTS
  Threads = {t1, t2}
  MaxFrames = 1
  MaxStarts = 2
INVARIANTS
  OneOfEach
  PendingHasWaiter
PROPERTIES
  ToneLoopEnds
  HeldListIsPlayed
CHECK_DEADLOCK FALSE
