SPECIFICATION FairSpec
CONSTANTS
  MaxFrames = 2
  MaxRequests = 1
  MaxChats = 1
  MaxStarts = 1
INVARIANTS
  FlushedDeviceIsOpen
  QuietWhenReporting
PROPERTIES
  MarksEnd
  CallsReturn
  ReportsSpec
CHECK_DEADLOCK FALSE
