SPECIFICATION FairSpec
CONSTANTS
  MaxFaults = 2
INVARIANTS
  SocketInUse
  OneEngine
PROPERTIES
  NoRevival
  ReportsResume
  CallersReturn
CHECK_DEADLOCK FALSE
