SPECIFICATION Spec
CONSTANTS
  Scripts = {1, 2}
  Pids = {1, 2}
  MaxRuns = 3
  MaxKills = 1
INVARIANTS
  OneSupervisor
PROPERTIES
  StartTakesEffect
  StopIsComplete
  KillStopsAll
CHECK_DEADLOCK FALSE
