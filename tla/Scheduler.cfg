CONSTANTS
  MaxTasks = 4
SPECIFICATION SchFairSpec
INVARIANTS
  OnlyCurrentRuns
PROPERTIES
  SwitchToNextReady
  ReadyRuns
CHECK_DEADLOCK FALSE
