CONSTANTS
  Tasks <- const_Tasks
  Idle = 0
  InitTask = 1
  SLICE = 2
  SleepTicks <- const_SleepTicks
  NULL = NULL
SPECIFICATION RRSpec
PROPERTIES
  ReadyRuns
  SleeperRuns
CHECK_DEADLOCK FALSE
