CONSTANTS
  Tasks <- const_Two
  Idle = 0
  InitTask = 1
  SLICE = 1
  SleepTicks <- const_SleepTicks
  NULL = NULL
  Locks <- const_Locks
  TestGroups <- const_Odd
  LockTypes <- const_Mutex
  Counts <- const_Once
  InitPrograms <- const_NoPrograms
  EarlyKeys = FALSE
  ExitAt <- const_Never
SPECIFICATION ProgSpec
INVARIANT
  RoundsAnnounced
CHECK_DEADLOCK FALSE
