CONSTANTS
  Tasks <- const_Two
  Idle = 0
  InitTask = 1
  SLICE = 1
  SleepTicks <- const_SleepTicks
  NULL = NULL
  Locks <- const_Locks
  TestGroups <- const_Groups
  LockTypes <- const_AnyLock
  Counts <- const_Twice
  InitPrograms <- const_Both
  EarlyKeys = FALSE
  ExitAt <- const_HoldsNothing
SPECIFICATION ProgSpec
INVARIANT
  MutexExclusive
PROPERTY
  TestEnds
CHECK_DEADLOCK FALSE
