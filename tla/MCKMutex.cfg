CONSTANTS
  PROC_MAX = 4
  QUEUE_SIZE = 4
  PROC_TIMESLICE = 1
  CLK_TCK = 1
  SleepSecs <- const_NoSleep
  Keys <- const_Keys
  NULL = NULL
  MaxTime = 3
  MaxPid = 5
  MUTEX_MAX = 2
  MutexArgs <- const_Args
  AllocatedOnly = TRUE
SPECIFICATION MutexSpec
INVARIANTS
  LockCountExact
  WaitersExact
  MutualExclusion
  MutexIdsExact
PROPERTY
  LocksServe
CHECK_DEADLOCK FALSE
