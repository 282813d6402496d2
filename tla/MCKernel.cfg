CONSTANTS
  PROC_MAX = 4
  QUEUE_SIZE = 4
  PROC_TIMESLICE = 1
  CLK_TCK = 1
  SleepSecs <- const_NoSleep
  Keys <- const_Keys
  NULL = NULL
  MaxTime = 1
  MaxPid = 4
  MUTEX_MAX = 1
  MutexArgs <- const_MutexArgs
  AllocatedOnly = TRUE
  MBOX_SIZE = 2
  NoMessage = 0
  MBOX_MAX = 1
  MboxArgs <- const_MboxArgs
  RoomOnly = TRUE
  MaxSent = 2
SPECIFICATION KernelSpec
INVARIANTS
  WaitsOnce
  LockMeansHeld
  RecvMeansMail
PROPERTY
  ErrorsChangeNothing
CHECK_DEADLOCK FALSE
