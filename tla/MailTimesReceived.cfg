CONSTANTS
  PROC_MAX = 3
  QUEUE_SIZE = 3
  PROC_TIMESLICE = 1
  CLK_TCK = 2
  SleepSecs <- const_NoSleep
  Keys <- const_NoKeys
  NULL = NULL
  MaxTime = 5
  MaxPid = 4
  MBOX_SIZE = 2
  NoMessage = 0
  MBOX_MAX = 1
  MboxArgs <- const_Args
  RoomOnly = TRUE
  MaxSent = 3
SPECIFICATION TimesSpec
PROPERTY
  ReceivedInSeconds
CHECK_DEADLOCK FALSE
