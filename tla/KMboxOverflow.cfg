CONSTANTS
  PROC_MAX = 4
  QUEUE_SIZE = 4
  PROC_TIMESLICE = 1
  CLK_TCK = 1
  SleepSecs <- const_NoSleep
  Keys <- const_Keys
  NULL = NULL
  MaxTime = 3
  MaxPid = 5
  MBOX_SIZE = 2
  NoMessage = 0
  MBOX_MAX = 1
  MboxArgs <- const_Args
  RoomOnly = FALSE
  MaxSent = 4
SPECIFICATION TimesSpec
INVARIANT
  MailIntact
CHECK_DEADLOCK FALSE
