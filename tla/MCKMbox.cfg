CONSTANTS
  PROC_MAX = 4
  QUEUE_SIZE = 4
  PROC_TIMESLICE = 1
  CLK_TCK = 2
  SleepSecs <- const_NoSleep
  Keys <- const_Keys
  NULL = NULL
  MaxTime = 3
  MaxPid = 5
  MBOX_SIZE = 2
  NoMessage = 0
  MBOX_MAX = 1
  MboxArgs <- const_Args
  RoomOnly = TRUE
  MaxSent = 3
SPECIFICATION TimesSpec
INVARIANTS
  MailIntact
  NoIdleMail
  ReceiversExact
  MailChronological
PROPERTIES
  MailServes
CHECK_DEADLOCK FALSE
