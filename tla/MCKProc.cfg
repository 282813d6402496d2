CONSTANTS
  PROC_MAX = 4
  QUEUE_SIZE = 4
  PROC_TIMESLICE = 2
  CLK_TCK = 2
  SleepSecs <- const_SleepSecs
  Keys <- const_Keys
  NULL = NULL
  MaxTime = 5
  MaxPid = 6
SPECIFICATION ProcSpec
INVARIANTS
  ProcTypeOK
  FreeEntriesExact
  PidsUnique
  RunQueueExact
  OneActive
  SliceBounded
  SleepersOnTime
  SchedulerNeverPanics
PROPERTIES
  SleepNotCutShort
  RunQueueFifo
  IdleOnlyByDefault
  SchedulesRoundRobin
CHECK_DEADLOCK FALSE
