CONSTANTS
  Tasks <- const_Three
  Idle = 0
  InitTask = 1
  SLICE = 1
  SleepTicks <- const_NoTick
  NULL = NULL
  Boxes <- const_OneBox
  Messages <- const_Messages
  NoMail = NoMail
  BOX_SIZE = 2
  LastTask = 4
  WORD_COUNT = 2
  MaxStarts = 3
  Started <- const_Order
  ExitAt <- const_Consumers
SPECIFICATION MailProgSpec
PROPERTIES
  WordsInOrder
  FirstWaiterServed
CHECK_DEADLOCK FALSE
