CONSTANTS
  Parts <- const_Clock
  IRQs <- const_IRQs
  InitialMasks <- const_Masks
  DisableTwice = FALSE
  Procs <- const_Procs
  INT_MAX = 31
  CLK_TCK = 2
  SleepSecs <- const_SleepSecs
  LastTick = 40
  WithinRange = FALSE
  VGA_ROW_MAX = 2
  VGA_COL_MAX = 3
  VGA_TAB_SIZE = 2
  StringChars <- const_String
  SingleChars <- const_Single
  Styles <- const_Style
  Wrappers <- const_Calls
  OperandRegs <- const_SpareRegs
SPECIFICATION DevSpec
PROPERTY
  SleepExact
CHECK_DEADLOCK FALSE
