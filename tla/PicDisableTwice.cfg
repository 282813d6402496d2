CONSTANTS
  Parts <- const_Pic
  IRQs <- const_IRQs
  InitialMasks <- const_Masks
  DisableTwice = TRUE
  Procs <- const_Procs
  INT_MAX = 31
  CLK_TCK = 2
  SleepSecs <- const_SleepSecs
  LastTick = 31
  WithinRange = TRUE
  VGA_ROW_MAX = 2
  VGA_COL_MAX = 3
  VGA_TAB_SIZE = 2
  StringChars <- const_String
  SingleChars <- const_Single
  Styles <- const_Style
  Wrappers <- const_Calls
  OperandRegs <- const_SpareRegs
SPECIFICATION DevSpec
INVARIANT
  LinesAsAsked
CHECK_DEADLOCK FALSE
