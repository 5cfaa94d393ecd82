SPECIFICATION MCSpec
CONSTANTS
  Addr <- MCAddr
  Byte <- MCByte
  BP_TABLE_SIZE = 2
  MAX_XFER = 2
INVARIANTS
  TypeOK
  SavedIsText
  RunsWithBreakpoints
  HandlerRunsClean
PROPERTIES
  Implements
CHECK_DEADLOCK TRUE
