SPECIFICATION SpecWithBreak
CONSTANTS
  Addr <- MCAddr
  Byte <- MCByte
  BP_TABLE_SIZE = 2
  BpSites <- ProgramSites
  FixesPc = TRUE
  DetachesAfterStep = FALSE
  MaxNest = 2
INVARIANTS
  HandlerWaitsForClient
