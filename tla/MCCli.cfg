SPECIFICATION Spec
CONSTANTS
  gee = gee
  tee = tee
  SCR_ROWS = 1
  SCR_COLS = 6
  Glyphs = {gee, tee, space}
  Space = space
  NL = nl
  NUL = nul
  BS = bs
  CLI_BUF_SIZE = 4
  Prompt <- MCPrompt
  Cancelled <- MCCancelled
  Commands <- MCCommands
  GdbCommand <- MCGdb
  TestCommand <- MCTest
  EchoPrefix <- MCEcho
  HexPrefix <- MCHex
  DigitValue <- MCDigit
  HexDigit <- MCHexDigit
  RADIX = 2
  NIBBLE = 3
  WIDTH = 1
  ZeroX <- MCZeroX
  Reports <- MCReports
  UnknownText <- MCUnknown
  TypeHelp <- MCTypeHelp
  Unseen = {nul}
  Switching <- MCSwitching
  DemoMessages <- MCDemo
  SwapMessages <- MCSwap
  AbortTraces <- MCTraces
  Full = 2
INVARIANTS
  TypeOK
  LineIsShown
