SPECIFICATION FairSpec
CONSTANTS
  MAX_BE = 2
  Serial = serial
  NUL = nul
  NL = nl
  TS = ts
  ABT = abt
  MARK = mark
  CON_BUF_SIZE = 3
  Others = {screen, other}
  Texts <- MCTexts
  RawTexts <- MCRawTexts
  MaxCalls = 3
  MaxAborts = 2
INVARIANTS
  TypeOK
  RingIsTail
  BackendsInStep
  LinesAreStamped
  AbortsCostOneChar
PROPERTIES
  CallsReturn
CHECK_DEADLOCK FALSE
