SPECIFICATION DrawSpec
CONSTANTS
  ink = ink
  dim = dim
  mark = mark
  nought = nought
  SCR_ROWS = 3
  SCR_COLS = 2
  Glyphs = {ink, dim, space}
  Space = space
  NL = nl
  NUL = nul
  Controls = {bs}
  MaxChars = 6
  FONT_WIDTH = 2
  FONT_HEIGHT = 2
  Font <- MCFont
  QuestionMark = mark
  Digits <- MCDigits
  Percent = mark
  DoneText <- MCText
  Message <- MCText
  TEN = 2
  Full = 4
  MARGIN = 1
  PAD = 1
  BAR_H = 4
  TXT_SZ = 1
  CX = 9
  CY = 7
  SQ = 3
  OFF = 4
  AMP = 4
  cos_tab <- MCCos
  sin_tab <- MCSin
  VbeMode <- MCVbe
  Mode13 <- MC13
  BootModes = {}
  Garbage = 238
  MaxDrawn = 4
  MaxFrames = 6
INVARIANTS
  DrawTypeOK
  ShowsLastRows
  PictureShowsText
CHECK_DEADLOCK FALSE
