SPECIFICATION Spec
CONSTANTS
  W = 16
  FRAME_TICKS = 8
  PIT_MS = 3
  Delays = {0, 2, 3}
  Gap = 2
  ReadGap = 1
  PERIOD = 7
  LEAD = 3
  BASE = 2
  NIBBLE = 4
  SECS = 3
  MINS = 2
  HOURS = 2
PROPERTY FrameTakesItsTime
