SPECIFICATION FairSpec
CONSTANTS
  f1 = f1
  f2 = f2
  Frame <- MCFrame
  Rows = 3
  Flips = TRUE
  MaxAborts = 2
INVARIANTS
  TypeOK
  NoTearing
PROPERTIES
  EveryFrameIsShown
  AbortEndsSwap
