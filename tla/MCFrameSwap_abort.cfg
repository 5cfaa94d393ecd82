SPECIFICATION Spec
CONSTANTS
  f1 = f1
  f2 = f2
  Frame <- MCFrame
  Rows = 3
  Flips = TRUE
  MaxAborts = 1
INVARIANTS
  CopyTargetsBackPage
