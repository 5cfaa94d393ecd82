SPECIFICATION Spec
CONSTANTS
  BYTES = 2
  DIGIT = 4
  STACK_TOP = 200
  int1_tramp = 39
  int3_tramp = 54
  default_tramp = 72
  Vectors = {1, 3, 6}
  ErrorVectors = {}
  TF = 8
  INTF = 16
  CodeSel = 8
  DataSels = {16, 24}
  FirstRegs <- MCFirst
  Values = {24, 30}
  MaxWrites = 3
INVARIANTS
  TypeOK
  ShowsProgram
  ResumesAsWritten
CHECK_DEADLOCK FALSE
