SPECIFICATION ConsoleSpec
CONSTANTS
  CtrlC = CtrlC
  NUL = NUL
  Byte = {a, CtrlC}
  RX_LEN = 2
  MaxTyped = 3
  Guarded = TRUE
  CanEof = FALSE
INVARIANTS
  OldestFirst
