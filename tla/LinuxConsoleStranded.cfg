SPECIFICATION Spec
CONSTANTS
  CtrlC = CtrlC
  NUL = NUL
  Byte = {a, CtrlC}
  RX_LEN = 1
  MaxTyped = 1
  Guarded = FALSE
  CanEof = FALSE
  NoPeer = NoPeer
  Peer = {local1, local2}
  Loopback = {local1, local2}
  MONITOR_RX_LEN = 2
  MaxSent = 2
  SketchGuards = TRUE
INVARIANTS
  GuardedReadTakesSomething
