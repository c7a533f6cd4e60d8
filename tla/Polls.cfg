SPECIFICATION PollsSpec
CONSTANTS
  a = a
  CtrlC = CtrlC
  NUL = NUL
  Byte <- MCByte
  RX_LEN = 2
  MaxTyped = 3
  Guarded = TRUE
  CanEof = TRUE
  local1 = local1
  local2 = local2
  remote = remote
  NoPeer = NoPeer
  Peer <- MCPeer
  Loopback <- MCLoopback
  MONITOR_RX_LEN = 2
  MaxSent = 3
  x = x
  y = y
  NoByte = NoByte
  Octet <- MCOctet
  SIZE = 3
  UART_FIFO_LEN = 2
INVARIANTS
  IndexInBounds
  QueueUntilRaced
  FillFits
PROPERTIES
  InputIsTaken
  ClientsServed
  FifoSpec
  PollReturns
