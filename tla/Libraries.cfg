SPECIFICATION LibrariesSpec
CONSTANTS
  a = a
  CtrlC = CtrlC
  NUL = NUL
  Byte <- MCByte
  RX_LEN = 1
  MaxTyped = 1
  Guarded = FALSE
  CanEof = FALSE
  local1 = local1
  NoPeer = NoPeer
  Peer <- MCPeer
  Loopback <- MCPeer
  MONITOR_RX_LEN = 2
  MaxSent = 1
  SketchGuards = TRUE
  Conn = {"a", "b"}
  MaxFd = 2
  MaxUnits = 2
  Remote = {"p", "q"}
  MaxDatagrams = 3
  MaxUdpUnits = 3
  MaxWritten = 2
  WIDTH = 6
  SCALE = 200
  OVF = 2050
  Ticks = 2100
  Bases = {0, 1, 2, 3, 10, 16, 17, 36, 255, 256, 258}
  MaxDecimals = 2
  MaxText = 7
  Chars = {2, 5, 6, 10, 11}
  Name = {"x", "y"}
  MaxSize = 4
  MaxBuffer = 2
  Listing <- MCListing
  Item = {1, 2, 3}
  Method = {"POST"}
  Header = {"h"}
  Alarm1Args <- MCAlarm1
  Alarm2Args <- MCAlarm2
  Moments <- MCMoments
  MaxFailures = 1
  Thread = {1, 2}
  Pins = {12, 13, 40}
  PinModes = {1, 16}
  Duties = {0, 100}
  SpiBytes = {7}
  BITS = 2
  MaxPinCalls = 2
  BYTE = 1
  Stalls = {1, 2, 3, 6, 12}
  MaxStalls = 1
  MaxReadings = 1
  Revisions <- MCRevisions
  LcdWidth = 4
  LcdLines = 2
  ROWS = 2
  BYTES = 16
  Glyphs <- MCGlyphs
  Fills <- MCFills
  MaxLcdCalls = 4
  Words = 8
  SHORT = 6
  MILLI = 2
  Delays = {0, 1, 3, 5, 7}
  Lapses = {1, 3}
  MaxNow = 18
INVARIANTS
  AvailableNeverNegative
  
  
  
  AvailableIsReadable
  
  PinsAsAsked
  DevicesAsTold
  TimeIsTold

  
CHECK_DEADLOCK FALSE
