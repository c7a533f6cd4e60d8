SPECIFICATION ThreadsSpec
CONSTANTS
  NREG = 2
  MaxSignals = 2
  MaxRuns = 2
  MaxWords = 2
  MaxOutput = 2
  PIPE = 1
  WORD = 2
  Pin <- MCPin
  Modes <- MCModes
  MaxToggles = 2
  MaxCalls = 3
  MaxCheckers = 2
  Bytes = {1, 2}
  BUFFER_LENGTH = 2
  FIFO_LEN = 1
  MaxWireCalls = 2
CHECK_DEADLOCK FALSE
INVARIANTS
  RegistersSafe
  TerminalSafe
  CommandIntact
  NoHiddenChild
  
  PassStartsHandlers
  TransfersAreWhole
PROPERTIES
  RequestHonoured
  ResultReported
  
  TransferEnds
