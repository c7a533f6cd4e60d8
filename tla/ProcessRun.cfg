SPECIFICATION ProcessFairSpec
CONSTANTS
  MaxRuns = 1
  MaxWords = 2
  MaxOutput = 0
  PIPE = 1
CHECK_DEADLOCK FALSE
PROPERTIES
  RunComesBack
