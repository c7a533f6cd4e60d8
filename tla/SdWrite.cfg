SPECIFICATION ClassesSpec
CONSTANTS
  Scenes = {"sd"}
  CLUSTERS = 5
  PER = 3
  UNITS = 2
  SLOTS = 3
  ROOT = 2
  FilePaths <- MCFilePaths
  DirPaths <- MCDirPaths
  Modes <- MCModes
  Runs <- MCRuns
  Counts <- MCCounts
  Volumes = {"tree"}
  Budgets = {}
  MaxCalls = 5
  StrayPaths = FALSE
  Blocks = {0, 1}
  SECTOR = 3
  Values = {20}
  Types = {"SD1", "SDHC"}
  MaxFault = 9
  MaxSdCalls = 0
  Careless = FALSE
  Texts <- MCTexts
  Pairs <- MCPairs
  LIMIT = 4
  Chars = {97, 98, 32, 45, 46, 50}
  Longest = 3
  Targets <- MCTargets
  Terminators <- MCTerminators
  Delimiters = {300, 97}
  Ignores = {1, 98}
PROPERTIES
  WriteFailsForAReason
CHECK_DEADLOCK FALSE
