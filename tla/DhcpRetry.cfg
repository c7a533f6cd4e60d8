SPECIFICATION NetSpec
CONSTANTS
  Scenes = {"dhcp"}
  SIZE = 8
  WIDTH = 16
  BYTE = 4
  HEAD = 2
  Lengths = {1, 3}
  MaxArrivals = 5
  MaxSent = 4
  MAX_SOCK_NUM = 3
  MaxTraffic = 2
  Servers = {1, 2}
  Terms <- MCTerms
  DEFAULT_LEASE = 9
  MaxGap = 2
  MaxRounds <- MCRounds
  Hosts = {"name", "other name", "10.0.0.1"}
  Numeric = {"10.0.0.1"}
  MaxLookups = 2
PROPERTIES
  RetriesAfterError
CHECK_DEADLOCK FALSE
