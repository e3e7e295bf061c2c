SPECIFICATION FairSpec
CONSTANTS
  Conn = {"c1", "c2"}
  PrefixOf <- MCPrefixOf
  Configs <- MCConfigs
  BufferSize = 1
  MaxRequests = 1
  MaxChanges = 1
  MaxStalls = 1
  MaxResets = 1
  MaxPanics = 1
INVARIANTS SlotsExact LiveIsListed StoppedMeansDone
PROPERTIES ShutdownEnds ClosedIsCleaned
