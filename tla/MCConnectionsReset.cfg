SPECIFICATION FairSpec
CONSTANTS
  Conn = {"c1"}
  PrefixOf <- MCPrefixOf
  Configs <- MCConfigs
  BufferSize = 1
  MaxRequests = 1
  MaxChanges = 1
  MaxStalls = 1
  MaxResets = 1
  MaxPanics = 0
PROPERTIES ResetIsCleaned
