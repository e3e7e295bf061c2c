SPECIFICATION Spec
CONSTANTS
  g = g  a1 = a1  a2 = a2  b1 = b1  b2 = b2  t1 = t1  t2 = t2  i1 = i1  i2 = i2
  NullHash = NullHash
  Block = {g, a1, a2, b1, b2}
  Tx = {t1, t2}
  Prev <- MCPrev
  Height <- MCHeight
  TxsOf <- MCTxsOf
  Files <- MCFiles
  Chains <- MCChains
  Indexers = {i1}
  MaxCrashes = 1
  MaxStops = 0
  MaxDestroyFailures = 0
INVARIANT RestartLoads
