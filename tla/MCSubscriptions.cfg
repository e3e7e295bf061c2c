SPECIFICATION FairSpec
CONSTANTS
  g = g  a1 = a1  b1 = b1  b2 = b2  t1 = t1  t2 = t2  s1 = s1  s2 = s2  c1 = c1
  Genesis = g
  Indexed <- MCIndexed
  StartRows <- MCStartRows
  Pooled = {t2}
  Block = {a1, b1, b2}
  Tx = {t1, t2}
  ScriptHash = {s1, s2}
  Conn = {c1}
  Prev <- MCPrev
  Txids <- MCTxids
  Funds <- MCFunds
  Spends <- MCSpends
  Requests <- MCRequests
  BufferSize = 1
  MaxSubscriptions = 1
  MaxAliases = 1
  MaxChanges = 2
  MaxRequests = 2
  MaxFaults = 1
  MaxEvents = 3
INVARIANTS StaleIsPending StaleTipIsPending SubscriptionsCounted
PROPERTY ClientsLearn
