SPECIFICATION Spec
CONSTANTS
  g = g a1 = a1 a2 = a2 b1 = b1 b2 = b2
  t1 = t1 t2 = t2 t3 = t3 t4 = t4 s1 = s1 s2 = s2
  Block = {a1, a2, b1, b2}
  Genesis = g
  Prev <- MCPrev
  Txids <- MCTxids
  Indexed <- MCIndexed
  StartRows <- MCStartRows
  Pooled = {}
  Tx = {t1, t2, t3, t4}
  ScriptHash = {s1, s2}
  Funds <- MCFunds
  Spends <- MCSpends
  Asked <- MCAsked
  MaxChanges = 2
INVARIANT ProofHeadersComplete
