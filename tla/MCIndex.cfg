CONSTANTS
  Block <- MCBlock
  NullHash = "null"
  Prev <- MCPrev
  Height <- MCHeight
  Tx = {"t1", "t2"}
  TxsOf <- MCTxsOf
  Genesis = "g"
  MarkEvery = 2
  ChunkSize = 2
  MaxReorg = 3
  MaxTipChanges = 3
  MaxStops = 2
SPECIFICATION FairSpec
INVARIANTS
  Recoverable
  HeadersExact
  UninterruptedHeights
  IInv
PROPERTIES CatchesUp ServesChain
