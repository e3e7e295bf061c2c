SPECIFICATION FetchFairSpec
CONSTANTS
  t1 = t1  t2 = t2  t3 = t3  k1 = k1  k2 = k2  k3 = k3
  Txid = {t1, t2, t3}
  Key = {k1, k2, k3}
  RowsOf <- MCRowsOf
  Rate <- MCRate
  Vsize <- MCVsize
  BinWidth = 2
  MaxChanges = 2
  MaxFailures = 1
  Peers = {"p1"}
  SizeOf <- MCSizeOf
  bytes_capacity = 5
  entry_overhead = 1
  MaxEntrySize = 6
  MaxQueries = 1
INVARIANTS IndexExact UpdateExact HistogramExact CacheUsageExact
PROPERTY Mirrors
