CONSTANTS
  Service = {s1, s2}
  NumShards = 2
  ShardOf <- MCShardOf
  MaxServices = 1
  StaleAge = 0
  Cutoff = 0
  BufCap = 1
  Ingester = {i1, i2}
  Pruner = {p1}
  Reader = {}
  Buf = {b1, b2, b3, b4}
  None = none
  Lag = 1
  MaxTime = 2
SPECIFICATION FairHistorySpec
PROPERTIES IngestReturns StaleGoes
