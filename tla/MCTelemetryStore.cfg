CONSTANTS
  Service = {s1, s2}
  NumShards = 2
  ShardOf <- MCShardOf
  MaxServices = 1
  StaleAge = 1
  Cutoff = 0
  BufCap = 1
  Ingester = {i1, i2}
  Pruner = {p1}
  Reader = {r1}
  Buf = {b1, b2, b3, b4, b5}
  None = none
  Lag = 1
  MaxTime = 3
SPECIFICATION HistorySpec
INVARIANTS AdmissionBound LostOnlyIfOld NothingMissed
PROPERTIES PrunedOnlyIfSilent ImplementsRegistry
