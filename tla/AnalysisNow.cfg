CONSTANTS
  Service = {s1, s2, s3}
  None = none
  MaxWeight = 2
  Graphs <- MCGraphs
  MaxEdges = 3
  U = 100
  MaxIter = 50
  Windows <- MCWindows
  P = 20000
  MaxRounds = 20
  MaxDepth = 2
  MaxHops = 4
  Parts = 2
  Requests <- MCRequests
SPECIFICATION Spec
SYMMETRY Interchangeable
INVARIANT NowMeansSaturated
