CONSTANTS
  Lists = {1, 3, 7}
  Budget = 10
  HTTPTimeout = 2
  DialTimeout = 1
  Service = {s1, s2}
  Queries = 5
  RateQ = {1, 2}
  LatQ = {3, 4}
SPECIFICATION FairSpec
INVARIANTS DiscoveryBounded MissedOnlyIfLate FirstAnswerStands
PROPERTY SignalEnds
CHECK_DEADLOCK FALSE
