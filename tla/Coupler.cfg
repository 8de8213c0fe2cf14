CONSTANTS
  Service = {s1}
  Calls = {}
  Rates = {5, 10, 25}
  LatencyMs = 50
  Conns = 1
  MaxQueue = 60
SPECIFICATION Spec
PROPERTY BacklogDrains
