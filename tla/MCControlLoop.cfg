SPECIFICATION Spec
CONSTANTS
  MaxCapacity = 2
  MaxObserved = 3
  MaxRequired = 4
  CapacityRamp = 1
  RampUp = 1
  RampEmergency = 2
  RampDown = 1
  RampGain = 2
  SLA = 5
  EmergencyBacklog = 5
  DegradedBacklog = 2
  BarrierDepth = 2
  OverrideWindow = 3
  QueueMax = 2
  RolloutTimeout = 2
  MaxRetries = 1
  MaxBacklog = 6
  Observed = {0, 2, 3, 6}
  Arrivals = {0, 2}
  ServiceRate = 1
  Drifts <- MCDrifts
  Confidences = {10, 100}
  Loads = {100}
INVARIANTS OverrideNeedsSafeTick KnobsBounded ModesAgree
PROPERTIES RampBounded Approaches
