CONSTANTS
  a = a
  b = b
  c = c
  Service = {a, b, c}
  MaxNodes = 2
  StaleAge = 1
  Full = 3
  Visible = 2
  MaxTime = 3
  Call <- MCCall
  ChanCap = 1
  FlushWeight = 3
  Fresh = 0
  Known = 1
  x = x
  y = y
  front = front
  Name = {front}
  SpanId = {x, y}
  Empty = empty
  Payload <- MCPayload
SPECIFICATION MCSpec
SYMMETRY Interchangeable
INVARIANTS NodesBounded VisibleIsRecent EdgesHaveSource SpansKept
PROPERTIES PrunedOnlyIfUnreported EdgeLeavesOnlyIfDead
