CONSTANTS
  Name = {front, back}
  SpanId = {x, y}
  Empty = empty
  TextKeys = 5
  Payload <- MCPayload
SPECIFICATION ParseSpec
INVARIANT CallsFound
CHECK_DEADLOCK FALSE
