CONSTANTS
  Size = 9
  Entries <- MCEntries
  NoEntry = none
  Top = 2
  Unit = 400
  Fine = 10
  MaxTicks = 13
  Point = {p1, p2, p3}
  NoPoint = zero
  Capacity = 3
  MaxAsk = 4
SPECIFICATION RingsSpec
INVARIANTS ReadsNewest HintExpires StartWithinCaps DetectorsAgree UsedSlotsWritten
PROPERTY RefinesRecent
