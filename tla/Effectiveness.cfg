CONSTANTS
  Size = 9
  Entries <- MCEntries
  NoEntry = none
  Top = 2
  Unit = 400
  Fine = 10
  MaxTicks = 13
SPECIFICATION MCSpec
INVARIANT SuccessAtLeastNeutral
