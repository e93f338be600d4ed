SPECIFICATION FairSpec
CONSTANTS
  Workers = {"w1"}
  Ticks = 2
  Wrap = 16
  OrderSize = 1
INVARIANT LotsAreThePosition
CHECK_DEADLOCK FALSE
