SPECIFICATION FairSpec
CONSTANTS
  Workers = {"w1", "w2"}
  Ticks = 2
  Wrap = 16
  OrderSize = 1
INVARIANT IdleIsIdle
PROPERTY RunCompletes
CHECK_DEADLOCK FALSE
