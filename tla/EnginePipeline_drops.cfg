SPECIFICATION Spec
CONSTANTS
  Capacity = 2
  MaxEvents = 3
  SessionLength = 3
  Gaps = {0, 2}
  Delays = {0, 2}
  OrderSize = 2
  SeedSize = 3
INVARIANT NoDrops
CHECK_DEADLOCK FALSE
