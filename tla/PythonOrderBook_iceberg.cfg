SPECIFICATION BothSpec
CONSTANTS
  EventTimes <- MCEventTimes
  FeedIds = {1}
  OrderSize = 1
  MaxFills = 1
  TimerDelays = {1}
  MaxActions = 1
  Interval = 1
  MaxCancels = 1
  CancelInterval = 1
  HaltOnViolation = TRUE
  MaxCalls = 1
PROPERTY NoBetterPriceLeft
CHECK_DEADLOCK FALSE
