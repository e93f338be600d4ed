SPECIFICATION FairSpec
CONSTANTS
  EventTimes <- BurstTimes
  FeedIds = {101}
  OrderSize = 1
  MaxFills = 1
  TimerDelays = {1}
  MaxActions = 1
  Interval = 1
  MaxCancels = 1
  CancelInterval = 1
  HaltOnViolation = FALSE
  MaxCalls = 1
  Capacity = 2
  OrdersIn = {"on_fill"}
  ImmediateIn = {}
  BadEvents = {}
PROPERTY RunReturns
CHECK_DEADLOCK FALSE
