SPECIFICATION FairSpec
CONSTANTS
  EventTimes <- BurstTimes
  FeedIds = {1, 101}
  OrderSize = 2
  MaxFills = 2
  TimerDelays = {0, 1}
  MaxActions = 1
  Interval = 1
  MaxCancels = 1
  CancelInterval = 1
  HaltOnViolation = FALSE
  MaxCalls = 4
  Capacity = 1
  OrdersIn = {"on_market_data"}
  ImmediateIn = {"on_market_data", "on_stop"}
  BadEvents = {2, 3}
PROPERTIES
  ActsAsSerial
  RunReturns
CHECK_DEADLOCK FALSE
