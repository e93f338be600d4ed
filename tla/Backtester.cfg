SPECIFICATION BothSpec
CONSTANTS
  EventTimes <- MCEventTimes
  FeedIds = {1, 101}
  OrderSize = 2
  MaxFills = 2
  TimerDelays = {0, 1}
  MaxActions = 2
  Interval = 2
  MaxCancels = 1
  CancelInterval = 1
  HaltOnViolation = TRUE
  MaxCalls = 4
INVARIANTS
  ActiveOrdersTrackBook
  OrdersAccounted
  PegsNeverCross
PROPERTIES
  TimersFireWhenDue
  StoppedStaysSilent
  VisibleFirst
CHECK_DEADLOCK FALSE
