SPECIFICATION DeskSpec
CONSTANTS
  MaxActions = 3
  Interval = 2
  Steps = {0, 1, 2}
  MaxTime = 5
  MaxCancels = 2
  CancelInterval = 3
  HaltOnRefusal = TRUE
  Spread = 2
  QuoteSize = 2
  Skew = 1
  UpdateInterval = 1
  Snapshots <- MCSnapshots
  FeedFills <- MCFeedFills
  MaxFills = 3
  MaxLong = 3
  MaxShort <- MCMaxShort
  MaxNotional = 35
  LossLimits <- MCLossLimits
  HaltOnBreach = TRUE
INVARIANTS
  NeverTooMany
  RefusedOnlyAtLimit
PROPERTIES
  ProfitBalances
  StoppedForGood
CHECK_DEADLOCK FALSE
