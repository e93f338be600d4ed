SPECIFICATION AllSpec
CONSTANTS
  Parts = {"queue", "session", "hawkes", "flow", "adaptive", "bridge", "calibration", "regime",
           "stream", "metrics", "mle", "impact", "pnl", "neural", "windows", "bars"}
  NoValue = NoValue
  Latencies = {1, 3}
  PnlDeltas <- MCPnlDeltas
  Volatilities = {0, 2}
  EngineWindow = 2
  Scale = 2
  Base = 1
  Lowest = 0
  Highest = 2
  MaxExecutions = 4
  Callers = {"a", "b"}
  MaxCalls = 2
  BridgeEvents = 1
  States <- MCStates
  CalibrationCap = 2
  OrderSize = 2
  Slippages <- MCSlippages
  Noise <- MCSlippages
  BasePrice = 3
  CalibrationSteps = 2
  Regimes = {"low", "high"}
  FirstRegime = "low"
  OrderQty <- MCOrderQty
  RiskCap <- MCRiskCap
  Reach = 3
  ConfirmationSteps = 1
  Window = 2
  StepLatencies = {1, 2}
  Steps = 4
  Session = 4
  Waits = {1, 2}
  Delays = {0, 1, 3}
  EventLimits = {0, 2}
  SeedDepth = 2
  BaseQuantity = 1
  SessionOrderSize = 2
  Aggressiveness = 1
INVARIANTS
  SessionIsAccounted
  ThinningIsExact
  ControlsAreJustified
  CallsAreSound
  ReportIsTheTrades
  StepsFollowRegime
  FlowIsValid
  SummaryMatchesFile
  CalibrationIsJustified
  FitIsOfTheTrades
  BreakdownAccounts
  ExperimentAccounts
  FitsAreJustified
  BarsMatchDump
PROPERTY ImplementsLegacyQueue
CHECK_DEADLOCK FALSE
