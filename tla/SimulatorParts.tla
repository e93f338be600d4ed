--------------------------- MODULE SimulatorParts ---------------------------
(***************************************************************************)
(* Parts of the simulator that are programs of their own, for any values   *)
(* of their constants: in a behaviour one part runs and the others keep    *)
(* their initial state.                                                    *)
(*                                                                         *)
(*   adaptive     AdaptiveEngine, the execution engine that tunes itself   *)
(*   bridge       HawkesBridge, Python's calls of the Hawkes library       *)
(*   calibration  StrategyCalibration, the market of the grid search       *)
(*   regime       AdaptiveStrategy, the strategy that follows volatility   *)
(*   session      SimulatorCore, one call of run()                         *)
(***************************************************************************)
EXTENDS FiniteSets, Series

CONSTANTS
  Parts,                                    (* the parts to run             *)
  Latencies, PnlDeltas, Volatilities, EngineWindow, Scale, Base, Lowest, Highest,
  MaxExecutions,                            (* of AdaptiveEngine            *)
  Callers, MaxCalls, BridgeEvents,          (* of HawkesBridge              *)
  States, CalibrationCap, OrderSize, Slippages, Noise, BasePrice,
  CalibrationSteps,                         (* of StrategyCalibration       *)
  Regimes, FirstRegime, OrderQty, RiskCap, Reach, ConfirmationSteps, Window,
  StepLatencies, Steps,                     (* of AdaptiveStrategy          *)
  Session, Waits, Delays, EventLimits, SeedDepth, BaseQuantity,
  SessionOrderSize, Aggressiveness          (* of SimulatorCore             *)

(* Windows are not empty; scales are positive; the controls have a range
   around their base, which is not negative; volatilities are not negative.
   Time does not run backwards, and the book is seeded with something.       *)
ASSUME EngineAssumption ==
  /\ EngineWindow \in Nat \ {0} /\ Scale \in Nat \ {0}
  /\ Base \in Nat /\ Lowest \in Int /\ Highest \in Int
  /\ Lowest <= Base /\ Base <= Highest
  /\ Latencies \subseteq Int /\ PnlDeltas \subseteq Int /\ Volatilities \subseteq Nat

ASSUME BridgeAssumption == MaxCalls \in Nat /\ BridgeEvents \in Nat

ASSUME CalibrationAssumption ==
  /\ States \in Seq(STRING) /\ CalibrationCap \in Nat /\ OrderSize \in Nat
  /\ Slippages \subseteq Int /\ Noise \subseteq Int /\ BasePrice \in Int
  /\ CalibrationSteps \in Nat

ASSUME RegimeAssumption ==
  /\ FirstRegime \in Regimes
  /\ OrderQty \in [Regimes -> Nat] /\ RiskCap \in [Regimes -> Nat]
  /\ Reach \in Nat /\ ConfirmationSteps \in Nat /\ Window \in Nat \ {0}
  /\ StepLatencies \subseteq Int /\ Steps \in Nat

ASSUME SessionAssumption ==
  /\ Session \in Nat /\ Waits \subseteq Nat /\ Delays \subseteq Nat
  /\ EventLimits \subseteq Nat
  /\ SeedDepth \in Nat \ {0} /\ BaseQuantity \in Nat \ {0}
  /\ SessionOrderSize \in Int /\ Aggressiveness \in Int

VARIABLES
  part,
  latency, pnl, volatility, aggressiveness, risk, inputs,
  env, built, lib, bridgeError, warned, registry, lastError, bridgeHeap,
  bridgePc, call, marks, count, outcome, calls, paths,
  step, price, netFlow, turn, position, cash, attempted, tradeCount,
  turnover, equityHistory, returns, prevEquity, positionHistory, trades, truncated,
  idx, strategyPosition, currentRegime, pendingRegime, pendingSince,
  adaptationLags, latencyStats, attempts, fills, filled, records,
  simPc, maxEvents, clock, limit, queue, book, arrivals, executions, totals,
  summary, generated

Adaptive == INSTANCE AdaptiveEngine WITH Window <- EngineWindow

Bridge == INSTANCE HawkesBridge WITH
  MaxEvents <- BridgeEvents, heap <- bridgeHeap, pc <- bridgePc

Calibration == INSTANCE StrategyCalibration WITH
  RiskCap <- CalibrationCap, Steps <- CalibrationSteps

Regime == INSTANCE AdaptiveStrategy WITH
  Latencies <- StepLatencies,
  position <- strategyPosition, trades <- fills, turnover <- filled

Sim == INSTANCE SimulatorCore WITH OrderSize <- SessionOrderSize, pc <- simPc

adaptiveVars == <<latency, pnl, volatility, aggressiveness, risk, inputs>>
bridgeVars == <<env, built, lib, bridgeError, warned, registry, lastError, bridgeHeap,
  bridgePc, call, marks, count, outcome, calls, paths>>
calibrationVars == <<step, price, netFlow, turn, position, cash, attempted, tradeCount,
  turnover, equityHistory, returns, prevEquity, positionHistory, trades, truncated>>
regimeVars == <<idx, strategyPosition, currentRegime, pendingRegime, pendingSince,
  adaptationLags, latencyStats, attempts, fills, filled, records>>
simVars == <<simPc, maxEvents, clock, limit, queue, book, arrivals, executions,
             totals, summary, generated>>
vars == <<part, adaptiveVars, bridgeVars, calibrationVars, regimeVars, simVars>>

Init ==
  /\ part \in Parts
  /\ Adaptive!Init /\ Bridge!Init /\ Calibration!Init /\ Regime!Init /\ Sim!Init
  /\ part # "bridge" => env = "unset" /\ ~built
  /\ part # "session" => maxEvents = 0

Next ==
  \/ /\ part = "adaptive" /\ Adaptive!Next
     /\ UNCHANGED <<part, bridgeVars, calibrationVars, regimeVars, simVars>>
  \/ /\ part = "bridge" /\ Bridge!Next
     /\ UNCHANGED <<part, adaptiveVars, calibrationVars, regimeVars, simVars>>
  \/ /\ part = "calibration" /\ Calibration!Next
     /\ UNCHANGED <<part, adaptiveVars, bridgeVars, regimeVars, simVars>>
  \/ /\ part = "regime" /\ Regime!Next
     /\ UNCHANGED <<part, adaptiveVars, bridgeVars, calibrationVars, simVars>>
  \/ /\ part = "session" /\ Sim!Next
     /\ UNCHANGED <<part, adaptiveVars, bridgeVars, calibrationVars, regimeVars>>

Spec == Init /\ [][Next]_vars

-----------------------------------------------------------------------------
(* The properties are those of the parts; each is explained in its module.   *)

(* The controls of adaptive_engine.cpp are justified by the latest
   executions.                                                             *)
ControlsAreJustified == Adaptive!ControlsAreJustified

(* Concurrent calls of simulate.py free, keep and report what they should. *)
CallsAreSound == Bridge!CallsAreSound

(* run_week7_strategy_calibration.py reports what a strategy traded.       *)
ReportIsTheTrades == Calibration!ReportIsTheTrades

(* The steps of run_week7_adaptive_simulation.py follow the confirmed regime. *)
StepsFollowRegime == Regime!StepsFollowRegime

(* A session of simulator_core.cpp reports what happened in it.            *)
SessionIsAccounted == Sim!SessionIsAccounted

=============================================================================
