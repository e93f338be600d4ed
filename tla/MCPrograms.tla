----------------------------- MODULE MCPrograms -----------------------------
(* Every program and library of the repository that runs on its own, checked
   side by side: in a behaviour one part runs and the others keep their
   initial state.  The parts are those of SimulatorParts and

     queue    LatencyQueue, the ring that delays events
     hawkes   HawkesCore, the thinning sampler of several dimensions
     flow     OrderFlow, the event streams of the order flow library
     stream   SyntheticFlow, the synthetic and replayed ITCH streams with the
              validator that reads them
     metrics  MetricsLog, the log of a backtest and its summary
     mle      HawkesMLE, the calibration of Hawkes processes
     impact   ImpactCalibration, the calibration of the impact model
     pnl      PnlAnalysis, the breakdown of profit and loss
     neural   NeuralExperiment, the training of the neural Hawkes model
     windows  WindowedFits, the fits of the empirical study
     bars     TradeBars, the bars of a trade dump                          *)
EXTENDS SimulatorParts

CONSTANT NoValue   (* Python's None *)

MCStates == <<"mean_reversion", "trend">>
MCOrderQty == [low |-> 2, high |-> 1]
MCRiskCap == [low |-> 2, high |-> 1]
MCPnlDeltas == {-1, 0, 2}
MCSlippages == {-1, 1}

VARIABLES
  buffer, mask, head, tail, heap, pushed, out,
  hawkesPc, mu, hawkesTime, exc, lambda, candExc, candLambda, candTime,
  hawkesStar, events,
  kind, flowPc, time, excitation, candidate, star, stream,
  source, v, active, burst, burstIds, settled, flowClock, nextId, history,
  logRecords, orders, logFills, latencies, start, end, logSummary,
  data, flat, stationary, mlePc, attempt, fit, converged, kept,
  impactPc, maxSamples, impactTrades, malformed, tradeIndex, window, running, depths, seen,
  samples, line,
  pnlPc, file, skipped, perStrategy, overall, breakdown,
  neuralPc, specs, numTypes, windowSize, stride, index, train, val, test,
  trainHistory, valHistory, testMetrics, rescaling, artifacts, output,
  fitStep, rows, cleanTrades, windowId, windows, seed, tried, bestOverall,
  bestStable, expFits, lastX, valueAt, asked, evals, prevPow, powFits,
  barRows, totalRows, skippedRows, written, bars, currentBar, closed

Queue == INSTANCE LatencyQueue WITH
  Times <- {1, 2}, MaxPushes <- 6, InitialCapacity <- 3

Hawkes == INSTANCE HawkesCore WITH
  Dims <- {0, 1},
  BaseRates <- {[i \in {0, 1} |-> IF i = 0 THEN 16 ELSE 0], [i \in {0, 1} |-> 0]},
  Alpha <- [i \in {0, 1} |-> [j \in {0, 1} |-> IF i = j THEN 64 ELSE 128]],
  Marks <- {1, 2}, Waits <- {1, 2}, Horizon <- 5,
  pc <- hawkesPc, time <- hawkesTime, star <- hawkesStar

Flow == INSTANCE OrderFlow WITH
  Kinds <- {"exponential", "power law", "poisson"}, BaseRate <- 1, Jump <- 64,
  PowerLaw <- [lag \in 0..7 |-> IF lag = 0 THEN 16 ELSE IF lag = 1 THEN 4 ELSE 1],
  Marks <- {1, 2}, Waits <- {1, 2}, Horizon <- 5,
  pc <- flowPc

Stream == INSTANCE SyntheticFlow WITH
  Sources <- {"poisson", "uniform", "log"}, MinSize <- 4, MaxSize <- 5,
  NoId <- 0, LogIds <- {0, 1}, LogSizes <- {2, 3}, Steps <- {-1, 1},
  MessageCount <- 4, clock <- flowClock

Metrics == INSTANCE MetricsLog WITH
  Stamps <- {1, 2}, Volumes <- {2}, Latencies <- {0, 5}, MaxRecords <- 4,
  records <- logRecords, fills <- logFills, summary <- logSummary

MLE == INSTANCE HawkesMLE WITH
  Points <- {1, 2, 3}, MaxIterations <- 1, MaxLineSearch <- 2,
  Marks <- {4, 8}, Span <- 2, MaxEvents <- 3, pc <- mlePc

Impact == INSTANCE ImpactCalibration WITH
  Gaps <- {1}, Prices <- {1, 2}, Volumes <- {1, 2, 3}, Slippages <- {0, 2},
  Window <- 2, Lookback <- 1, MinQuantity <- 2, SampleLimits <- {0, 2},
  MaxTrades <- 4, pc <- impactPc, trades <- impactTrades,
  i <- tradeIndex

Pnl == INSTANCE PnlAnalysis WITH
  Strategies <- {1, 2}, Amounts <- {-1, 2}, MaxRows <- 2, pc <- pnlPc

Neural == INSTANCE NeuralExperiment WITH
  Specs <- {[kind |-> "dataset", length |-> 7, types |-> 3, sorted |-> TRUE],
            [kind |-> "synthetic", length |-> 4, types |-> 2, sorted |-> TRUE],
            [kind |-> "synthetic", length |-> 3, types |-> 4, sorted |-> TRUE],
            [kind |-> "dataset", length |-> 5, types |-> 3, sorted |-> FALSE],
            [kind |-> "dataset", length |-> 1, types |-> 1, sorted |-> TRUE]},
  MaxSpecs <- 2, Shapes <- {<<4, 2>>, <<3, 3>>}, ConfigTypes <- 2,
  TrainPct <- 40, ValPct <- 20, BatchSize <- 2, Epochs <- 2, pc <- neuralPc

Windowed == INSTANCE WindowedFits WITH
  Rows <- {[id |-> t, ts |-> t, big |-> t # 9] : t \in {1, 2, 3, 4, 9}},
  MaxRows <- 4, WindowSeconds <- 4, Step <- 2, Truncation <- 2, MinExp <- 3,
  MinPow <- 2, LogLiks <- {1, 2}, Thetas <- {1, 2, 3}, Near <- 1, MaxEvals <- 3,
  MaxWindows <- 3, step <- fitStep, trades <- cleanTrades

Bars == INSTANCE TradeBars WITH
  Stamps <- {[unit |-> "s", value |-> 1], [unit |-> "ms", value |-> 3],
             [unit |-> "us", value |-> 9], [unit |-> "ns", value |-> 20]},
  Prices <- {1, 3}, Quantities <- {0, 2}, MsPerSecond <- 2, BarSeconds <- 1,
  MaxRows <- 3, rows <- barRows

queueVars == <<buffer, mask, head, tail, heap, pushed, out>>
hawkesVars == <<hawkesPc, mu, hawkesTime, exc, lambda, candExc, candLambda,
                candTime, hawkesStar, events>>
flowVars == <<kind, flowPc, time, excitation, candidate, star, stream>>
streamVars == <<source, v, active, burst, burstIds, settled, flowClock, nextId,
                history>>
metricsVars == <<logRecords, orders, logFills, latencies, start, end, logSummary>>
mleVars == <<data, flat, stationary, mlePc, attempt, fit, converged, kept>>
impactVars == <<impactPc, maxSamples, impactTrades, malformed, tradeIndex, window, running,
                depths, seen, samples, line>>
pnlVars == <<pnlPc, file, skipped, perStrategy, overall, breakdown>>
neuralVars == <<neuralPc, specs, numTypes, windowSize, stride, index, train, val,
                test, trainHistory, valHistory, testMetrics, rescaling, artifacts,
                output>>
windowedVars == <<fitStep, rows, cleanTrades, windowId, windows, seed, tried,
                bestOverall, bestStable, expFits, lastX, valueAt, asked, evals,
                prevPow, powFits>>
barVars == <<barRows, totalRows, skippedRows, written, bars, currentBar, closed>>
partVars == <<queueVars, hawkesVars, flowVars, streamVars, metricsVars,
             mleVars, impactVars, pnlVars, neuralVars, windowedVars,
             barVars>>
allVars == <<vars, partVars>>

AllInit ==
  /\ Init
  /\ Queue!Init /\ Hawkes!Init /\ Flow!Init /\ Stream!Init /\ Metrics!Init
  /\ MLE!Init /\ Impact!Init /\ Pnl!Init /\ Neural!Init /\ Windowed!Init
  /\ Bars!Init
  /\ part # "hawkes" => mu = [d \in {0, 1} |-> 0]
  /\ part # "flow" => kind = "poisson"
  /\ part # "stream" => source = "log"
  /\ part # "impact" => maxSamples = 0
  /\ part # "neural" => windowSize = 3

AllNext ==
  \/ Next /\ UNCHANGED partVars
  \/ /\ part = "queue" /\ Queue!Next
     /\ UNCHANGED <<vars, hawkesVars, flowVars, streamVars, metricsVars, mleVars,
                 impactVars, pnlVars, neuralVars, windowedVars, barVars>>
  \/ /\ part = "hawkes" /\ Hawkes!Next
     /\ UNCHANGED <<vars, queueVars, flowVars, streamVars, metricsVars, mleVars,
                 impactVars, pnlVars, neuralVars, windowedVars, barVars>>
  \/ /\ part = "flow" /\ Flow!Next
     /\ UNCHANGED <<vars, queueVars, hawkesVars, streamVars, metricsVars,
                 mleVars, impactVars, pnlVars, neuralVars, windowedVars,
                 barVars>>
  \/ /\ part = "stream" /\ Stream!Next
     /\ UNCHANGED <<vars, queueVars, hawkesVars, flowVars, metricsVars, mleVars,
                 impactVars, pnlVars, neuralVars, windowedVars, barVars>>
  \/ /\ part = "metrics" /\ Metrics!Next
     /\ UNCHANGED <<vars, queueVars, hawkesVars, flowVars, streamVars, mleVars,
                 impactVars, pnlVars, neuralVars, windowedVars, barVars>>
  \/ /\ part = "mle" /\ MLE!Next
     /\ UNCHANGED <<vars, queueVars, hawkesVars, flowVars, streamVars,
                 metricsVars, impactVars, pnlVars, neuralVars, windowedVars,
                 barVars>>
  \/ /\ part = "impact" /\ Impact!Next
     /\ UNCHANGED <<vars, queueVars, hawkesVars, flowVars, streamVars,
                 metricsVars, mleVars, pnlVars, neuralVars, windowedVars,
                 barVars>>
  \/ /\ part = "pnl" /\ Pnl!Next
     /\ UNCHANGED <<vars, queueVars, hawkesVars, flowVars, streamVars,
                 metricsVars, mleVars, impactVars, neuralVars, windowedVars,
                 barVars>>
  \/ /\ part = "neural" /\ Neural!Next
     /\ UNCHANGED <<vars, queueVars, hawkesVars, flowVars, streamVars,
                 metricsVars, mleVars, impactVars, pnlVars, windowedVars,
                 barVars>>
  \/ /\ part = "windows" /\ Windowed!Next
     /\ UNCHANGED <<vars, queueVars, hawkesVars, flowVars, streamVars,
                 metricsVars, mleVars, impactVars, pnlVars, neuralVars, barVars>>
  \/ /\ part = "bars" /\ Bars!Next
     /\ UNCHANGED <<vars, queueVars, hawkesVars, flowVars, streamVars,
                 metricsVars, mleVars, impactVars, pnlVars, neuralVars,
                 windowedVars>>

AllSpec == AllInit /\ [][AllNext]_allVars

-----------------------------------------------------------------------------
(* The properties are those of the parts; each is explained in its module.   *)

(* The ring of latency_model.hpp hands out what the priority queue it
   replaces would.                                                         *)
ImplementsLegacyQueue == Queue!ImplementsLegacyQueue

(* The samplers of hawkes_core.cpp and OrderFlow.cpp thin exactly: their
   recursions are the sums over the history, and their bounds dominate.    *)
ThinningIsExact == Hawkes!ThinningIsExact /\ Flow!ThinningIsExact

(* What synthetic.py generates is valid; its validator misses no anomaly.  *)
FlowIsValid == Stream!FlowIsValid

(* The summary logging.py writes agrees with the records of the file.      *)
SummaryMatchesFile == Metrics!SummaryMatchesFile

(* What hawkes_mle_cli.cpp reports is justified by its attempts.           *)
CalibrationIsJustified == MLE!CalibrationIsJustified

(* impact_calibration.cpp fits the trades of the file.                     *)
FitIsOfTheTrades == Impact!FitIsOfTheTrades

(* The breakdown of pnl_analysis.cpp accounts for every row.               *)
BreakdownAccounts == Pnl!BreakdownAccounts

(* neural_hawkes.py accounts for its data, from the windows to the files.  *)
ExperimentAccounts == Neural!ExperimentAccounts

(* The fits of run_week5_empirical.py are justified.                       *)
FitsAreJustified == Windowed!FitsAreJustified

(* The bars of preprocess_binance.py are those of the dump.                *)
BarsMatchDump == Bars!BarsMatchDump

=============================================================================
