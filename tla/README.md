# Verification of the High-Frequency Trading Simulator

This directory models the simulator in TLA+: its order books, execution
pipelines and backtesters, the programs that generate its event streams, and the
tools that calibrate and analyse. TLC checks the models on small instances and
TLAPS proves theorems about some of them. Paths such as `src/OrderBook.cpp` are
paths of the repository.

## 1. Inventory

### C++ side (`src/`)

| Component | State it keeps | Operations | Interacts with | What must be right |
|---|---|---|---|---|
| `OrderBook` (`OrderBook.hpp/.cpp`) | node pool and free list, two `FlatBook`s (sorted level vector + price index), per-level FIFO lists and cached totals, dense locator table | `addLimitOrder`, `cancel`, `match`; reads: `bestBid/Ask`, `levels` | called by every engine, by the C ABI and through it by Python | the redundant structures agree; no node leaked, freed twice or dangling; price-time priority |
| `EventEngine` | Hawkes clock, `produced_` | `run`: sample, push with retry, sentinel | writes `EventQueue`; reads `shutdown_` | counts and queue agree; ends with a sentinel or a shutdown |
| `MatchingEngine` + `LatencyQueue` | latency heap, ready buffer, `last_event_time`, own book, `processed_` | `run`, `flush_ready`, `push_output` | reads `EventQueue`, `event_finished`; writes `MatchQueue` | matches in ready order, none lost or repeated, limit respected |
| `EngineRuntime` | three flags, the threads | `run`, `request_shutdown` | starts and joins the three threads | `run` returns |
| `AnalyticsLogger` | not in the repository | consumes `MatchQueue` | joined by `EngineRuntime` | receives the matches in order |
| `LatencyQueue` (`latency_model.hpp`) | power-of-two ring, heap | `push`, `pop`, `drain_up_to`, growth | both engines | the same queue as the one it replaces |
| `SimulatorCore`, `ExecutionEngine`, `execution_cost` | book, latency queue, arrivals, fills and cost totals | `run`, `record_execution`, report | `OrderBook`, Hawkes process | events traded in ready order; no trade better than its reference; report and records agree |
| `AdaptiveExecutionEngine` | three sliding windows with running sums, two controls | `execute` | `ExecutionEngine` | sums match the windows; controls move the way the conditions call for |
| Hawkes processes (`hawkes_core.cpp`, `order_flow/OrderFlow.cpp`) | excitations, candidate copies, time | `sample_next`, `simulate` | feed the engines and the C interface | recursive state equals the sum over the history; thinning bound dominates |
| `hawkes_mle.cpp`, `hawkes_mle_cli.cpp` | optimiser state, trajectory | likelihood, line search, retries | order flow library | recursion equals the double sum; fits only climb; what is reported is justified |
| `week8_system_integration.cpp` | `TaskExecutor` (queue, pending count), `EventBus`, simulator, strategy, execution handler, risk lots | `post`, `wait_until_idle`, publish/subscribe, FIFO-lot PnL | worker threads | idleness detection; lots add up to the position |
| `order_book_c_api.cpp`, `hawkes_c_api.cpp` | last error per thread, buffers handed out | forwarding, callbacks | Python bridges | every buffer freed once; callbacks alive while called |
| `impact_calibration.cpp` | trades, rolling depth, reservoir | load, sample, regress | files | depth is the trailing volume; samples are distinct |
| `pnl_analysis.cpp` | totals per strategy | read, accumulate, write | files | the breakdown accounts for every row |
| `perf/`, benchmarks | timings | measurement | - | - |

### Python side (`python/`, `scripts/`, `neural_hawkes.py`)

| Component | State it keeps | Operations | Interacts with | What must be right |
|---|---|---|---|---|
| `Backtester` | clock, active orders, timers, halt flag, digest | `run`, `process_market_event`, `submit_order`, `cancel_order`, `process_fill`, `on_market_data`, timers | book, risk engine, sandboxed strategy (re-entrant callbacks), logger | lifecycle order; halted strategies stop; a timer fires once, when due |
| `ConcurrentBacktester`, `RingBufferQueue` | two bounded queues, re-entrant lock, futures | ingest, strategy and order threads | the same `Backtester` | behaves as the serial one; `run` returns |
| `PythonOrderBook` | price queues, stop, iceberg and peg tables | `enqueue`, `cancel`, `apply_event` | `Backtester` | an order is in one place; sizes conserved; hidden size waits its turn; pegs never cross |
| `CppOrderBook` adapter | remaining sizes by id, over the C ABI | same interface | C ABI | its table follows the native book |
| `RiskEngine` | FIFO lots, inventory, realised and unrealised PnL, halt flag | `update_on_fill`, `update_on_tick` | `Backtester` | lots sum to the inventory; PnL equals cash and position; limits halt for good |
| `SlidingWindowRateLimiter` | times of the admitted actions | `allow`, `reset` | `Backtester` | never more than `max_actions` in any window |
| `StrategySandbox`, market maker | fault flag; working orders | `invoke`; cancel and requote on each tick | `Backtester`, `RiskEngine` | a faulted strategy is never called again; no quote is forgotten |
| Synthetic generator, `SequenceValidator`, stress run, `check_logs.py` | live orders, burst state, anomalies | `stream`, `observe` | files, books | every generated stream is accepted; every anomaly is counted |
| `MetricsLogger`, `MetricsAggregator` | counters, latencies, records | `log_*`, run boundary, summary | every runner | counters match the file; percentiles are samples |
| `simulate.py` | library handle, fallback flag, registered callbacks | `simulate_*`, through `ctypes` or in Python | `hawkes_c_api.cpp` | buffers freed, callbacks alive, one path per process |
| `run_week7_strategy_calibration.py`, `run_week7_adaptive_simulation.py` | positions, cash, equity; active and pending regime | `simulate_market`; `AdaptiveStrategy.step` | price simulation | equity is what the trades made; regimes are confirmed; caps hold |
| `neural_hawkes.py` | windows, splits, histories, artifacts | `run_experiment` | torch, files | windows cover the data; means are over targets; files agree |
| `run_week5_empirical.py` | windows, seeds, objective cache, previous fit | both fits, residual histories | optimisers, files | windows hold their trades; the kept fit is justified; the cache answers near |
| `preprocess_binance.py` | counters, current bar | check, normalise, aggregate | dump files | bars account for every row |
| Replay, ITCH parser, dashboard, reports, Streamlit apps, plots, notebooks | files | I/O | - | - |

### The behaviours that are hard

* threads that talk through bounded queues and flags read at different moments
  (`EngineRuntime`, `ConcurrentBacktester`, `TaskExecutor`);
* early ends: `request_shutdown`, `max_events`, end of session, a queue that is
  full while its consumer has left, a callback that raises;
* redundant data structures that every operation must keep in step (both order
  books, the risk engine, the adapter's table, sliding windows and their sums);
* re-entrant callbacks: a strategy that submits, cancels or schedules from
  inside the callback another operation is making;
* order types that change the book as a side effect (icebergs, stops, pegs);
* recursions that stand for a sum over a history (Hawkes intensities, the
  likelihood, truncated kernels) and survive rejected candidates and retries;
* buffers and callbacks that cross between Python and native code while several
  threads call;
* tools that fail half way: a retry that is kept, a file written and the next not.

`PROJECT.json` lists every hazard at its line and the properties that cover it.

## 2. Modules

| Module | Models | Composes |
|---|---|---|
| `LimitBook` | what a price-time-priority book promises: a queue of orders for each side and price, a cancel that finds every order whose id is its own, and sweeps that give each order what those ahead of it leave over, in closed form | - |
| `OrderBook` | `src/OrderBook.hpp/.cpp` in detail | refines `LimitBook` |
| `NativeBook` | the `CppOrderBook` adapter, the ctypes bridge and the C ABI over it | extends `OrderBook` |
| `PythonOrderBook` | `python/backtester/order_book.py` in detail | - |
| `EnginePipeline` | `EngineRuntime`, `EventEngine`, `MatchingEngine`, `LatencyQueue` and the logger as threads | - |
| `SlidingWindow`, `RateLimiter` | `SlidingWindowRateLimiter`: its operators, and the class alone with its history | `RateLimiter` extends `SlidingWindow` |
| `RiskEngine` | `python/backtester/risk.py` as operators on a record | - |
| `MarketMakerDesk` | `python/strategies/market_maker.py` driven by the backtester | extends `RateLimiter`, instantiates `RiskEngine` |
| `Backtester` | `python/backtester/backtester.py` and `strategy.py`, with the book and the risk engine as far as they matter to it | instantiates `SlidingWindow` twice |
| `ConcurrentBacktester` | `python/backtester/concurrent.py` | instantiates `Backtester` twice over: its actions are those the threads share, its specification is what they should implement |
| `BoundedQueue` | what a bounded FIFO promises | - |
| `RingBufferQueue` | `python/backtester/queues.py` in detail | refines `BoundedQueue` |
| `Week8System` | `src/week8_system_integration.cpp`: executor, bus, components, runner | - |
| `LegacyLatencyQueue` | the priority queue of the legacy build, which is what the ring promises | - |
| `LatencyQueue` | the ring and heap of `latency_model.hpp` | refines `LegacyLatencyQueue` |
| `SimulatorCore` | `simulator_core.cpp` and `execution_engine.cpp`, one session | - |
| `HawkesCore` | `hawkes_core.cpp`, thinning in several dimensions | - |
| `OrderFlow` | `order_flow/OrderFlow.cpp`, both simulation paths and the Poisson process | - |
| `AdaptiveEngine` | `adaptive_engine.cpp` | - |
| `HawkesBridge` | `python/simulate.py` and `hawkes_c_api.cpp`, concurrent calls | - |
| `StrategyCalibration` | `simulate_market` of `run_week7_strategy_calibration.py` | - |
| `AdaptiveStrategy` | `AdaptiveStrategy` of `run_week7_adaptive_simulation.py` | - |
| `SyntheticFlow` | the `SequenceValidator`, and the generators, the stress flow and `check_logs.py` that feed it | - |
| `MetricsLog` | `python/backtester/logging.py` | - |
| `HawkesMLE` | `hawkes_mle.cpp`, `hawkes_mle_cli.cpp` | - |
| `ImpactCalibration` | `impact_calibration.cpp` | - |
| `PnlAnalysis` | `pnl_analysis.cpp` | - |
| `NeuralExperiment` | `run_experiment` of `neural_hawkes.py` | - |
| `WindowedFits` | `run_pipeline` of `run_week5_empirical.py` | - |
| `TradeBars` | `preprocess` of `preprocess_binance.py` | - |
| `SimulatorParts` | five programs that simulate, side by side, for any values of their constants | instantiates `AdaptiveEngine`, `HawkesBridge`, `StrategyCalibration`, `AdaptiveStrategy`, `SimulatorCore` |
| `MCPrograms` | the same and every other program that stands alone, with constants for TLC | extends `SimulatorParts`, instantiates `LatencyQueue`, `HawkesCore`, `OrderFlow`, `SyntheticFlow`, `MetricsLog`, `HawkesMLE`, `ImpactCalibration`, `PnlAnalysis`, `NeuralExperiment`, `WindowedFits`, `TradeBars` |
| `MCBacktester` | values of `Backtester`'s constants for TLC, and beside it the book it falls back to | extends `Backtester`, instantiates `PythonOrderBook` |
| other `MC...` | values of the constants for TLC | extend the module they are named after |
| `OrderBookProofs` | theorems about the C++ book and its adapter | extends `NativeBook` |
| `EnginePipelineProofs`, `MarketMakerDeskProofs`, `BacktesterProofs`, `RingBufferQueueProofs`, `Week8SystemProofs` | theorems about the module each is named after (the limiter's are in the desk's) | extend it |
| `SimulatorPartsProofs` | theorems about the five programs of `SimulatorParts` | extends it |
| `Series` | sums of series and their latest values | used by the models |
| `Lemmas` | what the proofs share: induction up to a number, the runs of loops written as recursive functions, sums, windows, what pruning a deque leaves | used by the other proofs |

Definitions marked `Mutant:` are plausible mistakes in the definition that follows
them; they are not part of any specification and serve to show that each
property can fail (`PROJECT.json`, "mutants").

### `OrderBook` and `NativeBook`

State: `data` (the acquired nodes of the pool; the others are its free list),
`entries` (per side the vector of levels, each with its FIFO of nodes and cached
total), `index` (per side from price to position), `locator` and the latest
`fills`. One action per public operation, each a whole call: `AddLimitOrder`,
`Cancel`, `Match`. The sweep of `match` is two recursive functions, `FillLevels` over the
prices it reaches and `FillNodes` over the nodes of one level. Prices come in as raw prices and go through `toTicks`, so that
prices that round to the same tick, and to tick 0, occur.

`NativeBook` adds the adapter's `_order_meta`, in half units: the native book gets
the rounded size, the table keeps the rest. The C functions and the bridge only
check for null and copy, so each of its actions is the whole chain of a call. Ids
outside `UniqueIds` may be reused while they rest, which the code does not refuse.

### `PythonOrderBook`

State: one record `lob` (price queues of ids, `orders`, the tables of hidden
sizes, stops and pegs, the last trade's price) and the history the properties need. An
operation is a fold of the code's loops over that record: the sweep over a copy
of each queue, iceberg clips appended while it goes on, stops triggered by a trade
and executed in turn, and pegs repriced one after the other.

### `EnginePipeline`

Each thread is a program counter (`eventPc`, `matchPc`, `logPc`, `runtime`); a step
goes from one access to shared state to the next, so every interleaving of queue
operations and flag reads is explored. In particular the matcher's failed pop and
its read of `event_stream_finished_` are two steps (`Pop`, `PopFailed`), and so are a
failed push and its check of `shutdown_`. The SPSC queues are sequences with a
capacity, whose single operations are atomic, which is what
`boost::lockfree::spsc_queue` guarantees to one producer and one consumer. The
random draws (gap, side, delay) are choices from small sets. The matcher's book is
reduced to the quantity that rests on each side: prices do not affect the pipeline.

`matching_engine.cpp:165` and `simulator_core.cpp:156` call `book.match_into`, which
`OrderBook.hpp` does not declare; it is read as `match` filling a buffer that was
cleared, the only reading under which the callers make sense.

### `RateLimiter`, `RiskEngine` and `MarketMakerDesk`

`RateLimiter` keeps the whole history of admissions beside the deque. `RiskEngine` is
a set of operators on one record, because its calls are made by others:
`OnFill`, `OnTick`, the limits and the halt. `MarketMakerDesk` puts them together
with the strategy: a tick updates the risk engine and may start a round (cancel the
working orders, submit a bid and an ask), each call passing its limiter and each
an action of its own; fills of the desk's orders and of the feed's reach the risk
engine between rounds. A refusal raises in the middle of a round and faults the
strategy; whether it halts is a constant.

### `Backtester`

A single thread with re-entrant callbacks: `stack` holds the callbacks that are
running, `phase` where the driver stands between two of them. The driver's actions
(`StartStrategy`, `NextEvent`, `FireTimer`, `Dispatch`, `ProcessFill`, `MarketData`,
`FinaliseRun`, `Return`) are enabled with an empty stack; the strategy's
(`ContextCall`, `CallbackReturns`, `CallbackRaises`) while a callback runs. The
strategy is arbitrary: it makes any calls through its context, catches or lets
through what they raise, and may raise at any moment. A refused order raises inside
the callback, which is why nothing more than `CallbackRaises` is needed for it. The
fault is caught at the callback that raised (`StrategySandbox.invoke` and
`_strategy_call`), so that an enclosing callback goes on: `SilentAfterFault` is about
exactly this.

The book is abstracted to what `enqueue`, `cancel` and `apply_event` may do to the
set of resting limit orders: an execution takes any sequence of them, all but the
last in full. The strategy's ids start at 1 (`backtester.py:279`) and so do a synthetic
feed's (`synthetic.py:207`), so an id may belong to an order of each: `Report` counts the
fill of a feed order against the strategy's order of that id, as `process_fill` does, and
`FeedDeletes` and `CancelOrder` take out every order of the id, as the Python book does.
The history `drift` adds up what the feed's orders did in the strategy's name. The native
book, whose locator knows only the later of two orders of one id, is modelled in
`OrderBook`, which has the reused ids, and not combined with `Backtester`. The risk engine may halt the strategy at every fill and tick.

### `ConcurrentBacktester`

Adds the four threads, the two queues, the lock and the futures to the state of
`Backtester`. A callback runs on the thread that made it; an order it submits puts a
command in `orderQueue` and its thread waits until `Resolve`. The lock is the name of
its holder. `_handle_event` releases and takes it again between dispatch, fills and
market data exactly as the code does, and `on_market_data` runs without it. An event in
`BadEvents` makes `apply_event` raise, which ends the strategy thread; `IngestStuck` is
the state that may follow: nobody drains the event queue any more, and `_ingest_loop`
waits in a `put` for good (`concurrent.py:158, 162`).

### `RingBufferQueue`

A thread in `put` or `get` holds the lock from one `wait` to the next, so each such
stretch is one action. `Notify` wakes one of the waiting threads, which must take the
lock again and rechecks its condition.

### `Week8System`

`queue`, `pending` and `stopping` are `TaskExecutor`'s `tasks_`, `pending_tasks_` (modulo
`Wrap` instead of 2^64) and `stopping_`. Posting is two steps, `Push` under the
mutex and the increment after it, as at lines 125-131, so that a worker can take a
task before it is counted. The runner subscribes the handlers one by one while the market
thread already publishes; a tick is delivered to those subscribed by then. A
worker's loop waits, runs a task, posts what the task publishes and counts
down; the position and the lots of an execution are written in two steps.

### `LatencyQueue` and `LegacyLatencyQueue`

The header holds two implementations, selected by a macro. The legacy one is a
priority queue, and is the abstract specification; the ring with its masked,
ever-growing indices, its reallocation and its lazily filled heap implements it under
`queue <- Drained`, the heap together with what is pending in the ring.

### `SimulatorCore`

One call of `run()`: `Sample` draws an event and queues it, `Trade` executes the one that
is ready first, up to the flush's limit, and `Report` computes the summary. A side of the
book is the sequence of the quantities at its prices, best first: `SeedDepth` ticks beyond
the mid price, where only a crossed book would rest, and as many behind it. Seeding, the reference
price, the sweep, the second match over a reseeded book and the replenishment are those of
the code; `Trade` also books the execution engine's record and totals.

### `HawkesCore`, `OrderFlow`, `HawkesMLE`

Recursions over excitations are exact because their numbers are integers that halve: a
decay constant of log 2 per unit of time, marks that are multiples of a power of two. What a
random generator draws (waits, acceptance, marks) is a choice. The properties compare
the recursive state with the sum over the whole history, which is how the process is
defined. `HawkesMLE` adds the control of the optimiser: points ordered by likelihood
stand for parameters, any of which the line search may try, and the command line
tool's attempts (first, retry, alternate) decide what is kept.

### `HawkesBridge`

Two threads call `simulate_*`: each looks for the library, registers its sampler,
runs natively (during which other threads run, because ctypes gives up the interpreter lock),
copies the buffers and frees them one by one. The fallback simulates in Python.
The C interface's last error is kept per thread.

### `AdaptiveEngine`, `StrategyCalibration`, `AdaptiveStrategy`

`AdaptiveEngine` keeps its controls as exact fractions. `StrategyCalibration` is one market in
which strategies trade in turn and the price moves with their flow;
`AdaptiveStrategy` is one strategy stepping through signalled regimes. Signals, noise and
fills are choices.

### `SyntheticFlow`, `MetricsLog`

The validator is an operator from its state and an event to its next state. `SyntheticFlow`
feeds it from three sources: the Poisson generator with its bursts, the uniform
flow of the stress run, and a log that may hold anything. `MetricsLog` has an action per `log_*`
call and one for the summary; the aggregator reads the records back.

### `ImpactCalibration`, `PnlAnalysis`, `TradeBars`, `NeuralExperiment`, `WindowedFits`

Each is one tool from its input, whose rows are chosen, to its output, with one action per
row, window, epoch or file. Figures are small integers, and what depends on real
arithmetic (a network's loss, an optimiser's point, three cost formulas) is a choice.
`NeuralExperiment` may fail in its diagnostics and in the middle of writing its files.

### The composites

`MCPrograms` and `MCBacktester` instantiate programs that do not share state. `part` says which
of them a behaviour runs; the others keep one initial state. A state space is the sum
of the parts', and each property of the composite is that of one part.

## 3. Runs

`CHECK_DEADLOCK FALSE` stands in the runs whose system comes to an end (a run that
returned, all items taken, the clock or the file at its bound). The order book never
stops, and its run checks for deadlock.

| Run | What it checks | Bounds, and why they suffice |
|---|---|---|
| `OrderBook` | `BookConsistent`: `FlatBookConsistent` (vector and index agree), `TotalsAgree` (cached totals), `PoolPartition` (each node free or in one queue), `LocatorNeverDangles`, `EveryOrderCancellable`; `MetaTracksBook` (the adapter's remaining sizes against the native book's); refinement of `LimitBook` | three nodes and two ids, one of which may be reused while it rests; prices that round to ticks 0 and 1; quantity 0; two orders in a level, erase and reinsertion in the vector, reuse of freed nodes. Nodes are symmetric |
| `EnginePipeline` | `MatchedInReadyOrder`; `EveryMatchTradesInSession`; `EventsDelivered`: `EventsAccounted`, `LoggedInMatchOrder`, `LimitRespected`, `FinishedRun` (what a run that returned has logged, and how an event can be left behind); `RunReturns` | three events, queues of two, gaps of 0 (simultaneous events) and 2, delays that make a later event ready earlier, sessions that end by time and by the limit, shutdown at every point |
| `EnginePipeline_drops` (violation) | `NoDrops`: an event is left in the queue when `run()` has returned | the same; the matcher's pop fails, the event thread pushes and finishes, the matcher reads the flag |
| `MarketMakerDesk` | `NeverTooMany`, `RefusedOnlyAtLimit` (the limiter against the unpruned history); `ProfitBalances`: `LotsAreThePosition`, `RealizedBalances`, `MarkedToMid`; `StoppedForGood`: `NoOrphans`, `HaltReachesDriver`, `HaltIsFinal` | three actions per two units and two cancels per three, so that orders and cancels are refused; clock steps of 0 to 2; fills of either sign that close and reverse lots; each limit reachable |
| `Backtester` | `ActiveOrdersTrackBook`; `TimersFireWhenDue`: `TimersFireInOrder`, `TimersAccounted`, `NoDueTimerSkipped`; `StoppedStaysSilent`: `SilentAfterFault`, `HaltedNotDriven` | three events, two simultaneous; a feed with one id the strategy uses and one it does not; four calls: a submission nested in a submission, a timer scheduled by a timer, a cancel after a fill, both rate limits exceeded |
| the same, part `book` (`PythonOrderBook`) | `OrdersAccounted`: `OrdersInOnePlace`, `TablesFollowBook`, `SizesConserved`; `PegsNeverCross`; `VisibleFirst` | four orders of every kind, five events; an iceberg of three clips, stops of both sides, pegs with an offset |
| `PythonOrderBook_iceberg` (violation) | `NoBetterPriceLeft`: an order trades while a better price of its side still shows quantity | the same orders; an iceberg's clip is replenished behind the copy of its queue that the sweep goes through |
| `ConcurrentBacktester` | `ActsAsSerial`: `OneAtATime` and the refinement `SerialEquivalent` of `Backtester`; `RunReturns` | queues of one, so that puts block and the replay need not fit; orders from `on_market_data`; timers of delay 1, and of delay 0 where both runners fire them at the same point; the second or third event makes `apply_event` raise. After the third, the rest fits and `run` must return; after the second it may not fit, and then `IngestStuck` is the only way not to return |
| `ConcurrentBacktester_on_fill` (violation) | `RunReturns` | one fill, one order submitted from `on_fill` |
| `RingBufferQueue` | `PositionsAgree`, `NoLostWakeup`, `AllTaken`, refinement of `BoundedQueue` | two slots, three producers, two consumers (each condition variable can have several sleepers), eight items |
| `Week8System` | `IdleIsIdle`: `PendingTracksTasks`, `IdleMeansAccounted`; `RunCompletes` | two workers, two ticks: chains of four tasks that overtake each other; the counter below zero |
| `Week8System_lots` (violation) | `LotsAreThePosition` | one worker, two ticks: a buy and the sell that closes it |
| `Programs` | one property per part, see below | in the module: a ring of four and six pushes, so that it grows after it has wrapped; a session of four units with latencies that reorder and orders of more than one unit; two dimensions; two calling threads; windows of two that overflow; streams of four messages, files of up to four rows; three events for the likelihood, so that its recursion carries; window shapes of which one would lie within another but for the end of the sequence; trades close enough for three in one fit, so that lags add up |

The properties of the composites, with the named conjuncts of the part's module:

| Property | Part | It says |
|---|---|---|
| `ImplementsLegacyQueue` | `LatencyQueue` | the ring hands out what the priority queue would, in an order it might |
| `SessionIsAccounted` | `SimulatorCore` | `ReadyInTimeIsRecorded`, `NeverBetterThanReference`, `LiquidityKept`, `SummaryAgrees` |
| `ThinningIsExact` | `HawkesCore`, `OrderFlow` | `ExcitationIsKernelSum`, `BoundDominates`; `PathsAgree`, `ClampNeverNeeded`, `NeverThrows` |
| `ControlsAreJustified` | `AdaptiveEngine` | `SumsMatchWindows`, `ControlsFollowConditions` |
| `CallsAreSound` | `HawkesBridge` | `BuffersAreFreed`, `CallbackAlive`, `OnePath`, `RefusalIsRaised` |
| `ReportIsTheTrades` | `StrategyCalibration` | `RiskCapNeverCuts`, `EquityIsTrades`, `ReturnsSumToEquity`, `DrawdownIsLargestFall` |
| `StepsFollowRegime` | `AdaptiveStrategy` | `RegimeIsConfirmed`, `ExecutionMeetsCap`, `StatsFollowRecords` |
| `FlowIsValid` | `SyntheticFlow` | `FlowAccepted`, `BurstOrdersAreLive`, `AnomaliesCounted` |
| `SummaryMatchesFile` | `MetricsLog` | `CountersMatchFile`, `PercentilesAreSamples` |
| `CalibrationIsJustified` | `HawkesMLE` | `RecursionIsDoubleSum`, `FitClimbs`, `SummaryIsJustified` |
| `FitIsOfTheTrades` | `ImpactCalibration` | `DepthIsTrailingVolume`, `SamplesAreDistinct`, `LineMeetsMean` |
| `BreakdownAccounts` | `PnlAnalysis` | every row once, per strategy and in all, and alpha is profit plus costs |
| `ExperimentAccounts` | `NeuralExperiment` | `WindowsCover`, `NoLeakWithoutOverlap`, `MeanIsOverTargets`, `DiagnosticsLostToShortWindows`, `FileTypesFit` |
| `FitsAreJustified` | `WindowedFits` | `WindowsHoldTheirTrades`, `ExpFitJustified`, `CacheAnswersNear`, `WarmStartIsLastFit`, `HistoryIsTruncated` |
| `BarsMatchDump` | `TradeBars` | `BarsAccountForRows`, `BarsAreRanges`, `OneBarPerInterval` |

Where a module has a `TypeOK`, it is a conjunct of one of its run's properties, or proved
(section 4).

### Fairness

`RunReturns` of the engine assumes weak fairness of each thread (the operating system
schedules it; all its waits are spin loops) and of `run` itself, and no fairness of
`RequestShutdown`. In `ConcurrentBacktester` it is weak fairness per thread: a thread that can
go on does, callbacks return, and a blocked `put` or `get` of `queue.Queue` wakes up
when it can go on. In `RingBufferQueue` it is weak fairness of each thread that is
not asleep on a condition variable: the wake-up itself is the code's `notify`. In
`Week8System` it is weak fairness of the runner, of the market thread and of each
worker; the runner asleep on `idle_cv_` is woken by `NotifyIfIdle` alone, while a worker's wait
is modelled by its predicate, because every post and the stop notify `cv_`. The lock and the queues of the concurrent runner have at most two contenders
at a time, and each contender releases for good or waits for the other, so that strong
fairness is not needed.

## 4. Proofs

Each theorem holds for all values of the constants that satisfy the named assumptions of
the module. TLC checks the same property on a run, and evaluates the assumptions there.
A property is seldom inductive: the invariants named below are what it needs besides.
Every proof has one lemma per action, or per part of the invariant that an action disturbs.

### `OrderBookProofs` (`OrderBookAssumption`, `SizesAssumption`, `QuantitiesAssumption`)

Raw prices, quantities and sizes are naturals, a tick is a positive number of raw units, the
ids not reused are ids, and the quantities that add and match are called with are the
rounded sizes. There may be any number of nodes.

* `BooksAgree`: `NativeSpec => []BookConsistent`, and `TableTracks`:
  `NativeSpec => []MetaTracksBook`, from one invariant, `BookInv`. It says of each side that its
  vector is sorted, holds no empty level and is inverted by its index (`Flat`), and of pool,
  levels and locators together (`Shelved`) that different places in the queues hold different
  nodes (`QueuesApart`), that the nodes in them are the acquired ones (`PoolRests`), that totals
  are sums (`LevelsRight`), that locators lead to their order (`LocatorsLead`) and that an order
  whose id is not reused is found (`UniqueFound`); `Tracks` is `MetaTracksBook` on the pool.
* The argument has two layers. `Shelved` speaks of levels by price (`Shelf`), not by position, so
  that opening, emptying and erasing a level leave it alone (`ShelvedOpen`, `ShelvedDrop`), and
  a node that is added, removed or partly filled changes one queue and one total
  (`ShelvedAdd`, `ShelvedRemove`, `ShelvedTake`). Beneath it, `levelFor` and
  `eraseIfEmpty` keep the vector flat and change the levels by price by exactly one
  (`LevelForIs`, `EraseIs`), which is where `refreshIndices` must start at the right place.
* The sweep changes pool, locators, levels and fills node by node, and is out of step with the
  vector and with the adapter's table until it ends. `Swept` is the
  invariant inside a level (`FillNodesKeeps`: the nodes still to visit are all still in the
  queue), `RoundRight` the one between levels
  (`FillLevelsKeeps`); both carry the table as it will be once the fills so far are taken
  off it (`After`). Reuse of an id is harmless to an order whose own id is not
  reused because `UniqueFound` makes the owner of that id unique (`UniqueAlone`).
* `PriorityHolds`: `NativeSpec => ImplementsLimitBook`. Under `BookInv` the queue that the
  refinement mapping reads at a price is the one that stands there (`QueuesNow`, `QueuesNext`),
  and each call is a step of `LimitBook` (`EnqueueAdds`, `CancelRemoves`, `UnknownRefuses`,
  `ExecuteSweeps`). The last is the long one, as the loop changes one quantity after another and
  `Sweep` gives each order its part at once. Inside a level, the loop has executed after k
  nodes what the first k orders of the queue execute (`Executed`), and holds what they leave
  (`Remainder`) followed by the rest of the queue (`QueueSwept`); a node that is passed over,
  of quantity 0, stays where it was. Between levels, what remains of the aggressor before a
  level is its quantity less what rests ahead (`AheadIs`: the levels before a tick are the
  leading ones of the vector, so their depths add up), and levels behind it are as they were
  (`LevelsSwept`). The loop leaves at the first level beyond the limit, and since
  the vector is sorted no later level is within it (`ReachableAll`).

### `EnginePipelineProofs` (`EngineAssumption`)

A positive capacity, order size and seed size; gaps and delays are naturals.

* `TypeCorrect`: `Spec => []TypeOK`.
* `ReadyOrder`: `Spec => []MatchedInReadyOrder`. The
  invariant `ReadyInv` adds `NotStarted` (nothing is matched before the threads start),
  `TimesOrdered` (the times of `lastEventTime`, of the queued events in order, of the
  event in hand and of the clock never decrease) and `ReadyTimesOrdered` (what
  was matched is no later than what is in the batch, the batch no later than the last
  flush's limit, and that no later than what remains delayed or is to come).
* `MatchesTrade`: `Spec => []EveryMatchTradesInSession`, from `MatchTrades`: after the
  replenishment the order executes between one unit and its size.
* `Delivered`: `Spec => []EventsDelivered`, the engine's accounting. It does not say that
  nothing is lost, which is false (section 5), but how much: what a run that returned without a
  shutdown has not logged was due after the session, or is in the event queue before a
  sentinel the matcher never took, and none of it if the limit was reached. `DeliveryInv` adds
  `SourceInv` (queued ids are different and were counted, and the limit stops the source), `AccountInv`
  (each event made is in exactly one place: queue, delay model, batch, matched or dropped;
  the counters count what they say) and `OutInv` (what is logged, what waits for the
  logger and what is being sent are together what was matched, in order). Once
  `MaxEvents` events are matched the batch is empty, so that `flush_ready` throws nothing away:
  `LimitMeansAll`, a pigeonhole argument on the library's cardinalities, which also leaves the
  queue empty at the limit (`LimitLeavesNothing`). For the end of a run `EndInv` adds the order
  in which the threads are joined (`JoinedInOrder`), that a source that is done has put the sentinel last
  (`StreamEnds`; it is alone, `SentinelIsAlone`), and that a matcher on its way out has flushed
  all that is due (`NothingDueIsLeft`).

### `MarketMakerDeskProofs` (`SlidingWindowAssumption`, `RateLimiterAssumption`, `MarketMakerDeskAssumption`)

The limiter alone, with a positive limit and interval:

* `NeverExceeds`: `Spec => []NeverTooMany`, and `NeverRefusesEarly`:
  `Spec => []RefusedOnlyAtLimit`. The properties speak of the whole history of admissions,
  the code only of its deque. `RateInv` ties the two: the deque is a
  suffix of the history (`WindowIsSuffix`), the history is in time order
  (`AdmittedInOrder`), and what was forgotten has outlived the interval
  (`ForgottenOutlived`). `Lemmas` says what the pruning loop leaves
  (`PrunedTail`); the loop stops, by the least number that ends it (`LeastNatural`).
* `TypeCorrect`: `Spec => []TypeOK`; the deque never outgrows `max_actions`.

The market maker with its risk engine and limiter:

* `DeskLimited`: `DeskSpec => [](NeverTooMany /\ RefusedOnlyAtLimit)`; `LimiterInv` is
  `RateInv` with a clock that does not run backwards.
* `ProfitIsTheFills`: `DeskSpec => ProfitBalances`. `BooksInv` says that the open lots hold the
  inventory, that realised profit is the cash of all fills plus the cost of the open
  lots, and that open lots are on one side. That is an invariant of the
  matching loop, so it is proved by induction over its rounds (`RoundBalances`,
  `RoundKeepsSide`, `MatchingBalances`); that a flat book has no lots (`FlatHasNoLots`) gives the
  unrealised part.
* `HaltStops`: `DeskSpec => []HaltReachesDriver /\ HaltIsFinal`: once the engine halts, the driver
  is told in the same step and neither forgets.
* `DeskStops`: with `HaltOnRefusal`, `DeskSpec => StoppedForGood`: the halts of
  `HaltStops`, and while the desk runs no quote is left in the book that it has forgotten. `OrdersKnown` says which orders may rest at
  each place of a round. The hypothesis is the default `halt_on_violation`
  (`risk_controls.py:17`); without it the property is false (section 5).

### `BacktesterProofs` (`BacktesterAssumption`)

* `TypeCorrect`: `Spec => []TypeOK`.
* `StoppedIsSilent`: `Spec => StoppedStaysSilent`: after a fault no callback starts,
  after a halt no market data and no timer, because calls are only made on top of the stack, one
  at a time (`CalledOnTop`, `StackGrows`).
* `TimersFire`: `Spec => TimersFireWhenDue`. `TimerInv` adds `FiredBeforeHeap` (what fired is earlier,
  by time and then by id, than all that is scheduled), `TimersFireInOrder`,
  `TimersAccounted`, the uniqueness of ids and `QuietOutside`.
* `ActiveOrdersAgree`: `Spec => []ActiveOrdersTrackBook`, for any ids of the feed, also those
  the strategy is given. What `active_orders` holds for an id is what rests for it and what
  is still to be reported, less `drift[id]`, and nothing if that is negative. `OrderInv` adds that
  the sizes agree in this way for every id in use (`SizesAgree`), that no id rests or is pending twice for
  the strategy (`OnceEach`), where fills may be pending (`FillsInTheirPhase`) and that ids not yet
  given out are in none of the tables (`IdsKnown`, `ActiveKnown`). The property is a
  refinement of "the two agree", which a feed with ids of its own gets: then `drift` stays 0.

### `RingBufferQueueProofs` (`RingBufferAssumption`)

A positive capacity, finitely many threads, producers who are not consumers.

* `PositionsStayInStep`: `Spec => []PositionsAgree`, and `TypeCorrect`.
* `Implements`: `Spec => ImplementsBoundedQueue`, the refinement with the mapping
  `queue <- [i \in 1..size |-> buffer[(head + i - 1) % Capacity]]`. The invariant `RingInv`
  is `PositionsAgree` and `Occupied` (the `size` slots from `head` on hold items).
  `SlotFacts` and `SlotsDiffer` reduce the positions' modulus to one comparison, so that `put`
  writes a slot not in use (`PutStep`) and `get` shifts the others (`GetStep`); a thread
  that goes to sleep is a stutter of the queue (`SleepStep`).
* `NoWakeupIsLost`: `Spec => []NoLostWakeup`: while consumers sleep, at least as many are
  awake as there are items, and likewise for producers and free slots. It counts threads, hence the finiteness.

### `Week8SystemProofs` (`Week8Assumption`)

* `IdleMeansDone`: `Spec => []IdleIsIdle`: when the runner sees the executor idle, each order sent
  was filled and accounted for, and the counter follows the tasks at all times. `IdleInv` adds `Counted` (the pending counter is the
  queue and the busy workers less those that have counted down, modulo `Wrap`),
  `PostsInTurn` (what each worker still has to post), `OrdersFollowed` (an order not yet executed is
  in the queue or with a worker) and `Phases` (what is over in each phase of `run`).
  The assumption keeps the market thread apart from the workers and `Wrap`, the counter's range, above all
  the tasks there can be; the code's counter is 64 bits wide.

### `SimulatorPartsProofs` (`EngineAssumption`, `BridgeAssumption`, `CalibrationAssumption`, `RegimeAssumption`, `SessionAssumption`)

Five programs side by side, each with an invariant of its own; a step of one leaves the
variables of the others alone (`PartsStep`).

* `ControlsJustified`: `Spec => []ControlsAreJustified`, for windows, scales and bounds of any
  size. `AdaptiveInv` ties the sums the engine updates in place to those of the window it
  keeps (`TotalTail`, `TotalAppend`, `LatestSlides`). The directions of the controls are orders between
  fractions, which are proved by multiplying out (`ProductOrder`, `ProductCancel`).
* `CallsSound`: `Spec => []CallsAreSound`, for any finite or infinite set of callers. `BridgeInv` says of each
  caller what it holds at each place of its call: no buffer without its call, no callback
  unregistered while native code may use it.
* `ReportHolds`: `Spec => []ReportIsTheTrades`. `CalibrationInv` keeps the equity and
  the returns as sums over the trades so far; the drawdown is a recursion over the equity.
  That the cap cuts nothing follows from the sizes of orders and positions.
* `RegimeFollowed`: `Spec => []StepsFollowRegime`. `RegimeInv` says since when the pending
  regime has been signalled (`SignalsPersist`), and what is recorded of each change and step
  (`ChangesAreConfirmed`, `CapsHold`, `StatsAreTheSteps`).
* `SessionHolds`: `Spec => []SessionIsAccounted`. `SessionInv` says that each event is queued, recorded
  once or was ready too late (`EventsPlaced`), that what was recorded is no later than what is
  queued or to come (`EventsOrdered`), how a run ends (`SessionPhases`), that nothing rests
  beyond the mid price and both sides hold what they were seeded with (`BookKept`), and that
  the totals are those of the executions (`CostsKept`). The reported slippage is per unit and
  counts each execution once, whatever its size (`simulator_core.cpp:305`); it bounds the
  booked shortfall from both sides. What an order takes, level by level,
  adds up to what it asks for or to all there is (`TakenIs`), and replenishment puts that
  back (`TradeBook`): so the second match over a reseeded book never happens.

`Lemmas` holds what these and the other proofs share: induction over the numbers up to n and
over the rounds of a loop (`UpTo`, `LoopRuns`, `LoopKeeps`), the recursive sums of `Series`
(`RunningIs`, `TotalAppend`, `TotalLinear`, ...), the latest values of a window, the
greater and the lesser of two numbers, and edits of sequences.

### What is only model-checked

Liveness under fairness (`RunReturns`, `AllTaken`, `RunCompletes`) and `LatencyQueue`, which uses bit
operations, are beyond the proof system. Loops that proofs speak of are written as recursive
functions, and induction over their rounds is done with sets (`UpTo`, `LoopRuns`); loops
elsewhere are folds or recursive operators, and what they compute is left to TLC. The
refinements `SerialEquivalent` and `ImplementsLegacyQueue`, the Python
book (nested folds over lists that the sweep mutates), `ThinningIsExact` (recursions over the
history) and the parts of `MCPrograms` that are not in `SimulatorParts` are model-checked only.

## 5. Where code and documents disagree

Shown by a run, with the trace:

* `ConcurrentBacktester_on_fill`: submitting from `on_fill` deadlocks the concurrent
  runner. The same lock is held while `on_start`, `on_stop` and the timers before a dispatch
  run, and a submission from `on_order_accepted` makes the order thread wait for itself.
* `Week8System_lots`: a fill that closes lots of the other sign grows what remains of it
  (`week8_system_integration.cpp:502`), so that a phantom lot stays in the books.
* `EnginePipeline_drops`: the matcher reads `event_stream_finished_` after its pop failed and does
  not try again (`matching_engine.cpp:215-231`), so that events pushed in between stay in the queue
  when `run()` has returned; `docs/week6_stability_tuning.md:25` reports "retries (no drops)".
* `PythonOrderBook_iceberg`: a sweep runs over a copy of a queue, so that a replenished clip at its
  end is skipped and a worse price executes (`order_book.py:150` against its lines 3-5).

Seen while modelling, without a run of their own. Some are stated as definitions that
are not among the runs' properties; checking them gives the trace.

* A synthetic feed's ids start at 1 (`synthetic.py:207`) and so do the strategy's
  (`backtester.py:279`), against `docs/invariants.md:15`: fills and deletions of the feed's orders
  then count as the strategy's, by the `drift` of `ActiveOrdersTrackBook`.
* When an event raises and more of the replay is left than the event queue holds, `_ingest_loop` waits for good
  in `put` and `run()` never returns to raise what it caught (`IngestStuck`, the exception in
  `RunReturns`; `concurrent.py:158, 162` against 114-115).
* Timers due between two fills of one event fire later in the concurrent runner than in the
  serial one (`SerialEquivalent`, with `on_fill` in `ImmediateIn`; `concurrent.py:239` against
  `docs/architecture.md:76`).
* `on_market_data` changes the timers and the halt flag without the lock
  (`concurrent.py:251` against `docs/invariants.md:32`).
* A halted strategy still gets `on_fill` and `on_stop` and may submit from them
  (`backtester.py:384` against `docs/architecture.md:68`).
* Between the fills of one event the strategy sees a book that is ahead of its own
  accounting (`backtester.py:421` against `docs/invariants.md:31`).
* A stop triggered by a stop's own execution waits for the next event, and is reported
  filled in full (`order_book.py:190-206` against `docs/invariants.md:20-22`); pegs are
  repriced only with some events (against `docs/invariants.md:23`).
* When a refusal does not halt, a refused cancel leaves a quote in the book that the
  market maker has forgotten (`NoOrphans`, with `HaltOnRefusal = FALSE`; `market_maker.py:94`).
* A short delay lets an event overtake its burst (`latency_model.hpp:87` against
  `docs/week6_integration.md:12`).
* A mark sampler that raises ends a simulation in Python and gives mark 0 natively
  (`simulate.py:198`).
* `exponential_residuals` decays its state twice over an interval
  (`run_week5_empirical.py:433-434`); `total_filtered_events` counts the overlap of windows twice
  (line 1103).
* Overlapping windows, the default, put events into training and test alike
  (`neural_hawkes.py:993`); predictions of unequal width lose the diagnostics (line 471);
  `num_types` is not raised for synthetic streams (line 790).
* A dump out of order gets two bars for one interval (`preprocess_binance.py:301`).
* The summaries by regime of `run_week7_adaptive_simulation.py:279` span steps of other regimes;
  the risk cap of `run_week7_strategy_calibration.py` never has anything to cut.

## 6. Not modelled

Formulas over reals are replaced by what the properties tell apart: cost and impact
formulas, `fit_kappa_delta`, gradients, the network, clustering, the statistical tests of
`hawkes_validation` and of the Python fits, the week-5 robustness study. Parsers and replay
(`itch.py`, `replay.py`) decode fixed layouts and keep no state between messages;
the dashboard, reports, Streamlit apps, plots and notebooks render results; benchmarks and
profilers measure. Left out inside modelled components: the collection of
metrics and CPU samples of week 8 and its unrealised profit, timings and digests of the log, command
lines, the grid search around `simulate_market`. The C++ logger's source is not in the
repository, and is modelled as a consumer from the arguments it is constructed with. Prices
are left out of `EnginePipeline` and `Backtester`. Flags and queue operations are taken as
sequentially consistent: memory orderings are not modelled. Handlers of week 8
that run at once on the same unsynchronised members are taken one after the other,
except for the position and the lots.

Paths left out of modelled functions:

* `TaskExecutor`'s destructor: stopping, joining and the end of its members are one order of steps;
* the thinning sampler's test of an excitation against an epsilon and its branch for a candidate
  without intensity (`hawkes_core.cpp:226, 242`): the one is folded into `Decayed`, the other into `Reject`;
* `set_window` of the adaptive engine's windows, which nothing calls;
* a build of the Hawkes library that appears while a call searches for it: `Build` is a step
  between searches;
* log entries of size 0 in `SyntheticFlow`'s logs; upper percentiles of the metrics log that are not
  the maximum, which take more latencies than a run of four records has;
* a NaN and a stamp out of range in a trade dump, which raise and end the run
  (`preprocess_binance.py:107, 182`);
* the native book under `Backtester` when the feed shares ids (section 2).

Hazards of resources only (the size of the locator table, memory per timer) are not
listed with properties. `PROJECT.json` gives the reason for each component.

## 7. Plan

Done: the books of both languages and the adapter, the threaded engine, the limiter, risk
engine and market maker, both backtesters, the ring buffer, the week-8 system, the simulator
core with its queue and sources, the Hawkes library's bridge, and the research tools. Eleven
components have theorems: the C++ book with its adapter, the threaded engine, the desk with its
limiter and risk engine, the backtester, the ring buffer, the week-8 system, the adaptive
engine, the Hawkes bridge, the calibration, the adaptive strategy and the simulator core.
What is left is to prove more, in this order:

1. `PythonOrderBook`: `OrdersAccounted` and `PegsNeverCross`, which need the folds of its sweep
   written as functions.
2. `MCPrograms`: `TradeBars`, `PnlAnalysis` and `NeuralExperiment`, whose properties are sums over
   recorded rows.
3. `ConcurrentBacktester`: the serial properties under its lock.
