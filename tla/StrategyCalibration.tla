------------------------ MODULE StrategyCalibration ------------------------
(* simulate_market of run_week7_strategy_calibration.py: strategies trade in
   turn at the price of the step, their flow moves the price, and every one is
   marked to the new price.

   Prices, quantities and cash are integers.  A strategy's signal is abstract:
   its target may be any position within its risk cap; so are the noise of a
   price, the slippage of an execution (its noise may outweigh what the order
   pays, in either direction) and whether an order fills.                    *)
EXTENDS FiniteSets, SequencesExt, Series

CONSTANTS
  States,          (* the strategies, as a sequence of names                  *)
  RiskCap, OrderSize,
  Slippages, Noise,
  BasePrice, Steps (* bound: steps of the simulation                          *)

VARIABLES
  step, price, netFlow,
  turn,            (* how many strategies have traded in this step            *)
  position, cash, attempted, tradeCount, turnover,
  equityHistory, returns, prevEquity, positionHistory,
  trades,          (* history: every execution, [name, qty, price, step]      *)
  truncated        (* history: the risk cap shortened an order                *)
vars == <<step, price, netFlow, turn, position, cash, attempted, tradeCount, turnover,
          equityHistory, returns, prevEquity, positionHistory, trades, truncated>>

Names == ToSet(States)
Each(value) == [n \in Names |-> value]

Init ==
  /\ step = 0 /\ price = BasePrice /\ netFlow = 0 /\ turn = 0
  /\ position = Each(0) /\ cash = Each(0) /\ attempted = Each(0)
  /\ tradeCount = Each(0) /\ turnover = Each(0)
  /\ equityHistory = Each(<<0>>) /\ returns = Each(<<>>) /\ prevEquity = Each(0)
  /\ positionHistory = Each(<<>>) /\ trades = <<>> /\ truncated = FALSE

-----------------------------------------------------------------------------
Abs(x) == IF x < 0 THEN -x ELSE x

Clip(x, low, high) == Max({low, Min({x, high})})

\* _mean_reversion_target and _trend_follow_target.
Targets == -RiskCap .. RiskCap

\* _apply_risk_cap.
WithinCap(held, qty) ==
  IF qty > 0 THEN Min({qty, Max({0, RiskCap - held})})
  ELSE Max({qty, Min({0, -RiskCap - held})})

Paid(qty, execPrice) == execPrice * qty

\* _execute_order fills the whole order or nothing.
Execute(n, qty, execPrice) ==
  /\ cash' = [cash EXCEPT ![n] = @ - Paid(qty, execPrice)]
  /\ position' = [position EXCEPT ![n] = @ + qty]
  /\ turnover' = [turnover EXCEPT ![n] = @ + Abs(qty)]
  /\ tradeCount' = [tradeCount EXCEPT ![n] = @ + 1]
  /\ netFlow' = netFlow + qty
  /\ trades' = Append(trades, [name |-> n, qty |-> qty, price |-> execPrice, step |-> step])

NoFill == UNCHANGED <<cash, position, turnover, tradeCount, netFlow, trades>>

Trade ==
  /\ step < Steps /\ turn < Len(States)
  /\ \E target \in Targets :
       LET n == States[turn + 1]
           capped == Clip(target - position[n], -OrderSize, OrderSize)
           qty == WithinCap(position[n], capped) IN
       /\ truncated' = (truncated \/ qty # capped)
       /\ IF qty = 0 THEN NoFill /\ UNCHANGED attempted
          ELSE /\ attempted' = [attempted EXCEPT ![n] = @ + 1]
               /\ \/ NoFill
                  \/ \E slip \in Slippages :
                       Execute(n, qty, price + (IF qty > 0 THEN slip ELSE -slip))
  /\ turn' = turn + 1
  /\ UNCHANGED <<step, price, equityHistory, returns, prevEquity, positionHistory>>

\* Mutant: returns are taken against the first equity.
PreviousFirst(equity) == prevEquity
Previous(equity) == equity

\* The price moves by the flow and its noise, and every strategy is marked.
Mark ==
  /\ step < Steps /\ turn = Len(States)
  /\ \E noise \in Noise :
       LET next == Max({1, price + noise + netFlow})
           equity == [n \in Names |-> cash[n] + position[n] * next] IN
       /\ price' = next
       /\ equityHistory' = [n \in Names |-> Append(equityHistory[n], equity[n])]
       /\ returns' = [n \in Names |-> Append(returns[n], equity[n] - prevEquity[n])]
       /\ prevEquity' = Previous(equity)
       /\ positionHistory' = [n \in Names |-> Append(positionHistory[n], position[n])]
  /\ step' = step + 1 /\ turn' = 0 /\ netFlow' = 0
  /\ UNCHANGED <<position, cash, attempted, tradeCount, turnover, trades, truncated>>

Next == Trade \/ Mark

Spec == Init /\ [][Next]_vars

-----------------------------------------------------------------------------
(* _max_drawdown and _summarize_state                                        *)

Peak(peak, value) == Max({peak, value})

MaxDrawdown(curve) ==
  LET peaks[k \in DOMAIN curve] ==
        IF k = 1 THEN curve[1] ELSE Peak(peaks[k - 1], curve[k]) IN
  Max({0} \cup {peaks[k] - curve[k] : k \in DOMAIN curve})

Summary(n) ==
  [pnl |-> Last(equityHistory[n]), drawdown |-> MaxDrawdown(equityHistory[n]),
   fills |-> tradeCount[n], attempts |-> attempted[n]]

-----------------------------------------------------------------------------
(* Orders are sized towards a target within the cap, so _apply_risk_cap never
   has anything to cut and no position passes the cap.                       *)
RiskCapNeverCuts ==
  ~truncated /\ \A n \in Names : position[n] \in -RiskCap .. RiskCap

(* The profit reported for a strategy is what its trades made at the price
   they were executed at, and its returns sum to it.                         *)
EquityIsTrades ==
  \A n \in Names :
    LET own == {k \in DOMAIN trades : trades[k].name = n}
        made == [k \in DOMAIN trades |->
                   IF k \in own THEN trades[k].qty * (price - trades[k].price) ELSE 0] IN
    /\ turn = 0 => Summary(n).pnl = Total(made)
    /\ Cardinality(own) = Summary(n).fills /\ Summary(n).fills <= Summary(n).attempts

(* The returns whose mean and deviation give the Sharpe ratio add up to the
   equity of the last step.                                                  *)
ReturnsSumToEquity ==
  \A n \in Names : Total(returns[n]) = Last(equityHistory[n])

(* The maximum drawdown is the largest fall between two steps.               *)
DrawdownIsLargestFall ==
  \A n \in Names :
    LET e == equityHistory[n] IN
    Summary(n).drawdown =
      Max(UNION {{e[j] - e[k] : j \in 1 .. k} : k \in DOMAIN e})

(* What the calibration reports of a strategy is what it traded
   (run_week7_strategy_calibration.py:85-240).                             *)
ReportIsTheTrades ==
  RiskCapNeverCuts /\ EquityIsTrades /\ ReturnsSumToEquity /\ DrawdownIsLargestFall

=============================================================================
