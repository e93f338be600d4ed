--------------------------- MODULE AdaptiveEngine ---------------------------
(***************************************************************************)
(* AdaptiveExecutionEngine: each execution first feeds three sliding       *)
(* windows (latency, profit and loss, volatility), whose sums are kept     *)
(* incrementally, and sets the aggressiveness and the risk limit from      *)
(* their variance, drift and mean.  Inputs are integers and the controls   *)
(* exact fractions <<numerator, denominator>>; the epsilons that keep the  *)
(* code from dividing by zero are left out, the scales being positive.     *)
(***************************************************************************)
EXTENDS FiniteSets, SequencesExt, Series

CONSTANTS
  Latencies,     (* observed latencies                                    *)
  PnlDeltas,     (* changes of profit and loss                            *)
  Volatilities,  (* short-term volatilities, not negative                 *)
  Window,        (* length of the three windows, positive                 *)
  Scale,         (* latency_scale, pnl_scale and volatility_scale         *)
  Base,          (* base_aggressiveness and base_risk                     *)
  Lowest,        (* min_aggressiveness and min_risk, at most Base         *)
  Highest,       (* max_aggressiveness and max_risk, at least Base        *)
  MaxExecutions  (* bound: executions                                     *)

VARIABLES
  latency, pnl, volatility,  (* windows: [values, sum, sumsq]             *)
  aggressiveness, risk,      (* the controls                              *)
  inputs                     (* what was executed with, in order          *)

vars == <<latency, pnl, volatility, aggressiveness, risk, inputs>>

Empty == [values |-> <<>>, sum |-> 0, sumsq |-> 0]

Init ==
  /\ latency = Empty /\ pnl = Empty /\ volatility = Empty
  /\ aggressiveness = <<Base, 1>> /\ risk = <<Base, 1>>
  /\ inputs = <<>>

\* Mutant: the oldest value stays in the sum of squares.
TrimmedSquares(w, value) == w.sumsq

\* What the sum of squares is once this value has left the window.
Trimmed(w, value) == w.sumsq - value * value

\* SlidingWindowStat::add, with its trim.
Add(w, value) ==
  LET added == [values |-> Append(w.values, value), sum |-> w.sum + value,
                sumsq |-> w.sumsq + value * value]
      first == added.values[1]
  IN IF Len(added.values) <= Window THEN added
     ELSE [values |-> Tail(added.values), sum |-> added.sum - first,
           sumsq |-> Trimmed(added, first)]

Count(w) == Len(w.values)

\* Count squared times the variance.
Variance(w) == IF Count(w) < 2 THEN 0 ELSE Max({0, Count(w) * w.sumsq - w.sum * w.sum})

\* The drift, times one less than the count.
Drift(w) == IF Count(w) < 2 THEN 0 ELSE w.values[Count(w)] - w.values[1]

Magnitude(n) == IF n < 0 THEN -n ELSE n

\* One minus the penalty, and the boost, as fractions.
Calm(amount, weight) == <<Scale * weight, Scale * weight + amount>>
Boost(w) == <<Drift(w), Scale * Max({1, Count(w) - 1}) + Magnitude(Drift(w))>>

Times(a, b) == <<a[1] * b[1], a[2] * b[2]>>
Plus(a, b)  == <<a[1] * b[2] + b[1] * a[2], a[2] * b[2]>>
AtMost(a, b) == a[1] * b[2] <= b[1] * a[2]
Clamped(a) == IF AtMost(a, <<Lowest, 1>>) THEN <<Lowest, 1>>
              ELSE IF AtMost(<<Highest, 1>>, a) THEN <<Highest, 1>> ELSE a

\* execute: statistics first, then the controls, then the execution is
\* recorded with them.
Execute(l, p, v) ==
  LET lat == Add(latency, l)
      gain == Add(pnl, p)
      vol == Add(volatility, v)
      steady == Calm(Variance(lat), Count(lat) * Count(lat))
      quiet  == Calm(vol.sum, Count(vol))
  IN
  /\ Len(inputs) < MaxExecutions
  /\ latency' = lat /\ pnl' = gain /\ volatility' = vol
  /\ aggressiveness' = Clamped(Plus(Times(Times(<<Base, 1>>, steady), quiet), Boost(gain)))
  /\ risk' = Clamped(Times(Times(<<Base, 1>>, Plus(<<1, 1>>, Boost(gain))), quiet))
  /\ inputs' = Append(inputs, [latency |-> l, pnl |-> p, volatility |-> v])

Next == \E l \in Latencies, p \in PnlDeltas, v \in Volatilities : Execute(l, p, v)

Spec == Init /\ [][Next]_vars

-----------------------------------------------------------------------------

\* What was executed with, by kind.
ObservedLatency == [k \in DOMAIN inputs |-> inputs[k].latency]
ObservedPnl == [k \in DOMAIN inputs |-> inputs[k].pnl]
ObservedVolatility == [k \in DOMAIN inputs |-> inputs[k].volatility]

Holds(w, values) ==
  /\ w.values = values
  /\ w.sum = Total(values)
  /\ w.sumsq = Total([k \in DOMAIN values |-> values[k] * values[k]])

(***************************************************************************)
(* However long the engine runs, the sums its variance and mean are taken  *)
(* from are those of the latest values, so that the variance's clamp at    *)
(* zero hides no drift of the sums (adaptive_engine.cpp:16-60).            *)
(***************************************************************************)
SumsMatchWindows ==
  /\ Holds(latency, Latest(ObservedLatency, Window))
  /\ Holds(pnl, Latest(ObservedPnl, Window))
  /\ Holds(volatility, Latest(ObservedVolatility, Window))

(***************************************************************************)
(* The controls move as the comment at adaptive_engine.cpp:118 says: only  *)
(* a favourable drift of profit raises them above their base, and only     *)
(* latency variance, volatility or an unfavourable drift lowers them.      *)
(***************************************************************************)
ControlsFollowConditions ==
  inputs # <<>> =>
    LET base == <<Base, 1>>
        latestPnl == Latest(ObservedPnl, Window)
        favourable == latestPnl[Len(latestPnl)] > latestPnl[1]
        adverse == latestPnl[Len(latestPnl)] < latestPnl[1]
        steady == \A k \in DOMAIN latency.values : latency.values[k] = latency.values[1]
    IN /\ ~favourable => AtMost(aggressiveness, base) /\ AtMost(risk, base)
       /\ ~adverse /\ volatility.sum = 0 => AtMost(base, risk)
       /\ ~adverse /\ volatility.sum = 0 /\ steady => AtMost(base, aggressiveness)

(***************************************************************************)
(* The controls are justified by the latest executions                     *)
(* (adaptive_engine.cpp:71-136).                                           *)
(***************************************************************************)
ControlsAreJustified == SumsMatchWindows /\ ControlsFollowConditions

=============================================================================
