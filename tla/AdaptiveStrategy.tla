-------------------------- MODULE AdaptiveStrategy --------------------------
(* AdaptiveStrategy of run_week7_adaptive_simulation.py: the regime signalled
   for a step becomes the active one when it has persisted, and the active
   regime sets how large an order and a position may be.

   Quantities are integers.  The signal price gives (the target position) and
   whether an order fills are abstract; a target may lie outside the risk cap,
   as that of mean reversion does.                                           *)
EXTENDS FiniteSets, SequencesExt, Series

CONSTANTS
  Regimes, FirstRegime,     (* the labels of classify_regimes                 *)
  OrderQty, RiskCap,        (* REGIME_PARAMS: functions of the regime         *)
  Reach,                    (* bound: how far off a target may lie            *)
  ConfirmationSteps,
  Window,                   (* size of a SlidingWindow                        *)
  Latencies,
  Steps                     (* bound: steps of the run                        *)

VARIABLES
  idx, position, currentRegime, pendingRegime, pendingSince, adaptationLags,
  latencyStats,             (* the values of one SlidingWindow                *)
  attempts, trades, turnover,
  records                   (* [signal, active, latency, before, executed]    *)
vars == <<idx, position, currentRegime, pendingRegime, pendingSince, adaptationLags,
          latencyStats, attempts, trades, turnover, records>>

Init ==
  /\ idx = 0 /\ position = 0
  /\ currentRegime = FirstRegime /\ pendingRegime = FirstRegime /\ pendingSince = 0
  /\ adaptationLags = <<>> /\ latencyStats = <<>>
  /\ attempts = 0 /\ trades = 0 /\ turnover = 0 /\ records = <<>>

-----------------------------------------------------------------------------
Clip(x, low, high) == Max({low, Min({x, high})})
Magnitude(x) == IF x < 0 THEN -x ELSE x

\* Mutant: a signal that comes back counts from when it was first seen.
SinceFirst(signal) == pendingSince
Since(signal) == IF signal # pendingRegime THEN idx ELSE pendingSince

Confirmed(signal) ==
  signal # currentRegime /\ idx - Since(signal) >= ConfirmationSteps

\* The risk cap of the active regime has the last word over the order size.
Capped(delta, cap) == Clip(delta, -cap - position, cap - position)

Delta(target, regime) ==
  Capped(Clip(target - position, -OrderQty[regime], OrderQty[regime]), RiskCap[regime])

\* SlidingWindow.add
Trimmed(values) == IF Len(values) > Window THEN Tail(values) ELSE values

\* AdaptiveStrategy.step
Step(signal, latency, target) ==
  /\ idx < Steps
  /\ LET active == IF Confirmed(signal) THEN signal ELSE currentRegime
         delta == Delta(target, active) IN
     /\ pendingRegime' = signal /\ pendingSince' = Since(signal)
     /\ currentRegime' = active
     /\ adaptationLags' = IF Confirmed(signal)
                          THEN Append(adaptationLags, idx - Since(signal))
                          ELSE adaptationLags
     /\ latencyStats' = Trimmed(Append(latencyStats, latency))
     /\ attempts' = attempts + 1
     /\ \E executed \in {0, delta} :
          /\ position' = position + executed
          /\ trades' = IF executed # 0 THEN trades + 1 ELSE trades
          /\ turnover' = turnover + Magnitude(executed)
          /\ records' = Append(records, [signal |-> signal, active |-> active,
                          latency |-> latency, before |-> position, executed |-> executed])
  /\ idx' = idx + 1

Next == \E signal \in Regimes, latency \in Latencies, target \in -Reach .. Reach :
          Step(signal, latency, target)

Spec == Init /\ [][Next]_vars

-----------------------------------------------------------------------------
(* SlidingWindow.drift over the sum of its values (times the count less one). *)
Drift == IF Len(latencyStats) < 2 THEN 0 ELSE Last(latencyStats) - Head(latencyStats)

(* The active regime changes only to one that was signalled in every one of the
   last ConfirmationSteps + 1 steps, and the lag recorded is no shorter.       *)
RegimeIsConfirmed ==
  /\ \A k \in 2 .. Len(records) :
       records[k].active # records[k - 1].active =>
         /\ k > ConfirmationSteps
         /\ \A j \in k - ConfirmationSteps .. k : records[j].signal = records[k].active
  /\ \A k \in DOMAIN adaptationLags : adaptationLags[k] >= ConfirmationSteps

(* An execution leaves the position within the cap of the active regime, and is
   larger than its order size only to bring a position back that a wider regime
   had let grow.                                                             *)
ExecutionMeetsCap ==
  \A r \in ToSet(records) :
    LET cap == RiskCap[r.active] IN
    r.executed # 0 =>
      /\ r.before + r.executed \in -cap .. cap
      /\ Magnitude(r.executed) > OrderQty[r.active] => r.before \notin -cap .. cap

(* A window holds the latest values and no others, and the run's counts are
   those of its records.                                                     *)
StatsFollowRecords ==
  LET n == Len(records) IN
  /\ latencyStats = Latest([k \in 1 .. n |-> records[k].latency], Window)
  /\ n >= 2 => Drift = records[n].latency - records[Max({1, n - Window + 1})].latency
  /\ attempts = n
  /\ trades = Cardinality({k \in 1 .. n : records[k].executed # 0})
  /\ turnover = Total([k \in 1 .. n |-> Magnitude(records[k].executed)])
  /\ position = Total([k \in 1 .. n |-> records[k].executed])

(* Every step follows the active regime, and its statistics follow the steps
   (run_week7_adaptive_simulation.py:56-262).                              *)
StepsFollowRegime == RegimeIsConfirmed /\ ExecutionMeetsCap /\ StatsFollowRecords

=============================================================================
