-------------------------- MODULE ImpactCalibration --------------------------
(***************************************************************************)
(* impact_calibration.cpp up to the fit of eta and gamma: rows of a trade  *)
(* file are loaded, each trade is given the volume that traded in the      *)
(* window before it, samples are taken against the mean price of the       *)
(* trades before (all of them, or a reservoir of bounded size), and a      *)
(* straight line is fitted to slippage over volume.  A sample's slippage,  *)
(* a ratio of prices, is any of a few numbers; sums and the fit's          *)
(* fractions are exact.                                                    *)
(***************************************************************************)
EXTENDS Integers, FiniteSets, Sequences, SequencesExt

CONSTANTS
  Gaps,        (* time between two rows; a file is in order of time      *)
  Prices,      (* trade prices                                            *)
  Volumes,     (* absolute traded quantities                              *)
  Slippages,   (* absolute relative slippages, scaled                     *)
  Window,      (* depth_window_ms                                         *)
  Lookback,    (* lookback_trades                                         *)
  MinQuantity, (* min_abs_qty                                             *)
  SampleLimits,(* the values of max_samples to run with; 0 is no limit    *)
  MaxTrades    (* bound: rows of the file                                 *)

VARIABLES
  pc,         (* load, depths, samples, fit or done                       *)
  maxSamples, (* opts.max_samples                                         *)
  trades,     (* the loaded trades, records [time, price, volume]         *)
  malformed,  (* rows skipped                                             *)
  i,          (* the loop variable of the pass under way                  *)
  window,     (* indices of the trades in the rolling window              *)
  running,    (* running_sum, the volume in the window                    *)
  depths,     (* depths[i]: the volume in the window before trade i       *)
  seen,       (* eligible trades so far                                   *)
  samples,    (* records [trade, volume, slippage, reference]             *)
  line        (* the fit: eta and gamma as fractions                      *)

vars == <<pc, maxSamples, trades, malformed, i, window, running, depths, seen,
          samples, line>>

NoLine == [eta |-> <<0, 1>>, gamma |-> <<0, 1>>]

Init ==
  /\ pc = "load" /\ maxSamples \in SampleLimits
  /\ trades = <<>> /\ malformed = 0 /\ i = 1
  /\ window = <<>> /\ running = 0 /\ depths = <<>>
  /\ seen = 0 /\ samples = <<>> /\ line = NoLine

Now == IF trades = <<>> THEN 0 ELSE trades[Len(trades)].time

LoadRow(gap, price, volume) ==
  /\ pc = "load" /\ Len(trades) < MaxTrades
  /\ Now + gap >= 0
  /\ trades' = Append(trades, [time |-> Now + gap, price |-> price, volume |-> volume])
  /\ UNCHANGED <<pc, maxSamples, malformed, i, window, running, depths, seen,
                 samples, line>>

\* Too few fields, a number that does not parse, or neither buy nor sell.
SkipRow ==
  /\ pc = "load" /\ malformed = 0
  /\ malformed' = malformed + 1
  /\ UNCHANGED <<pc, maxSamples, trades, i, window, running, depths, seen,
                 samples, line>>

Loaded ==
  /\ pc = "load" /\ trades # <<>>
  /\ pc' = "depths"
  /\ UNCHANGED <<maxSamples, trades, malformed, i, window, running, depths, seen,
                 samples, line>>

-----------------------------------------------------------------------------

Outside(time, index) == time - trades[index].time > Window

\* The trades still in the window: the front is dropped while it is too old.
Kept(time) ==
  LET first == {k \in DOMAIN window : ~Outside(time, window[k])}
  IN IF first = {} THEN <<>> ELSE SubSeq(window, Min(first), Len(window))

VolumeOf(indices) == FoldLeft(LAMBDA x, k : x + trades[k].volume, 0, indices)

ComputeDepth ==
  LET trade   == trades[i]
      kept    == Kept(trade.time)
      dropped == SubSeq(window, 1, Len(window) - Len(kept))
      sum     == running - VolumeOf(dropped)
  IN
  /\ pc = "depths" /\ i <= Len(trades)
  /\ depths' = Append(depths, sum)
  /\ running' = sum + trade.volume
  /\ window' = Append(kept, i)
  /\ i' = i + 1
  /\ UNCHANGED <<pc, maxSamples, trades, malformed, seen, samples, line>>

DepthsDone ==
  /\ pc = "depths" /\ i > Len(trades)
  /\ pc' = "samples"
  /\ i' = Lookback + 1
  /\ UNCHANGED <<maxSamples, trades, malformed, window, running, depths, seen,
                 samples, line>>

-----------------------------------------------------------------------------

Prefix(n) == FoldLeft(LAMBDA x, t : x + t.price, 0, SubSeq(trades, 1, n))

Eligible(k) == trades[k].volume >= MinQuantity

\* Mutant: one sample too many is kept.
RoomForOneMore == maxSamples = 0 \/ Len(samples) <= maxSamples

Room == maxSamples = 0 \/ Len(samples) < maxSamples

\* Without room, a draw decides which sample the new one replaces, if any.
TakeSample(slippage, slot) ==
  LET sample == [trade |-> i, volume |-> trades[i].volume, slippage |-> slippage,
                 reference |-> Prefix(i - 1) - Prefix(i - 1 - Lookback)]
  IN
  /\ pc = "samples" /\ i <= Len(trades) /\ Eligible(i)
  /\ seen' = seen + 1
  /\ IF Room THEN slot = seen + 1 /\ samples' = Append(samples, sample)
     ELSE /\ slot <= seen + 1
          /\ samples' = IF slot <= maxSamples THEN [samples EXCEPT ![slot] = sample]
                        ELSE samples
  /\ i' = i + 1
  /\ UNCHANGED <<pc, maxSamples, trades, malformed, window, running, depths, line>>

PassOver ==
  /\ pc = "samples" /\ i <= Len(trades) /\ ~Eligible(i)
  /\ i' = i + 1
  /\ UNCHANGED <<pc, maxSamples, trades, malformed, window, running, depths, seen,
                 samples, line>>

SamplesDone ==
  /\ pc = "samples" /\ i > Len(trades)
  /\ pc' = "fit"
  /\ UNCHANGED <<maxSamples, trades, malformed, i, window, running, depths, seen,
                 samples, line>>

-----------------------------------------------------------------------------

Total(f(_)) == FoldLeft(LAMBDA x, s : x + f(s), 0, samples)
SumV  == Total(LAMBDA s : s.volume)
SumS  == Total(LAMBDA s : s.slippage)
SumVV == Total(LAMBDA s : s.volume * s.volume)
SumVS == Total(LAMBDA s : s.volume * s.slippage)
Denominator == Len(samples) * SumVV - SumV * SumV

\* Least squares, then the two bounds: a negative gamma leaves the mean
\* slippage, a negative eta leaves the slope as it is.
FitEtaGamma ==
  LET n == Len(samples)
      slope == n * SumVS - SumV * SumS
      intercept == SumS * Denominator - slope * SumV
  IN IF slope < 0 THEN [eta |-> <<SumS, n>>, gamma |-> <<0, 1>>]
     ELSE [eta |-> <<Max({0, intercept}), n * Denominator>>,
           gamma |-> <<2 * slope, Denominator>>]

\* Fewer than two samples, or volumes that are all alike, cannot be fitted.
Fit ==
  /\ pc = "fit"
  /\ IF Len(samples) >= 2 /\ Denominator # 0
       THEN pc' = "done" /\ line' = FitEtaGamma
       ELSE pc' = "failed" /\ UNCHANGED line
  /\ UNCHANGED <<maxSamples, trades, malformed, i, window, running, depths, seen,
                 samples>>

Next ==
  \/ \E g \in Gaps, p \in Prices, v \in Volumes : LoadRow(g, p, v)
  \/ SkipRow \/ Loaded
  \/ ComputeDepth \/ DepthsDone
  \/ \E s \in Slippages, slot \in 1..MaxTrades : TakeSample(s, slot)
  \/ PassOver \/ SamplesDone
  \/ Fit

Spec == Init /\ [][Next]_vars

-----------------------------------------------------------------------------

(***************************************************************************)
(* A trade's depth is the volume of the trades before it that are at most  *)
(* a window old, its own excluded: no eviction makes the rolling sum drift *)
(* from that                                                               *)
(* (impact_calibration.cpp:284-304).                                       *)
(***************************************************************************)
DepthIsTrailingVolume ==
  \A k \in DOMAIN depths :
    depths[k] = MapThenSumSet(LAMBDA j : trades[j].volume,
                  {j \in 1..k - 1 : trades[k].time - trades[j].time <= Window})

(***************************************************************************)
(* The samples are of different trades, as many as the limit allows, each  *)
(* against the trades just before it and none of its own price             *)
(* (impact_calibration.cpp:320-392).                                       *)
(***************************************************************************)
SamplesAreDistinct ==
  /\ \A j, k \in DOMAIN samples : j # k => samples[j].trade # samples[k].trade
  /\ Len(samples) = IF maxSamples = 0 THEN seen ELSE Min({seen, maxSamples})
  /\ \A k \in DOMAIN samples :
       LET before == samples[k].trade - Lookback..samples[k].trade - 1
       IN /\ before \subseteq DOMAIN trades
          /\ samples[k].reference = MapThenSumSet(LAMBDA j : trades[j].price, before)

(***************************************************************************)
(* Both parameters are costs, and the fitted line is never below the       *)
(* samples on average: it meets their mean exactly unless eta was raised   *)
(* to zero (impact_calibration.cpp:395-432).                               *)
(***************************************************************************)
LineMeetsMean ==
  pc = "done" =>
    LET n == Len(samples)
        \* twice the sum of the predictions, over a common denominator
        predicted == 2 * n * line.eta[1] * line.gamma[2] + line.gamma[1] * SumV * line.eta[2]
        observed  == 2 * SumS * line.eta[2] * line.gamma[2]
    IN /\ line.eta[1] >= 0 /\ line.gamma[1] >= 0
       /\ predicted >= observed
       /\ line.eta[1] > 0 => predicted = observed

(***************************************************************************)
(* The calibration is of the file's trades: their depths, distinct samples *)
(* of them, and the line through those (impact_calibration.cpp:250-432).   *)
(***************************************************************************)
FitIsOfTheTrades == DepthIsTrailingVolume /\ SamplesAreDistinct /\ LineMeetsMean

=============================================================================
