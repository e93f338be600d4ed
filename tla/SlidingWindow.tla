---------------------------- MODULE SlidingWindow ----------------------------
(***************************************************************************)
(* The deque of SlidingWindowRateLimiter (risk_controls.py): the times of  *)
(* the admitted actions that may still matter, oldest first.               *)
(***************************************************************************)
EXTENDS Integers, Sequences

CONSTANTS
  MaxActions,  (* config.max_actions                                       *)
  Interval     (* config.interval_ns                                       *)

ASSUME SlidingWindowAssumption ==
  /\ MaxActions \in Nat \ {0}
  /\ Interval \in Nat \ {0}

\* Mutant: an action exactly one interval old still counts.
OutlivedLate(t, now) == now - t > Interval

\* Mutant: an action expires one time unit early.
OutlivedEarly(t, now) == now - t >= Interval - 1

\* Has an action admitted at time t left the window?
Outlived(t, now) == now - t >= Interval

\* How many entries `allow` pops: the longest leading run that has left.
Expired(window, now) ==
  CHOOSE k \in 0..Len(window) :
    /\ \A j \in 1..k : Outlived(window[j], now)
    /\ k < Len(window) => ~Outlived(window[k + 1], now)

Pruned(window, now) == SubSeq(window, Expired(window, now) + 1, Len(window))

\* The answer of allow(now).
Admits(window, now) == Len(Pruned(window, now)) < MaxActions

\* The deque after allow(now).
After(window, now) ==
  IF Admits(window, now) THEN Append(Pruned(window, now), now) ELSE Pruned(window, now)

=============================================================================
