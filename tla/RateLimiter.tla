----------------------------- MODULE RateLimiter -----------------------------
(***************************************************************************)
(* SlidingWindowRateLimiter by itself, driven by a clock that never goes   *)
(* back (the backtester passes its own clock, the time of the event being  *)
(* replayed), with the history of what it admitted and refused.            *)
(***************************************************************************)
EXTENDS SlidingWindow

CONSTANTS
  Steps,       (* how far the clock may move between two calls             *)
  MaxTime      (* bound: the last time at which allow is called            *)

ASSUME RateLimiterAssumption == Steps \subseteq Nat /\ MaxTime \in Nat

VARIABLES
  window,    (* _events                                                    *)
  admitted,  (* history: every time allow returned True                    *)
  now,       (* the clock at the latest call                               *)
  refused    (* did the latest call return False?                          *)

vars == <<window, admitted, now, refused>>

Init == window = <<>> /\ admitted = <<>> /\ now = 0 /\ refused = FALSE

Allow(step) ==
  /\ now' = now + step /\ now' <= MaxTime
  /\ window' = After(window, now')
  /\ refused' = ~Admits(window, now')
  /\ admitted' = IF refused' THEN admitted ELSE Append(admitted, now')

Reset ==
  /\ window' = <<>> /\ admitted' = <<>> /\ refused' = FALSE
  /\ UNCHANGED now

Next == Reset \/ \E step \in Steps : Allow(step)

Spec == Init /\ [][Next]_vars

-----------------------------------------------------------------------------

\* Type correctness; the deque never holds more than max_actions times.
TypeOK ==
  /\ window \in Seq(Nat) /\ Len(window) <= MaxActions
  /\ admitted \in Seq(Nat)
  /\ now \in Nat /\ refused \in BOOLEAN

\* allow never lets more than max_actions through in any interval_ns: an
\* action and the one max_actions later are at least an interval apart,
\* although the deque has forgotten the times it popped.
NeverTooMany ==
  \A i \in DOMAIN admitted :
    i + MaxActions \in DOMAIN admitted =>
      admitted[i + MaxActions] - admitted[i] >= Interval

\* And it refuses no more than that: when a call is refused, max_actions
\* admitted ones are less than an interval old.
RefusedOnlyAtLimit ==
  refused => /\ Len(admitted) >= MaxActions
             /\ now - admitted[Len(admitted) - MaxActions + 1] < Interval

=============================================================================
