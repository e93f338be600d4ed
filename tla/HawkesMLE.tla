----------------------------- MODULE HawkesMLE -----------------------------
(***************************************************************************)
(* Calibration of the exponential Hawkes process (hawkes_mle.cpp) and the  *)
(* tool that runs it (hawkes_mle_cli.cpp).  The likelihood's recursion is  *)
(* modelled on the events themselves, with a decay that halves per unit of *)
(* time; the optimiser's control on a small set of parameter points,       *)
(* numbered by increasing log-likelihood, of which an environment decides  *)
(* which have a small gradient and which are stationary.  The direction    *)
(* and the curvature updates only choose where the line search looks: any  *)
(* point may be tried.                                                     *)
(***************************************************************************)
EXTENDS Integers, FiniteSets, Sequences, SequencesExt

CONSTANTS
  Points,         (* 1..n: parameter points by log-likelihood             *)
  MaxIterations,  (* max_iterations of the first fit, less than a retry's *)
  MaxLineSearch,  (* max_line_search_steps                                *)
  Marks,          (* marks of events, multiples of 2 ^ Span               *)
  Span,           (* latest event time                                    *)
  MaxEvents       (* bound: events of a replicate                         *)

VARIABLES
  data,        (* the replicate's events, records [time, mark]            *)
  flat,        (* points whose gradient norm is within tolerance          *)
  stationary,  (* points whose branching ratio is below the maximum       *)
  pc,          (* events, fit, search, fitted or done                    *)
  attempt,     (* first, retry or alternate                               *)
  fit,         (* the fit under way: [at, trajectory, iterations, tries]  *)
  converged,   (* of the fit under way                                    *)
  kept         (* the first fit's result, then what the summary will say  *)

vars == <<data, flat, stationary, pc, attempt, fit, converged, kept>>

-----------------------------------------------------------------------------
(***************************************************************************)
(* exponential_hawkes_loglikelihood: K is what the events before the i-th  *)
(* contribute to its intensity per unit alpha, G the derivative of K by    *)
(* beta, both carried from event to event.                                 *)
(***************************************************************************)

Carried(state, dt) ==
  LET base == state.k + state.mark IN
  [k |-> base \div 2 ^ dt, g |-> (state.g - dt * base) \div 2 ^ dt]

\* The recursion's value at the latest event.
Recursion ==
  LET step(state, event) ==
        LET c == IF state.seen THEN Carried(state, event.time - state.time)
                 ELSE [k |-> 0, g |-> 0]
        IN [seen |-> TRUE, time |-> event.time, mark |-> event.mark, k |-> c.k, g |-> c.g]
  IN FoldLeft(step, [seen |-> FALSE, time |-> 0, mark |-> 0, k |-> 0, g |-> 0], data)

-----------------------------------------------------------------------------

NoFit == [at |-> 0, trajectory |-> <<>>, iterations |-> 0, tries |-> 0]
NoResult == [at |-> 0, converged |-> FALSE, from |-> "none"]

Init ==
  /\ data = <<>> /\ flat = {} /\ stationary = {}
  /\ pc = "events" /\ attempt = "first" /\ fit = NoFit
  /\ converged = FALSE /\ kept = NoResult

\* The process is simulated: events in order of time.
Simulated(time, mark) ==
  /\ pc = "events" /\ Len(data) < MaxEvents
  /\ data # <<>> => time >= data[Len(data)].time
  /\ data' = Append(data, [time |-> time, mark |-> mark])
  /\ UNCHANGED <<flat, stationary, pc, attempt, fit, converged, kept>>

EnforceStationarity == attempt = "first"

\* evaluate_theta gives a valid likelihood.
Valid(p) == EnforceStationarity => p \in stationary

\* The default guess is scaled down to half the largest branching ratio.
Calibrate(p, small, below) ==
  /\ pc = "events"
  /\ p \in below
  /\ flat' = small /\ stationary' = below
  /\ pc' = "fit"
  /\ fit' = [at |-> p, trajectory |-> <<p>>, iterations |-> 0, tries |-> 0]
  /\ UNCHANGED <<data, attempt, converged, kept>>

IterationLimit == IF attempt = "first" THEN MaxIterations ELSE MaxIterations + 1

\* Head of the loop: out of iterations, at a small gradient, or a search.
Iterate ==
  /\ pc = "fit"
  /\ LET over == fit.iterations >= IterationLimit
         small == fit.at \in flat
     IN /\ pc' = IF over \/ small THEN "fitted" ELSE "search"
        /\ converged' = (~over /\ small)
  /\ fit' = [fit EXCEPT !.tries = 0]
  /\ UNCHANGED <<data, flat, stationary, attempt, kept>>

\* A valid point with a sufficiently higher likelihood.
Sufficient(p) == Valid(p) /\ p > fit.at

Searching == pc = "search" /\ fit.tries < MaxLineSearch

\* The step is too long: shrink it.
Backtrack(p) ==
  /\ Searching /\ ~Sufficient(p)
  /\ fit' = [fit EXCEPT !.tries = @ + 1]
  /\ UNCHANGED <<data, flat, stationary, pc, attempt, converged, kept>>

\* The candidate is taken; the fit ends here if the gradient is small and
\* the parameters hardly moved.
Take(p, near) ==
  /\ Searching /\ Sufficient(p)
  /\ fit' = [fit EXCEPT !.at = p, !.trajectory = Append(@, p), !.iterations = @ + 1]
  /\ converged' = (p \in flat /\ near)
  /\ pc' = IF p \in flat /\ near THEN "fitted" ELSE "fit"
  /\ UNCHANGED <<data, flat, stationary, attempt, kept>>

GiveUp ==
  /\ pc = "search" /\ fit.tries >= MaxLineSearch
  /\ pc' = "fitted"
  /\ UNCHANGED <<data, flat, stationary, attempt, fit, converged, kept>>

Result == [at |-> fit.at, converged |-> converged, from |-> attempt]

\* Mutant: the last fit is kept whatever became of it.
KeepLast == TRUE

\* The first result is kept unless a later fit converged.
Keep == attempt = "first" \/ converged

\* A retry starts where the first fit stopped, the alternate anywhere; both
\* may leave the stationary region, and their tolerance is looser.
Finish(p, looser) ==
  /\ pc = "fitted"
  /\ kept' = IF Keep THEN Result ELSE kept
  /\ IF converged \/ attempt = "alternate"
       THEN pc' = "done" /\ UNCHANGED <<flat, attempt, fit, converged>>
       ELSE /\ attempt' = IF attempt = "first" THEN "retry" ELSE "alternate"
            /\ flat' = flat \cup looser
            /\ pc' = "fit"
            /\ fit' = [at |-> IF attempt = "first" THEN fit.at ELSE p,
                       trajectory |-> <<IF attempt = "first" THEN fit.at ELSE p>>,
                       iterations |-> 0, tries |-> 0]
            /\ converged' = FALSE
  /\ UNCHANGED <<data, stationary>>

Next ==
  \/ \E t \in 0..Span, m \in Marks : Simulated(t, m)
  \/ \E p \in Points, small, below \in SUBSET Points : Calibrate(p, small, below)
  \/ Iterate
  \/ \E p \in Points : Backtrack(p) \/ (\E near \in BOOLEAN : Take(p, near))
  \/ GiveUp
  \/ \E p \in Points, looser \in SUBSET Points : Finish(p, looser)

Spec == Init /\ [][Next]_vars

-----------------------------------------------------------------------------

(***************************************************************************)
(* The carried K and G are the sums over all earlier events that define    *)
(* the intensity and its derivative by beta, simultaneous events included  *)
(* (hawkes_mle.cpp:255-303).                                               *)
(***************************************************************************)
RecursionIsDoubleSum ==
  data # <<>> =>
    LET last == data[Len(data)].time
        lag(j) == last - data[j].time
        earlier == 1..Len(data) - 1
    IN /\ Recursion.k = MapThenSumSet(LAMBDA j : data[j].mark \div 2 ^ lag(j), earlier)
       /\ Recursion.g = -MapThenSumSet(LAMBDA j : lag(j) * (data[j].mark \div 2 ^ lag(j)), earlier)

(***************************************************************************)
(* A fit only climbs: its trajectory has one point more than it reports    *)
(* iterations and each is likelier than the one before, so that a retry,   *)
(* which starts where the first fit stopped, is kept only if it is at      *)
(* least as likely (hawkes_mle.cpp:339-452, hawkes_mle_cli.cpp:206-216).   *)
(***************************************************************************)
FitClimbs ==
  /\ fit.trajectory # <<>> => Len(fit.trajectory) = fit.iterations + 1
  /\ \A i \in 1..Len(fit.trajectory) - 1 : fit.trajectory[i] < fit.trajectory[i + 1]

(***************************************************************************)
(* What the summary reports as converged has a small gradient; what it     *)
(* reports with a branching ratio at or above the maximum is a converged   *)
(* unconstrained refit, never the constrained fit nor one that failed      *)
(* (hawkes_mle_cli.cpp:206-233).                                           *)
(***************************************************************************)
SummaryIsJustified ==
  pc = "done" =>
    /\ kept.converged => kept.at \in flat
    /\ kept.at \notin stationary => kept.converged /\ kept.from # "first"

(***************************************************************************)
(* What a calibration reports is justified: its likelihood is the          *)
(* process's, its fits climb, and what is kept of several attempts is what *)
(* they allow (hawkes_mle.cpp:204-452, hawkes_mle_cli.cpp:200-247).        *)
(***************************************************************************)
CalibrationIsJustified == RecursionIsDoubleSum /\ FitClimbs /\ SummaryIsJustified

=============================================================================
