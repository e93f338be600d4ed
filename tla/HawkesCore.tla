----------------------------- MODULE HawkesCore -----------------------------
(***************************************************************************)
(* ExponentialHawkesProcess of hawkes_core.cpp, the simulator's event      *)
(* source: Ogata's thinning over excitations that are kept recursively, in *)
(* two buffers that are swapped when a candidate time is taken.  The decay *)
(* constant is chosen so that an excitation halves in one unit of time,    *)
(* and excitations are multiples of a power of two that the horizon cannot *)
(* use up: every number is exact.  What the random generator draws is      *)
(* external.                                                               *)
(***************************************************************************)
EXTENDS Integers, FiniteSets, Sequences, SequencesExt

CONSTANTS
  Dims,      (* dimensions, 0..d-1                                        *)
  BaseRates, (* the mu vectors to run with, functions on Dims             *)
  Alpha,     (* Alpha[i][j]: what an event of j adds to i per unit mark   *)
  Marks,     (* marks the sampler may draw                                *)
  Waits,     (* waiting times the exponential draw may give               *)
  Horizon    (* bound: no candidate is drawn once time has reached it      *)

VARIABLES
  pc,          (* idle between calls, wait or thin within one, failed     *)
  mu,          (* base rates                                              *)
  time,        (* time_                                                   *)
  exc,         (* excitation_                                             *)
  lambda,      (* lambda_                                                 *)
  candExc,     (* candidate_excitation_, stale between iterations         *)
  candLambda,  (* candidate_lambda_, likewise                             *)
  candTime,    (* candidate_time                                          *)
  star,        (* lambda_star, the thinning bound                         *)
  events       (* the events returned so far                              *)

vars == <<pc, mu, time, exc, lambda, candExc, candLambda, candTime, star, events>>

Sum(f) == MapThenSumSet(LAMBDA i : f[i], Dims)
Zero == [i \in Dims |-> [j \in Dims |-> 0]]

Init ==
  /\ pc = "idle" /\ mu \in BaseRates /\ time = 0
  /\ exc = Zero /\ lambda = mu
  /\ candExc = Zero /\ candLambda = [i \in Dims |-> 0] /\ candTime = 0
  /\ star = 0 /\ events = <<>>

TotalIntensity(rates) == Sum(rates)

\* sample_next: without any intensity there is nothing to wait for.
Begin ==
  /\ pc = "idle" /\ time < Horizon
  /\ star' = TotalIntensity(lambda)
  /\ pc' = IF star' > 0 THEN "wait" ELSE "failed"
  /\ UNCHANGED <<mu, time, exc, lambda, candExc, candLambda, candTime, events>>

\* Mutant: the candidate buffer is decayed without being refreshed.
RefreshedNever(current, candidate) == candidate

\* The candidate buffer starts each iteration as a copy of the state.
Refreshed(current, candidate) == current

Decayed(state, wait) == [i \in Dims |-> [j \in Dims |-> state[i][j] \div 2 ^ wait]]

Candidate(wait) ==
  /\ pc = "wait" /\ time < Horizon
  /\ candTime' = time + wait
  /\ candExc' = Decayed(Refreshed(exc, candExc), wait)
  /\ candLambda' = [i \in Dims |-> mu[i] + Sum(candExc'[i])]
  /\ pc' = "thin"
  /\ UNCHANGED <<mu, time, exc, lambda, star, events>>

\* Both outcomes move the clock and swap the two buffers.  A rejected
\* candidate's intensity is the next bound.
Reject ==
  /\ pc = "thin"
  /\ TotalIntensity(candLambda) < star
  /\ star' = TotalIntensity(candLambda)
  /\ time' = candTime
  /\ exc' = candExc /\ candExc' = exc
  /\ lambda' = candLambda /\ candLambda' = lambda
  /\ pc' = "wait"
  /\ UNCHANGED <<mu, candTime, events>>

Accept(dim, mark) ==
  /\ pc = "thin"
  /\ candLambda[dim] > 0
  /\ time' = candTime
  /\ exc' = [i \in Dims |-> [candExc[i] EXCEPT ![dim] = @ + Alpha[i][dim] * mark]]
  /\ candExc' = exc
  /\ lambda' = [i \in Dims |-> candLambda[i] + Alpha[i][dim] * mark]
  /\ candLambda' = lambda
  /\ events' = Append(events, [time |-> candTime, dim |-> dim, mark |-> mark,
                               total |-> TotalIntensity(lambda'), own |-> lambda'[dim]])
  /\ pc' = "idle"
  /\ UNCHANGED <<mu, candTime, star>>

Next ==
  \/ Begin
  \/ \E w \in Waits : Candidate(w)
  \/ Reject
  \/ \E d \in Dims, m \in Marks : Accept(d, m)

Spec == Init /\ [][Next]_vars

-----------------------------------------------------------------------------

\* The contribution of dimension j to the intensity of i, from the history.
KernelSum(i, j) ==
  MapThenSumSet(LAMBDA k : (Alpha[i][j] * events[k].mark) \div 2 ^ (time - events[k].time),
                {k \in DOMAIN events : events[k].dim = j})

(***************************************************************************)
(* However many candidates were rejected in between and whichever buffer   *)
(* now holds the state, the recursive excitations are the sums over the    *)
(* whole history that define the process, and the intensities follow from  *)
(* them (hawkes_core.cpp:199-298).                                         *)
(***************************************************************************)
ExcitationIsKernelSum ==
  pc # "failed" =>
    \A i \in Dims :
      /\ \A j \in Dims : exc[i][j] = KernelSum(i, j)
      /\ lambda[i] = mu[i] + Sum(exc[i])

(***************************************************************************)
(* Thinning is sound: the intensity at a candidate time never exceeds the  *)
(* bound it is compared with, so that the acceptance ratio is a            *)
(* probability (hawkes_core.cpp:189, 245-258, 289-298).                    *)
(***************************************************************************)
BoundDominates == pc = "thin" => Sum(candLambda) <= star

(***************************************************************************)
(* The thinning is exact: the recursive state is the history's, and the    *)
(* bound is one (hawkes_core.cpp:184-299).                                 *)
(***************************************************************************)
ThinningIsExact == ExcitationIsKernelSum /\ BoundDominates

=============================================================================
