------------------------------ MODULE OrderFlow ------------------------------
(***************************************************************************)
(* The one-dimensional point processes of order_flow/OrderFlow.cpp, which  *)
(* the C interface hands to Python: HawkesProcess::simulate with its two   *)
(* paths, a recursive one for the exponential kernel and one that sums     *)
(* over the whole history for any other, and PoissonProcess::simulate.     *)
(* Kernels are tables of the lag: the exponential one halves per unit of   *)
(* time, the power law is any table that does not increase.  Draws are     *)
(* external.                                                               *)
(***************************************************************************)
EXTENDS Integers, FiniteSets, Sequences, SequencesExt

CONSTANTS
  Kinds,    (* of "exponential", "power law", "poisson"                   *)
  BaseRate, (* mu                                                         *)
  Jump,     (* alpha of the exponential kernel                            *)
  PowerLaw, (* the power-law kernel for a unit mark, by lag               *)
  Marks,    (* marks the sampler may draw, positive                       *)
  Waits,    (* waiting times the exponential draw may give                *)
  Horizon   (* horizon                                                    *)

VARIABLES
  kind,       (* which process this is                                    *)
  pc,         (* loop, thin or done                                       *)
  time,       (* state.time                                               *)
  excitation, (* state.excitation, used by the exponential path only      *)
  candidate,  (* [time, excitation] of the candidate                      *)
  star,       (* lambda_star                                              *)
  stream      (* the EventStream, records [time, mark]                    *)

vars == <<kind, pc, time, excitation, candidate, star, stream>>

Init ==
  /\ kind \in Kinds
  /\ pc = "loop" /\ time = 0 /\ excitation = 0
  /\ candidate = [time |-> 0, excitation |-> 0]
  /\ star = 0 /\ stream = <<>>

\* HawkesKernel::evaluate.
Evaluate(lag, mark) ==
  IF lag < 0 THEN 0
  ELSE IF kind = "exponential" THEN (Jump * mark) \div 2 ^ lag ELSE PowerLaw[lag] * mark

HistorySum(t) == FoldLeft(LAMBDA x, e : x + Evaluate(t - e.time, e.mark), 0, stream)

\* compute_intensity: the exponential kernel needs no history.
Intensity(t, state) ==
  CASE kind = "exponential" -> Max({0, BaseRate + state})
    [] kind = "power law"   -> Max({0, BaseRate + HistorySum(t)})
    [] kind = "poisson"     -> BaseRate

Decay(state, wait) == state \div 2 ^ wait

Beyond(t) == t > Horizon

\* One turn of the loop: a candidate beyond the horizon ends it.
Draw(wait) ==
  /\ pc = "loop" /\ time < Horizon
  /\ star' = Intensity(time, excitation)
  /\ star' > 0
  /\ pc' = IF Beyond(time + wait) THEN "done" ELSE "thin"
  /\ candidate' = [time |-> time + wait,
                   excitation |-> IF kind = "exponential" THEN Decay(excitation, wait)
                                  ELSE excitation]
  /\ UNCHANGED <<kind, time, excitation, stream>>

\* The loop also ends at the horizon, or when nothing can happen any more.
Stop ==
  /\ pc = "loop"
  /\ time >= Horizon \/ Intensity(time, excitation) <= 0
  /\ pc' = "done"
  /\ UNCHANGED <<kind, time, excitation, candidate, star, stream>>

CandidateIntensity == Intensity(candidate.time, candidate.excitation)

Reject ==
  /\ pc = "thin" /\ kind # "poisson"
  /\ CandidateIntensity < star
  /\ time' = candidate.time /\ excitation' = candidate.excitation
  /\ pc' = "loop"
  /\ UNCHANGED <<kind, candidate, star, stream>>

\* EventStream::add refuses a time before the last one.
Addable(t) == t >= 0 /\ (stream # <<>> => t >= stream[Len(stream)].time)

Accept(mark) ==
  /\ pc = "thin"
  /\ CandidateIntensity > 0
  /\ IF Addable(candidate.time)
       THEN /\ stream' = Append(stream, [time |-> candidate.time, mark |-> mark])
            /\ pc' = "loop"
       ELSE pc' = "threw" /\ UNCHANGED stream
  /\ time' = candidate.time
  /\ excitation' = IF kind = "exponential" THEN candidate.excitation + Jump * mark
                   ELSE excitation
  /\ UNCHANGED <<kind, candidate, star>>

Next ==
  \/ \E w \in Waits : Draw(w)
  \/ Stop
  \/ Reject
  \/ \E m \in Marks : Accept(m)

Spec == Init /\ [][Next]_vars

-----------------------------------------------------------------------------

(***************************************************************************)
(* The recursive path of the exponential kernel and the path that sums     *)
(* over the history would give the same intensity at every step, through   *)
(* any number of rejected candidates (OrderFlow.cpp:330-357, 437-475).     *)
(***************************************************************************)
PathsAgree == kind = "exponential" => excitation = HistorySum(time)

(***************************************************************************)
(* With a kernel that does not increase, the intensity between events only *)
(* falls: no acceptance probability is above one, and std::clamp never     *)
(* hides a bound that was too low (OrderFlow.cpp:333-348, 362-375).        *)
(***************************************************************************)
ClampNeverNeeded == pc = "thin" => CandidateIntensity <= star

(***************************************************************************)
(* No simulation throws out of EventStream::add, and what it returns is in *)
(* order and within the horizon, which the C interface, that catches       *)
(* nothing, relies on (OrderFlow.cpp:16-29, 255-264; hawkes_c_api.cpp:97). *)
(***************************************************************************)
NeverThrows ==
  /\ pc # "threw"
  /\ \A k \in DOMAIN stream : stream[k].time \in 0..Horizon
  /\ pc = "loop" /\ stream # <<>> => stream[Len(stream)].time <= time

(***************************************************************************)
(* The thinning is exact on both paths and gives a stream that can be      *)
(* returned (OrderFlow.cpp:320-394).                                       *)
(***************************************************************************)
ThinningIsExact == PathsAgree /\ ClampNeverNeeded /\ NeverThrows

=============================================================================
