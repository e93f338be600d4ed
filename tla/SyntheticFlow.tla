--------------------------- MODULE SyntheticFlow ---------------------------
(***************************************************************************)
(* The order flows the stress tools replay and the validator that watches  *)
(* them: the Poisson generator with its quote-stuffing bursts              *)
(* (synthetic.py), the uniform flow of run_order_book_stress (stress.py),  *)
(* and the JSONL logs check_logs.py reads back, which may hold any record. *)
(* Time between messages is external, and so is every draw of the random   *)
(* generator: a burst may start, end or recycle an order whenever the code *)
(* asks for a draw.  Sizes are integers; half of MinSize is rounded down.  *)
(***************************************************************************)
EXTENDS Integers, FiniteSets, Sequences, SequencesExt

CONSTANTS
  Sources,      (* of "poisson", "uniform", "log"                         *)
  MinSize,      (* config.min_size                                        *)
  MaxSize,      (* config.max_size                                        *)
  NoId,         (* what stands for an id that is missing                  *)
  LogIds,       (* ids a log record may carry, NoId among them            *)
  LogSizes,     (* sizes a log record may carry                           *)
  Steps,        (* time between two messages; a log's may be negative     *)
  MessageCount  (* message_count                                          *)

-----------------------------------------------------------------------------
(***************************************************************************)
(* SequenceValidator.observe, the streaming check that an order flow makes *)
(* sense: it keeps the remaining size of every order it takes for live and *)
(* counts what does not fit.  An event is [type, id, size, time]; NoId     *)
(* stands for a payload without an integer order id.                       *)
(***************************************************************************)

Fresh == [active |-> <<>>, last |-> -1, maxGap |-> 0, monotonic |-> TRUE,
          orphanCancels |-> 0, orphanExecutes |-> 0, duplicates |-> 0,
          errors |-> 0, count |-> 0]

Drop(active, id) == [k \in DOMAIN active \ {id} |-> active[k]]
Store(active, id, size) == [k \in DOMAIN active \cup {id} |->
                              IF k = id THEN size ELSE active[k]]

\* The part every event goes through: the count and the time stamps.
Timed(v, event) ==
  LET gap == event.time - v.last IN
  [v EXCEPT !.count = @ + 1, !.last = event.time,
            !.monotonic = @ /\ (v.last = -1 \/ gap >= 0),
            !.errors = IF v.last # -1 /\ gap < 0 THEN @ + 1 ELSE @,
            !.maxGap = IF v.last # -1 THEN Max({@, gap}) ELSE @]

\* A duplicate is reported, and its size then replaces the older one.
Added(v, event) ==
  IF event.id = NoId THEN [v EXCEPT !.errors = @ + 1]
  ELSE LET dup == IF event.id \in DOMAIN v.active THEN 1 ELSE 0 IN
       [v EXCEPT !.duplicates = @ + dup, !.errors = @ + dup,
                 !.active = Store(@, event.id, event.size)]

Deleted(v, event) ==
  IF event.id \notin DOMAIN v.active
    THEN [v EXCEPT !.orphanCancels = @ + 1, !.errors = @ + 1]
    ELSE [v EXCEPT !.active = Drop(@, event.id)]

\* An execution larger than what is left counts as one of what is left.
Executed(v, event) ==
  IF event.id \notin DOMAIN v.active
    THEN [v EXCEPT !.orphanExecutes = @ + 1, !.errors = @ + 1]
    ELSE LET remaining == Max({0, v.active[event.id] - event.size}) IN
         [v EXCEPT !.active = IF remaining = 0 THEN Drop(@, event.id)
                              ELSE Store(@, event.id, remaining)]

Observe(v, event) ==
  LET timed == Timed(v, event) IN
  CASE event.type = "add_order"     -> Added(timed, event)
    [] event.type = "delete_order"  -> Deleted(timed, event)
    [] event.type = "execute_order" -> Executed(timed, event)
    [] OTHER                        -> timed

Ok(v) == v.monotonic /\ v.errors = 0

-----------------------------------------------------------------------------
(***************************************************************************)
(* The same judgement made over a whole history, without running state.    *)
(***************************************************************************)

\* Is order id live just before the i-th event: is there a latest addition
\* that nothing after it has deleted or executed in full?
Live(history, id, i) ==
  \E j \in 1..i - 1 :
    LET later == {k \in j + 1..i - 1 : history[k].id = id}
        execs == {k \in later : history[k].type = "execute_order"}
    IN /\ history[j].type = "add_order" /\ history[j].id = id
       /\ \A k \in later : history[k].type \notin {"add_order", "delete_order"}
       /\ MapThenSumSet(LAMBDA k : history[k].size, execs) < history[j].size

\* How many reports the i-th event deserves.
Anomalies(history, i) ==
  LET event == history[i]
      backwards == i > 1 /\ event.time < history[i - 1].time
      misfit == \/ event.type = "add_order" /\ (event.id = NoId \/ Live(history, event.id, i))
                \/ /\ event.type \in {"delete_order", "execute_order"}
                   /\ (event.id = NoId \/ ~Live(history, event.id, i))
  IN (IF backwards THEN 1 ELSE 0) + (IF misfit THEN 1 ELSE 0)

AllAnomalies(history) ==
  MapThenSumSet(LAMBDA i : Anomalies(history, i), DOMAIN history)

-----------------------------------------------------------------------------
(* The flows.                                                                *)

VARIABLES
  source,   (* which of the flows this is                                 *)
  v,        (* the validator's state                                      *)
  active,   (* the generator's _active_orders: id -> remaining size       *)
  burst,    (* is a burst on?                                             *)
  burstIds, (* _burst_state.active_ids, oldest first                      *)
  settled,  (* has this iteration decided about the burst?                *)
  clock,    (* time stamp of the next message                             *)
  nextId,   (* next id of _order_id_seq                                   *)
  history   (* the messages so far                                        *)

vars == <<source, v, active, burst, burstIds, settled, clock, nextId, history>>

Init ==
  /\ source \in Sources
  /\ v = Fresh /\ active = <<>>
  /\ burst = FALSE /\ burstIds = <<>> /\ settled = FALSE
  /\ clock = 0 /\ nextId = 1 /\ history = <<>>

Going == Len(history) < MessageCount

\* Every message is observed by the validator before it is used.
Emit(type, id, size) ==
  LET event == [type |-> type, id |-> id, size |-> size, time |-> clock] IN
  /\ v' = Observe(v, event)
  /\ history' = Append(history, event)
  /\ settled' = FALSE

-----------------------------------------------------------------------------
(***************************************************************************)
(* PoissonOrderFlowGenerator.stream: one iteration moves the clock, may    *)
(* start a burst if none is on or end the one that is, and builds a        *)
(* message.                                                                *)
(***************************************************************************)

Arrive(step, starts, ends) ==
  /\ source = "poisson" /\ Going /\ ~settled
  /\ step > 0
  /\ starts => ~burst /\ DOMAIN active # {}
  /\ ends => burst
  /\ clock' = clock + step
  /\ burst' = ((burst /\ ~ends) \/ starts)
  /\ burstIds' = IF starts THEN <<>> ELSE burstIds
  /\ settled' = TRUE
  /\ UNCHANGED <<source, v, active, nextId, history>>

\* Orders of a burst are at most two and a half times the smallest size.
Sizes(inBurst) == MinSize..(IF inBurst THEN Min({MaxSize, (5 * MinSize) \div 2}) ELSE MaxSize)

BuildAdd(size) ==
  /\ source = "poisson" /\ settled
  /\ size \in Sizes(burst)
  /\ active' = Store(active, nextId, size)
  /\ burstIds' = IF burst THEN Append(burstIds, nextId) ELSE burstIds
  /\ nextId' = nextId + 1
  /\ Emit("add_order", nextId, size)
  /\ UNCHANGED <<source, burst, clock>>

\* Mutant: a recycled order stays in the burst's list.
WithoutNever(ids, id) == ids

Without(ids, id) == SelectSeq(ids, LAMBDA k : k # id)

\* In a burst only orders of the burst make a cancel possible, but the order
\* chosen may be the burst's oldest or any live order.
BuildCancel(id) ==
  /\ source = "poisson" /\ settled
  /\ DOMAIN active # {}
  /\ burst => burstIds # <<>>
  /\ \/ id \in DOMAIN active
     \/ burst /\ id = burstIds[1]
  /\ active' = Drop(active, id)
  /\ burstIds' = Without(burstIds, id)
  /\ Emit("delete_order", id, 0)
  /\ UNCHANGED <<source, burst, clock, nextId>>

\* random.uniform takes its bounds in either order: the lower bound exceeds
\* what remains once that is below half the smallest size.
Between(a, b) == Min({a, b})..Max({a, b})

\* What is live after an execution left `remaining` of the order.
Left(id, remaining) ==
  IF remaining <= 0 THEN Drop(active, id) ELSE Store(active, id, remaining)

\* Executions are drawn only outside bursts.
BuildExecute(id, size) ==
  /\ source = "poisson" /\ settled /\ ~burst
  /\ id \in DOMAIN active
  /\ size \in Between(Max({MinSize \div 2, active[id] \div 4, 1}), active[id])
  /\ active' = Left(id, active[id] - size)
  /\ Emit("execute_order", id, size)
  /\ UNCHANGED <<source, burst, burstIds, clock, nextId>>

-----------------------------------------------------------------------------
(***************************************************************************)
(* run_order_book_stress without a Poisson configuration: each message     *)
(* adds an order, or cancels or executes in full a live one.               *)
(***************************************************************************)

UniformAdd(size) ==
  /\ source = "uniform" /\ Going
  /\ active' = Store(active, nextId, size)
  /\ nextId' = nextId + 1
  /\ clock' = clock + 1
  /\ Emit("add_order", nextId, size)
  /\ UNCHANGED <<source, burst, burstIds>>

UniformClose(type, id) ==
  /\ source = "uniform" /\ Going
  /\ active' = Drop(active, id)
  /\ clock' = clock + 1
  /\ Emit(type, id, active[id])
  /\ UNCHANGED <<source, burst, burstIds, nextId>>

-----------------------------------------------------------------------------
(***************************************************************************)
(* analyse_log: orders, cancels and fills are handed to the validator as   *)
(* they come, control violations and other records are not.                *)
(***************************************************************************)

Mapped(recordType) ==
  CASE recordType = "order"  -> "add_order"
    [] recordType = "cancel" -> "delete_order"
    [] recordType = "fill"   -> "execute_order"

ReadRecord(recordType, id, size, step) ==
  /\ source = "log" /\ Going
  /\ clock + step >= 0
  /\ clock' = clock + step
  /\ LET event == [type |-> Mapped(recordType), id |-> id, size |-> size,
                   time |-> clock + step]
     IN v' = Observe(v, event) /\ history' = Append(history, event)
  /\ UNCHANGED <<source, active, burst, burstIds, settled, nextId>>

Next ==
  \/ \E s \in Steps, starts, ends \in BOOLEAN : Arrive(s, starts, ends)
  \/ \E n \in Sizes(burst) : BuildAdd(n)
  \/ \E id \in DOMAIN active \cup Range(burstIds) : BuildCancel(id)
  \/ \E id \in DOMAIN active, n \in 1..MaxSize : BuildExecute(id, n)
  \/ \E n \in LogSizes : UniformAdd(n)
  \/ \E id \in DOMAIN active : UniformClose("delete_order", id) \/ UniformClose("execute_order", id)
  \/ \E r \in {"order", "cancel", "fill"}, id \in LogIds, n \in LogSizes, s \in Steps :
       ReadRecord(r, id, n, s)

Spec == Init /\ [][Next]_vars

-----------------------------------------------------------------------------

(***************************************************************************)
(* What the generators produce always passes the validator, and the        *)
(* validator's remaining sizes are the generator's own: executions larger  *)
(* than what remains are clamped alike by both (synthetic.py:400-404,      *)
(* 176-182).  docs/stress_tests.md:17 reports zero anomalies in every run. *)
(***************************************************************************)
FlowAccepted == source # "log" => Ok(v) /\ v.active = active

(***************************************************************************)
(* A burst never recycles an order that is gone: its list holds live       *)
(* orders only, so every cancel names a live order with its side and price *)
(* (synthetic.py:351-363).                                                 *)
(***************************************************************************)
BurstOrdersAreLive == burst => Range(burstIds) \subseteq DOMAIN active

(***************************************************************************)
(* On any sequence of records the streaming validator reports exactly the  *)
(* anomalies a reading of the whole history finds, no more and no fewer,   *)
(* whatever was reported before (synthetic.py:105-182).                    *)
(***************************************************************************)
AnomaliesCounted == v.errors = AllAnomalies(history)

(***************************************************************************)
(* Generated flow is valid, and the validator that says so misses nothing  *)
(* in flows that are not (synthetic.py:91-433).                            *)
(***************************************************************************)
FlowIsValid == FlowAccepted /\ BurstOrdersAreLive /\ AnomaliesCounted

=============================================================================
