---------------------------- MODULE SimulatorCore ----------------------------
(***************************************************************************)
(* SimulatorCore::run, the single-threaded engine: a Hawkes event is       *)
(* sampled, given a random latency and queued; every queued event that is  *)
(* ready by then becomes a market order against a synthetic book, which is *)
(* topped up after each trade; the execution engine books what it cost.    *)
(* Prices are ticks relative to kMidPrice, quantities at a price are       *)
(* summed (time priority inside a level is the book's own affair), costs   *)
(* are in half ticks times lots and slippage in fractions of a half tick   *)
(* per lot, so that every sum is exact.  The source and the latency        *)
(* distribution are external: any wait, any side.                          *)
(***************************************************************************)
EXTENDS FiniteSets, SequencesExt, Series

CONSTANTS
  Session,         (* session_length                                      *)
  Waits,           (* what the source may let pass before the next event  *)
  Delays,          (* what the latency model may add to an event          *)
  EventLimits,     (* the values of max_events to run with; 0 is none     *)
  SeedDepth,       (* levels each side is seeded with                     *)
  BaseQuantity,    (* quantity at the first seeded level                  *)
  OrderSize,       (* aggressive_order_size                               *)
  Aggressiveness   (* base_aggressiveness                                 *)

VARIABLES
  pc,          (* where run() is: sample, flush, final or done            *)
  maxEvents,   (* config_.max_events                                      *)
  clock,       (* time of the latest sampled event                        *)
  limit,       (* the time_limit of the flush under way                   *)
  queue,       (* the latency queue, by what it promises: a set           *)
  book,        (* book[side][i]: what rests at its i-th best price        *)
  arrivals,    (* result.arrivals, in order                               *)
  executions,  (* result.executions, in order                             *)
  totals,      (* the execution engine's cumulative costs                 *)
  summary,     (* what update_summary_metrics leaves in the result        *)
  generated    (* every event queued so far, for the properties           *)

vars == <<pc, maxEvents, clock, limit, queue, book, arrivals, executions,
          totals, summary, generated>>

Side == {"Buy", "Sell"}
Opposite(s) == IF s = "Buy" THEN "Sell" ELSE "Buy"
Sign(s) == IF s = "Buy" THEN 1 ELSE -1

\* The prices of a side, best first: from SeedDepth ticks beyond the mid price
\* to SeedDepth ticks behind it.
Levels == 1..2 * SeedDepth + 1
Price(s, i) == Sign(s) * (SeedDepth + 1 - i)
At(s, price) == SeedDepth + 1 - Sign(s) * price

Resting(side) == {i \in Levels : side[i] > 0}

Quantity == Max({1, OrderSize})

\* Level k of either side lies k ticks behind the mid price and holds k more
\* than the base quantity; the two first levels meet at the mid price.
Seeded(b) ==
  [s \in Side |-> [i \in Levels |->
     LET k == i - At(s, 0)
     IN b[s][i] + (IF k \in 0..SeedDepth - 1 THEN BaseQuantity + k ELSE 0)]]

\* What a side is seeded with in all.
SeedQuantity == BaseQuantity * SeedDepth + (SeedDepth * (SeedDepth - 1)) \div 2

\* What a market order of this quantity takes of each of the levels it meets:
\* what the better ones leave of it.
Taken(side, quantity) ==
  [i \in Levels |-> Max({0, Min({side[i], quantity - Running(side)[i - 1]})})]

\* The order's reference price, doubled: the mid of the best prices, the
\* one best price there is, or kMidPrice.
Reference(b) ==
  LET quoted  == {s \in Side : Resting(b[s]) # {}}
      best(s) == Price(s, Min(Resting(b[s])))
  IN IF quoted = Side THEN best("Buy") + best("Sell")
     ELSE IF quoted = {} THEN 0
     ELSE 2 * best(CHOOSE s \in Side : s \in quoted)

\* After a buy, asks one tick above the mid; after a sell, bids one below.
Replenished(b, s, quantity) ==
  [b EXCEPT ![Opposite(s)][At(Opposite(s), Sign(s))] = @ + quantity]

\* ExecutionEngine::record_execution for the fills an order got.
Execution(s, reference, fills) ==
  LET filled    == Total(fills)
      notional  == Total([i \in Levels |-> 2 * Price(Opposite(s), i) * fills[i]])
      shortfall == Sign(s) * (notional - reference * filled)
      temporary == filled * Max({0, Aggressiveness})
      permanent == filled * filled
  IN [side |-> s, reference |-> reference, filled |-> filled,
      shortfall |-> shortfall, temporary |-> temporary, permanent |-> permanent,
      cost |-> shortfall + temporary + permanent]

-----------------------------------------------------------------------------

NoSlippage == [num |-> 0, den |-> 1]

NoSummary == [span |-> 0, gaps |-> 0, slippage |-> NoSlippage, cost |-> 0]

Init ==
  /\ pc = "sample"
  /\ maxEvents \in EventLimits
  /\ clock = 0 /\ limit = 0 /\ queue = {}
  /\ book = Seeded([s \in Side |-> [i \in Levels |-> 0]])
  /\ arrivals = <<>> /\ executions = <<>>
  /\ totals = [cost |-> 0, temporary |-> 0, permanent |-> 0, shortfall |-> 0]
  /\ summary = NoSummary /\ generated = {}

\* The loop samples one event more than the session holds: it is queued and
\* the queue is flushed before its time is looked at.
Sample(wait, side, delay) ==
  LET event == [id |-> Cardinality(generated) + 1, raw |-> clock + wait,
                ready |-> clock + wait + delay, side |-> side] IN
  /\ pc = "sample" /\ clock < Session
  /\ clock' = clock + wait
  /\ queue' = queue \cup {event}
  /\ generated' = generated \cup {event}
  /\ limit' = clock + wait
  /\ pc' = "flush"
  /\ UNCHANGED <<maxEvents, book, arrivals, executions, totals, summary>>

SessionOver ==
  /\ pc = "sample" /\ clock >= Session
  /\ pc' = "final"
  /\ limit' = Session
  /\ UNCHANGED <<maxEvents, clock, queue, book, arrivals, executions, totals,
                 summary, generated>>

Flushing == pc \in {"flush", "final"}

\* Mutant: any event that is ready is taken.
IsFrontAny(event) == event.ready <= limit

\* May this event be the front of the latency queue, and is it ready?
IsFront(event) == event.ready <= limit /\ \A e \in queue : event.ready <= e.ready

\* An event that is ready only after the session is dropped.
Skip(event) ==
  /\ Flushing /\ IsFront(event) /\ event.ready > Session
  /\ queue' = queue \ {event}
  /\ UNCHANGED <<pc, maxEvents, clock, limit, book, arrivals, executions, totals,
                 summary, generated>>

LimitReached(count) == maxEvents > 0 /\ count >= maxEvents

\* The market order of one ready event: the reference price is read, the
\* order is matched, matched again over a freshly seeded book if it got
\* nothing, liquidity is put back, and the cost is recorded.
Trade(event) ==
  LET opp    == Opposite(event.side)
      first  == Taken(book[opp], Quantity)
      before == IF Total(first) = 0 THEN Seeded(book) ELSE book
      fills  == Taken(before[opp], Quantity)
      after  == [before EXCEPT ![opp] = [i \in Levels |-> @[i] - fills[i]]]
      exec   == Execution(event.side, Reference(book), fills)
  IN
  /\ Flushing /\ IsFront(event) /\ event.ready <= Session
  /\ queue' = queue \ {event}
  /\ book' = Replenished(after, event.side, Quantity)
  /\ executions' = Append(executions, exec)
  /\ totals' = [f \in DOMAIN totals |-> totals[f] + exec[f]]
  /\ arrivals' = Append(arrivals, event)
  /\ pc' = IF LimitReached(Len(arrivals) + 1) THEN "report" ELSE pc
  /\ UNCHANGED <<maxEvents, clock, limit, summary, generated>>

FlushDone ==
  /\ Flushing /\ \A e \in queue : e.ready > limit
  /\ pc' = IF pc = "final" THEN "report" ELSE IF clock > Session THEN "final" ELSE "sample"
  /\ limit' = IF pc = "flush" /\ clock > Session THEN Session ELSE limit
  /\ UNCHANGED <<maxEvents, clock, queue, book, arrivals, executions, totals,
                 summary, generated>>

\* One figure of every execution.
Column(figure) == [i \in 1..Len(executions) |-> executions[i][figure]]

\* The executions' slippage, per unit and each counted once, as a fraction.
Slippage ==
  LET sum[i \in 0..Len(executions)] ==
        IF i = 0 THEN NoSlippage
        ELSE LET units == Max({1, executions[i].filled}) IN
             [num |-> sum[i - 1].num * units + executions[i].shortfall * sum[i - 1].den,
              den |-> sum[i - 1].den * units]
  IN sum[Len(executions)]

\* The sums behind the reported means: gaps of positive length between
\* successive arrivals, and the executions' slippage and cost.  With fewer
\* than two arrivals nothing is summed.
Summary ==
  LET gap  == [i \in 1..Len(arrivals) - 1 |-> arrivals[i + 1].ready - arrivals[i].ready]
      gaps == [i \in 1..Len(arrivals) - 1 |-> Max({0, gap[i]})]
  IN IF Len(arrivals) < 2 THEN NoSummary
     ELSE [span |-> Total(gaps), gaps |-> Cardinality({i \in DOMAIN gap : gap[i] > 0}),
           slippage |-> Slippage, cost |-> Total(Column("cost"))]

Report ==
  /\ pc = "report"
  /\ summary' = Summary
  /\ pc' = "done"
  /\ UNCHANGED <<maxEvents, clock, limit, queue, book, arrivals, executions, totals,
                 generated>>

Next ==
  \/ \E w \in Waits, s \in Side, d \in Delays : Sample(w, s, d)
  \/ SessionOver
  \/ \E e \in queue : Skip(e) \/ Trade(e)
  \/ FlushDone
  \/ Report

Spec == Init /\ [][Next]_vars

-----------------------------------------------------------------------------

(***************************************************************************)
(* A run that is over has recorded, in the order they became ready, every  *)
(* event that was ready within the session; one that stopped at max_events *)
(* has recorded exactly that many and none that was ready later than an    *)
(* event it left (simulator_core.cpp:116-246).                             *)
(***************************************************************************)
ReadyInTimeIsRecorded ==
  pc = "done" =>
    LET seen   == {arrivals[i] : i \in DOMAIN arrivals}
        inTime == {e \in generated : e.ready <= Session}
    IN /\ Cardinality(seen) = Len(arrivals)
       /\ \A i \in 1..Len(arrivals) - 1 : arrivals[i].ready <= arrivals[i + 1].ready
       /\ seen \subseteq inTime
       /\ maxEvents > 0 => Len(arrivals) <= maxEvents
       /\ \/ seen = inTime
          \/ /\ Len(arrivals) = maxEvents
             /\ \A e \in inTime \ seen, a \in seen : a.ready <= e.ready

(***************************************************************************)
(* No trade is better than its reference price: seeding and replenishment  *)
(* never cross the book, so no slippage is negative and the shortfall a    *)
(* session reports is a cost (simulator_core.cpp:135-192).                 *)
(***************************************************************************)
NeverBetterThanReference == \A i \in DOMAIN executions : executions[i].shortfall >= 0

(***************************************************************************)
(* Replenishment puts back at least what a trade took, on the side it was  *)
(* taken from: neither side ever holds less than it was seeded with, and   *)
(* an order is filled in full whenever it is not larger than that          *)
(* (simulator_core.cpp:69-88, 156-192).                                    *)
(***************************************************************************)
LiquidityKept ==
  /\ \A s \in Side : Total(book[s]) >= SeedQuantity
  /\ \A i \in DOMAIN executions :
       executions[i].filled \in Min({Quantity, SeedQuantity})..Quantity

(***************************************************************************)
(* With two arrivals or more, the gaps the mean inter-arrival time is      *)
(* taken over span the whole recorded session, and the summed execution    *)
(* costs are the engine's running totals.  The summed slippage is per      *)
(* unit: times the quantity of an order it is the engine's shortfall when  *)
(* every order is filled in full, and never less                           *)
(* (simulator_core.cpp:248-317).                                           *)
(***************************************************************************)
SummaryAgrees ==
  pc = "done" /\ Len(arrivals) > 1 =>
    /\ summary.span = arrivals[Len(arrivals)].ready - arrivals[1].ready
    /\ Min({Quantity, SeedQuantity}) * summary.slippage.num
         <= totals.shortfall * summary.slippage.den
    /\ totals.shortfall * summary.slippage.den <= Quantity * summary.slippage.num
    /\ summary.cost = totals.shortfall + totals.temporary + totals.permanent

(***************************************************************************)
(* What a session reports is what happened in it: every event ready in     *)
(* time, none out of order, each at a cost against a book that keeps its   *)
(* liquidity (simulator_core.cpp:90-317).                                  *)
(***************************************************************************)
SessionIsAccounted ==
  ReadyInTimeIsRecorded /\ NeverBetterThanReference /\ LiquidityKept /\ SummaryAgrees

=============================================================================
