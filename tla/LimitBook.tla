----------------------------- MODULE LimitBook -----------------------------
(***************************************************************************)
(* What the C++ limit order book promises, said without its data           *)
(* structures: for every side and price a queue of orders in arrival       *)
(* order.  A sweep gives each resting order the part of the aggressor's    *)
(* quantity that the orders ahead of it leave over, in closed form, so     *)
(* price-time priority is the definition and not the result of a loop.     *)
(***************************************************************************)
EXTENDS Integers, FiniteSets, Sequences, SequencesExt, Series

CONSTANTS
  Ids,         (* order ids the caller may use                             *)
  Ticks,       (* integer price ticks an order may rest at                 *)
  Quantities,  (* order and aggressor quantities                           *)
  Limits,      (* limit ticks an aggressor may give; 0 is a market order   *)
  UniqueIds    (* the ids no two orders share                              *)

Side == {"Buy", "Sell"}
Opposite(s) == IF s = "Buy" THEN "Sell" ELSE "Buy"

\* Is tick p strictly ahead of tick q in the priority of side s?
Better(s, p, q) == IF s = "Buy" THEN p > q ELSE p < q

\* May an aggressor on side s with this limit trade at tick p?
Accepts(s, limit, p) ==
  \/ limit = 0
  \/ s = "Buy" /\ p <= limit
  \/ s = "Sell" /\ p >= limit

VARIABLES
  book,   (* book[s][p]: the queue of [id, qty] resting at tick p          *)
  trades  (* the fills of the latest operation, a set of [id, tick, qty]  *)

vars == <<book, trades>>

QuantitiesOf(queue) == [i \in DOMAIN queue |-> queue[i].qty]
Depth(queue) == Total(QuantitiesOf(queue))

\* The ticks with orders that come before tick p.
Before(s, p) == {q \in Ticks : book[s][q] # <<>> /\ Better(s, q, p)}

\* The quantity that rests before each tick: what rests at the last of the
\* ticks before it, and what rests before that one.
Ahead(s) ==
  LET ahead[p \in Ticks] ==
        IF Before(s, p) = {} THEN 0
        ELSE LET last == CHOOSE q \in Before(s, p) :
                           \A r \in Before(s, p) : r = q \/ Better(s, r, q)
             IN ahead[last] + Depth(book[s][last])
  IN ahead

\* What the i-th order of a queue gives a sweep with `left` to execute at its
\* tick: the orders before it give first.
Given(queue, left, i) ==
  Min({queue[i].qty, Max({0, left - Running(QuantitiesOf(queue))[i - 1]})})

\* What the first orders of a queue leave behind.  An order leaves only when
\* it is executed, and in full.
Remainder(queue, left) ==
  LET rest[i \in 0..Len(queue)] ==
        IF i = 0 THEN <<>>
        ELSE IF Given(queue, left, i) > 0 /\ Given(queue, left, i) = queue[i].qty
             THEN rest[i - 1]
             ELSE Append(rest[i - 1], [queue[i] EXCEPT !.qty = @ - Given(queue, left, i)])
  IN rest

\* What the first n orders of a queue at tick p execute.
Executed(queue, left, p, n) ==
  {[id |-> queue[i].id, tick |-> p, qty |-> Given(queue, left, i)] :
     i \in {j \in 1..n : Given(queue, left, j) > 0}}

-----------------------------------------------------------------------------

Init ==
  /\ book = [s \in Side |-> [p \in Ticks |-> <<>>]]
  /\ trades = {}

Add(id, s, p, qty) ==
  /\ book' = [book EXCEPT ![s][p] = Append(@, [id |-> id, qty |-> qty])]
  /\ trades' = {}

Cancel(id) ==
  /\ \E s \in Side, p \in Ticks : \E i \in DOMAIN book[s][p] :
       /\ book[s][p][i].id = id
       /\ book' = [book EXCEPT ![s][p] = RemoveAt(@, i)]
  /\ trades' = {}

\* A cancel that finds no order.  It finds every order that has its id alone.
Refuse(id) ==
  /\ id \in UniqueIds =>
       \A s \in Side, p \in Ticks : \A i \in DOMAIN book[s][p] : book[s][p][i].id # id
  /\ UNCHANGED book
  /\ trades' = {}

Sweep(s, limit, quantity) ==
  LET opp      == Opposite(s)
      queue(p) == book[opp][p]
      left(p)  == quantity - Ahead(opp)[p]
  IN /\ book' = [book EXCEPT ![opp] =
          [p \in Ticks |-> IF Accepts(s, limit, p)
                           THEN Remainder(queue(p), left(p))[Len(queue(p))]
                           ELSE queue(p)]]
     /\ trades' = UNION {Executed(queue(p), left(p), p, Len(queue(p))) :
                           p \in {q \in Ticks : Accepts(s, limit, q)}}

Next ==
  \/ \E id \in Ids, s \in Side, p \in Ticks, qty \in Quantities : Add(id, s, p, qty)
  \/ \E id \in Ids : Cancel(id) \/ Refuse(id)
  \/ \E s \in Side, limit \in Limits, quantity \in Quantities :
       Sweep(s, limit, quantity)

Spec == Init /\ [][Next]_vars

=============================================================================
