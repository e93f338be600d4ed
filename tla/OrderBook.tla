----------------------------- MODULE OrderBook -----------------------------
(***************************************************************************)
(* The C++ limit order book of src/OrderBook.{hpp,cpp}: a node pool with a *)
(* free list, one FlatBook per side (a sorted vector of price levels and   *)
(* an index from price to position), and the locator table that makes      *)
(* cancel-by-id O(1).  A level's linked list is the sequence of its nodes. *)
(***************************************************************************)
EXTENDS Integers, FiniteSets, Sequences, SequencesExt

CONSTANTS
  Ids,         (* order ids (non-negative, so the locator table keeps them)*)
  Nodes,       (* bound: the nodes the pool may ever hand out              *)
  RawPrices,   (* prices callers pass, in units of 1/PriceScale tick       *)
  PriceScale,  (* raw price units per tick                                 *)
  Quantities,  (* quantities callers pass to addLimitOrder and match       *)
  UniqueIds    (* the ids callers never use while an order with it rests   *)

ASSUME OrderBookAssumption ==
  /\ PriceScale \in Nat \ {0}
  /\ RawPrices \subseteq Nat
  /\ Quantities \subseteq Nat
  /\ UniqueIds \subseteq Ids

VARIABLES
  data,     (* the pool: data[n] is the order in the acquired node n; the  *)
            (* nodes outside its domain are the free list                  *)
  entries,  (* entries[s]: the levels of side s, best price first          *)
  index,    (* index[s]: price -> position of its level in entries[s]      *)
  locator,  (* locator[id]: where the order with that id rests             *)
  fills     (* the fills the latest operation returned, in execution order *)

vars == <<data, entries, index, locator, fills>>

Side == {"Buy", "Sell"}
Opposite(s) == IF s = "Buy" THEN "Sell" ELSE "Buy"

\* llround(price * kPriceScale): the nearest tick, halves away from zero.
ToTicks(raw) == (2 * raw + PriceScale) \div (2 * PriceScale)
Ticks == {ToTicks(raw) : raw \in RawPrices}

\* Mutant: both sides are sorted from the lowest price.
CompLess(s, p, q) == p < q

\* The comparator of the side's FlatBook (std::greater for bids).
Comp(s, p, q) == IF s = "Buy" THEN p > q ELSE p < q

NoLocator == [active |-> FALSE]
Locator(s, p, n) == [active |-> TRUE, side |-> s, price |-> p, node |-> n]

-----------------------------------------------------------------------------
(* FlatBook, on a record [entries, index] of one side *)

FlatBook(s) == [entries |-> entries[s], index |-> index[s]]

\* Positions from `start` on are written to the index again.
RefreshIndices(es, idx, start) ==
  [p \in DOMAIN idx \cup {es[i].price : i \in start..Len(es)} |->
     IF \E i \in start..Len(es) : es[i].price = p
     THEN CHOOSE i \in start..Len(es) : es[i].price = p
     ELSE idx[p]]

\* The scan stops at the first level that does not come before p.
FindInsertPos(s, es, p) ==
  CHOOSE i \in 1..(Len(es) + 1) :
    /\ \A j \in 1..(i - 1) : Comp(s, es[j].price, p)
    /\ i \in DOMAIN es => ~Comp(s, es[i].price, p)

EmptyLevel(p) == [price |-> p, queue |-> <<>>, total |-> 0]

LevelFor(s, fb, p) ==
  IF p \in DOMAIN fb.index THEN fb
  ELSE LET pos == FindInsertPos(s, fb.entries, p)
           es  == InsertAt(fb.entries, pos, EmptyLevel(p))
       IN [entries |-> es, index |-> RefreshIndices(es, fb.index, pos)]

\* Mutant: the levels that moved up keep their old index.
EraseNoRefresh(fb, p) ==
  IF p \notin DOMAIN fb.index \/ fb.entries[fb.index[p]].queue # <<>> THEN fb
  ELSE [entries |-> RemoveAt(fb.entries, fb.index[p]),
        index   |-> Restrict(fb.index, DOMAIN fb.index \ {p})]

EraseIfEmpty(fb, p) ==
  IF p \notin DOMAIN fb.index \/ fb.entries[fb.index[p]].queue # <<>> THEN fb
  ELSE LET pos == fb.index[p]
           es  == RemoveAt(fb.entries, pos)
       IN [entries |-> es,
           index   |-> RefreshIndices(es, Restrict(fb.index, DOMAIN fb.index \ {p}), pos)]

\* OrderPool: acquire stores the order in a free node, release gives it back.
Acquire(pool, n, order) == [m \in DOMAIN pool \cup {n} |-> IF m = n THEN order ELSE pool[m]]
Release(pool, n) == Restrict(pool, DOMAIN pool \ {n})

\* PriceLevel::append, and remove, of a node that carries `qty`.
LevelAppend(level, n, qty) == [level EXCEPT !.queue = Append(@, n), !.total = @ + qty]

LevelRemove(level, n, qty) ==
  [level EXCEPT !.queue = RemoveFirst(@, n), !.total = Max({0, @ - qty})]

\* Mutants: the locator outlives its order; erasing an id truncates the table.
ForgetNothing(table, id) == table
ForgetFrom(table, id) == [i \in DOMAIN table |-> IF i >= id THEN NoLocator ELSE table[i]]

\* LocatorTable::erase.
Forget(table, id) == [table EXCEPT ![id] = NoLocator]

-----------------------------------------------------------------------------
(* The sweep of OrderBook::match *)

Accepts(s, limit, p) ==
  \/ limit = 0
  \/ s = "Buy" /\ p <= limit
  \/ s = "Sell" /\ p >= limit

Executed(order, remaining) == Min({order.qty, remaining})

\* The loop's `if (executed <= 0)`: a node with nothing to give stays.
PassedOver(executed) == executed <= 0

\* One node of a level: acc is the sweep so far, [remaining, data,
\* locator, level, fills].  A node with nothing to give is passed over; an
\* exhausted one leaves the locator table and the level, and goes to the pool.
FillNode(acc, n) ==
  LET order    == acc.data[n]
      executed == Executed(order, acc.remaining)
      filled   == order.qty - executed = 0
      level    == [acc.level EXCEPT !.total = Max({0, @ - executed})]
  IN IF PassedOver(executed) THEN acc
     ELSE [remaining |-> acc.remaining - executed,
           data      |-> IF filled THEN Release(acc.data, n)
                                   ELSE [acc.data EXCEPT ![n].qty = @ - executed],
           fills     |-> Append(acc.fills, [id |-> order.id, tick |-> level.price,
                                            qty |-> executed]),
           locator   |-> IF filled THEN Forget(acc.locator, order.id) ELSE acc.locator,
           level     |-> IF filled THEN LevelRemove(level, n, 0) ELSE level]

\* A level's queue, node after node from the head.
FillNodes(acc, queue) ==
  LET after[k \in 0..Len(queue)] ==
        IF k = 0 THEN acc ELSE FillNode(after[k - 1], queue[k])
  IN after

\* One level: its nodes, then the level itself if it emptied.
FillLevel(acc, p) ==
  LET pos   == acc.fb.index[p]
      level == acc.fb.entries[pos]
      swept == FillNodes([remaining |-> acc.remaining, data |-> acc.data,
                          locator |-> acc.locator, fills |-> acc.fills, level |-> level],
                         level.queue)[Len(level.queue)]
      fb    == [acc.fb EXCEPT !.entries[pos] = swept.level]
  IN [remaining |-> swept.remaining, data |-> swept.data,
      locator |-> swept.locator, fills |-> swept.fills,
      fb |-> IF acc.remaining = 0 THEN fb ELSE EraseIfEmpty(fb, p)]

\* The levels, price after price.
FillLevels(acc, prices) ==
  LET after[k \in 0..Len(prices)] ==
        IF k = 0 THEN acc ELSE FillLevel(after[k - 1], prices[k])
  IN after

\* The prices the loop visits: the leading levels up to the first refusal.
Reachable(s, limit) ==
  LET es == entries[Opposite(s)] IN
  LET n == Cardinality({i \in DOMAIN es :
                          \A j \in 1..i : Accepts(s, limit, es[j].price)})
  IN [i \in 1..n |-> es[i].price]

-----------------------------------------------------------------------------
(* Operations *)

Init ==
  /\ data = <<>>
  /\ entries = [s \in Side |-> <<>>]
  /\ index = [s \in Side |-> <<>>]
  /\ locator = [id \in Ids |-> NoLocator]
  /\ fills = <<>>

Resting(s) == UNION {ToSet(entries[s][i].queue) : i \in DOMAIN entries[s]}
RestingNodes == Resting("Buy") \cup Resting("Sell")

\* Ids, quantities and prices are the caller's; the book checks none of them.
\* That some node is free is a bound: the real pool grows by a block instead.
AddLimitOrder(id, s, raw, qty, node) ==
  LET price == ToTicks(raw)
      fb    == LevelFor(s, FlatBook(s), price)
      pos   == fb.index[price]
  IN /\ node \notin DOMAIN data
     /\ id \in UniqueIds => \A n \in RestingNodes : data[n].id # id
     /\ data' = Acquire(data, node, [id |-> id, qty |-> qty])
     /\ entries' = [entries EXCEPT ![s] =
          [fb.entries EXCEPT ![pos] = LevelAppend(@, node, qty)]]
     /\ index' = [index EXCEPT ![s] = fb.index]
     /\ locator' = [locator EXCEPT ![id] = Locator(s, price, node)]
     /\ fills' = <<>>

\* cancel returns false, and changes nothing, when the id has no active
\* locator or the locator's price has no level.
Cancel(id) ==
  LET loc == locator[id]
      pos == index[loc.side][loc.price]
      fb  == [FlatBook(loc.side) EXCEPT !.entries[pos] =
                LevelRemove(@, loc.node, data[loc.node].qty)]
      rest == EraseIfEmpty(fb, loc.price)
  IN /\ loc.active
     /\ loc.price \in DOMAIN index[loc.side]
     /\ entries' = [entries EXCEPT ![loc.side] = rest.entries]
     /\ index' = [index EXCEPT ![loc.side] = rest.index]
     /\ data' = Release(data, loc.node)
     /\ locator' = Forget(locator, id)
     /\ fills' = <<>>

Match(s, raw, quantity) ==
  LET opp   == Opposite(s)
      limit == IF raw > 0 THEN ToTicks(raw) ELSE 0
      prices == Reachable(s, limit)
      swept == FillLevels([remaining |-> quantity, data |-> data,
                           locator |-> locator, fills |-> <<>>, fb |-> FlatBook(opp)],
                          prices)[Len(prices)]
  IN /\ data' = swept.data
     /\ locator' = swept.locator
     /\ fills' = swept.fills
     /\ entries' = [entries EXCEPT ![opp] = swept.fb.entries]
     /\ index' = [index EXCEPT ![opp] = swept.fb.index]

Next ==
  \/ \E id \in Ids, s \in Side, raw \in RawPrices \ {0}, qty \in Quantities,
        node \in Nodes :
       AddLimitOrder(id, s, raw, qty, node)
  \/ \E id \in Ids : Cancel(id)
  \/ \E s \in Side, raw \in RawPrices \cup {0}, quantity \in Quantities :
       Match(s, raw, quantity)

Spec == Init /\ [][Next]_vars

-----------------------------------------------------------------------------
(* Properties *)

\* Type correctness of the five variables.
TypeOK ==
  /\ DOMAIN data \subseteq Nodes
  /\ \A n \in DOMAIN data : data[n] \in [id : Ids, qty : Nat]
  /\ \A s \in Side : entries[s] \in Seq([price : Ticks, queue : Seq(Nodes), total : Nat])
  /\ \A s \in Side : DOMAIN index[s] \subseteq Ticks
  /\ \A id \in Ids : \/ locator[id] = NoLocator
                     \/ /\ locator[id].side \in Side
                        /\ locator[id].price \in Ticks
                        /\ locator[id].node \in Nodes

\* The sorted vector and its index agree after every insertion and erasure:
\* levels are strictly ordered best first, none is empty, and index is exactly
\* the inverse of the positions (FlatBook's levelFor, eraseIfEmpty and
\* refreshIndices; a stale position would send an order to another price).
FlatBookConsistent ==
  \A s \in Side :
    /\ \A i, j \in DOMAIN entries[s] :
         i < j => Comp(s, entries[s][i].price, entries[s][j].price)
    /\ \A i \in DOMAIN entries[s] : entries[s][i].queue # <<>>
    /\ DOMAIN index[s] = {entries[s][i].price : i \in DOMAIN entries[s]}
    /\ \A i \in DOMAIN entries[s] : index[s][entries[s][i].price] = i

\* What the first orders of a queue show, and what all of them do.
ShownUpTo(pool, queue) ==
  LET sum[k \in 0..Len(queue)] == IF k = 0 THEN 0 ELSE sum[k - 1] + pool[queue[k]].qty
  IN sum

Shown(pool, queue) == ShownUpTo(pool, queue)[Len(queue)]

\* A level's cached totalQuantity, kept by append, remove and the fill loop,
\* is the sum of what its orders still show.
TotalsAgree ==
  \A s \in Side : \A i \in DOMAIN entries[s] :
    entries[s][i].total = Shown(data, entries[s][i].queue)

\* Every acquired node rests in exactly one queue, exactly once: match and
\* cancel release each node they unlink, and none that is still linked.
PoolPartition ==
  /\ RestingNodes = DOMAIN data
  /\ \A s \in Side : \A i \in DOMAIN entries[s] : IsInjective(entries[s][i].queue)
  /\ \A s, t \in Side : \A i \in DOMAIN entries[s], j \in DOMAIN entries[t] :
       ToSet(entries[s][i].queue) \cap ToSet(entries[t][j].queue) # {} => s = t /\ i = j

\* cancel() trusts the locator's raw pointer: an active locator must lead to
\* a node that rests, under that id, in the level it names.  Holds even when
\* the caller reuses the id of a resting order.
LocatorNeverDangles ==
  \A id \in Ids : locator[id].active =>
    LET loc == locator[id] IN
    /\ loc.price \in DOMAIN index[loc.side]
    /\ loc.node \in ToSet(entries[loc.side][index[loc.side][loc.price]].queue)
    /\ data[loc.node].id = id

\* Cancel-by-id reaches every resting order whose id callers do not reuse,
\* whatever they do with other ids.
EveryOrderCancellable ==
  \A n \in RestingNodes : data[n].id \in UniqueIds =>
    locator[data[n].id].active /\ locator[data[n].id].node = n

\* The flat book, the pool and the locator implement the abstract book: the
\* sweep loop executes exactly what price-time priority gives each order.
QueueAt(s, p) ==
  IF p \in {entries[s][i].price : i \in DOMAIN entries[s]}
  THEN LET e == entries[s][CHOOSE i \in DOMAIN entries[s] : entries[s][i].price = p]
       IN [k \in DOMAIN e.queue |-> data[e.queue[k]]]
  ELSE <<>>

Abstract == INSTANCE LimitBook WITH
  book   <- [s \in Side |-> [p \in Ticks |-> QueueAt(s, p)]],
  trades <- ToSet(fills),
  Limits <- {0} \cup Ticks

ImplementsLimitBook == Abstract!Spec

\* The redundant structures of the book agree after every operation: the
\* level vectors and their indices, the cached totals, the pool and the
\* locator table, and so every order that rests can be cancelled
\* (OrderBook.hpp:91-253, OrderBook.cpp:71-150).
BookConsistent ==
  /\ TypeOK
  /\ FlatBookConsistent
  /\ TotalsAgree
  /\ PoolPartition
  /\ LocatorNeverDangles
  /\ EveryOrderCancellable

=============================================================================
