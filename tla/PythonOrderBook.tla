--------------------------- MODULE PythonOrderBook ---------------------------
(***************************************************************************)
(* PythonOrderBook (python/backtester/order_book.py): the pure Python book *)
(* the backtester falls back to, with its iceberg, stop and pegged orders. *)
(* An order object lies in one price queue and may also be known to the    *)
(* side tables iceberg_state, stop_orders and pegged_orders, so queues and *)
(* tables hold ids and `orders` holds the objects.  Prices are integers in *)
(* a unit fine enough for every mid a run computes.  Ids are fresh.        *)
(***************************************************************************)
EXTENDS Integers, FiniteSets, Sequences, SequencesExt

CONSTANTS
  Shapes,      (* the orders callers submit, see Shape                     *)
  Sizes,       (* sizes of execute events                                  *)
  TradePrices, (* prices of trade events                                   *)
  MaxOrders,   (* bound: orders submitted                                  *)
  MaxEvents    (* bound: calls and events                                  *)

VARIABLES
  lob,       (* the book, see Book                                         *)
  fills,     (* the fills of the latest event                              *)
  latest,    (* history: the latest call or event                          *)
  events,    (* history: how many there were                               *)
  placed,    (* history: placed[id] is the order submitted under that id   *)
  filled,    (* history: filled[id] is what id executed while resting      *)
  cancelled  (* history: the ids cancelled                                 *)

vars == <<lob, fills, latest, events, placed, filled, cancelled>>

Side == {"BUY", "SELL"}
Opposite(s) == IF s = "BUY" THEN "SELL" ELSE "BUY"

Shape == [side : Side, type : {"LIMIT", "ICEBERG", "STOP", "PEGGED"}, price : Int,
          size : Nat, display : Nat, ref : {"BID", "ASK", "MID"}, offset : Int]

Better(s, p, q) == IF s = "BUY" THEN p > q ELSE p < q

\* _best_bid and _best_ask: the best price of a side, as a set of at most one.
Best(b, s) == {p \in DOMAIN b.queues[s] : \A q \in DOMAIN b.queues[s] : ~Better(s, q, p)}

Levels(b, s) == SetToSortSeq(DOMAIN b.queues[s], LAMBDA p, q : Better(s, p, q))

-----------------------------------------------------------------------------
(* Queues *)

Without(f, x) == Restrict(f, DOMAIN f \ {x})

\* The queue of a price is written; the price goes with its last order.
SetQueue(b, s, p, queue) ==
  [b EXCEPT !.queues[s] = IF queue = <<>> THEN Without(@, p) ELSE (p :> queue) @@ @]

QueueAt(b, s, p) == IF p \in DOMAIN b.queues[s] THEN b.queues[s][p] ELSE <<>>

\* setdefault(order.price, []).append(order)
Rest(b, id) ==
  LET o == b.orders[id]
  IN SetQueue(b, o.side, o.price, Append(QueueAt(b, o.side, o.price), id))

RemoveFromBook(b, id) ==
  LET o == b.orders[id]
  IN SetQueue(b, o.side, o.price, Remove(QueueAt(b, o.side, o.price), id))

\* An object nothing refers to any more.
Drop(b, id) == [b EXCEPT !.orders = Without(@, id), !.hidden = Without(@, id),
                         !.pegs = Remove(@, id)]

-----------------------------------------------------------------------------
(* enqueue and cancel *)

\* Mutant: a pegged price may pass the opposite best.
PegPriceUncapped(b, o) ==
  LET own  == Best(b, IF o.ref = "BID" THEN "BUY" ELSE "SELL")
      base == IF own = {} THEN o.price ELSE CHOOSE p \in own : TRUE
  IN base + o.offset

\* _peg_price
PegPrice(b, o) ==
  LET bid  == Best(b, "BUY")
      ask  == Best(b, "SELL")
      refs == CASE o.ref = "BID" -> bid
                [] o.ref = "ASK" -> ask
                [] o.ref = "MID" -> {(p + q) \div 2 : p \in bid, q \in ask}
      base == IF refs = {} THEN o.price ELSE CHOOSE p \in refs : TRUE
  IN IF o.side = "BUY" THEN Min({base + o.offset} \cup ask)
                       ELSE Max({base + o.offset} \cup bid)

\* What an iceberg shows and what it hides.
Iceberg(o) == LET visible == Min({o.display, o.size})
              IN [visible |-> visible, hidden |-> o.size - visible]

Enqueue(b, id, o) ==
  CASE o.type = "STOP" ->
         [b EXCEPT !.orders = (id :> o) @@ @, !.stops = Append(@, id)]
    [] o.type = "LIMIT" -> Rest([b EXCEPT !.orders = (id :> o) @@ @], id)
    [] o.type = "ICEBERG" ->
         Rest([b EXCEPT !.orders = (id :> [o EXCEPT !.size = Iceberg(o).visible]) @@ @,
                        !.hidden = (id :> Iceberg(o).hidden) @@ @], id)
    [] o.type = "PEGGED" ->
         Rest([b EXCEPT !.orders = (id :> [o EXCEPT !.price = PegPrice(b, o)]) @@ @,
                        !.pegs = Append(@, id)], id)

\* A pegged order is removed at its own price, any other wherever it is.
Cancel(b, id) ==
  IF id \in ToSet(b.pegs) THEN Drop(RemoveFromBook(b, id), id)
  ELSE Drop([b EXCEPT
         !.stops = Remove(@, id),
         !.queues = [s \in Side |->
            LET kept == [p \in DOMAIN b.queues[s] |-> Remove(b.queues[s][p], id)]
            IN Restrict(kept, {p \in DOMAIN kept : kept[p] # <<>>})]], id)

-----------------------------------------------------------------------------
(* _execute *)

\* _on_order_depleted: the next clip of an iceberg joins the end of the queue.
Depleted(b, s, p, id) ==
  LET queue == Remove(b.queues[s][p], id)
  IN IF id \in DOMAIN b.hidden /\ b.hidden[id] > 0
     THEN LET clip == Min({b.orders[id].display, b.hidden[id]})
          IN SetQueue([b EXCEPT !.hidden[id] = @ - clip, !.orders[id].size = clip],
                      s, p, Append(queue, id))
     ELSE Drop(SetQueue(b, s, p, queue), id)

\* One resting order is executed as far as the aggressor's size allows.
Take(sweep, s, p, id) ==
  LET take == Min({sweep.book.orders[id].size, sweep.left})
      cut  == [sweep.book EXCEPT !.orders[id].size = @ - take]
  IN IF take <= 0 THEN sweep
     ELSE [book  |-> IF cut.orders[id].size = 0 THEN Depleted(cut, s, p, id) ELSE cut,
           left  |-> sweep.left - take,
           fills |-> Append(sweep.fills, [id |-> id, size |-> take, flag |-> "MAKER"])]

\* Mutant: the worst price trades first.
SweepLevelsReversed(b, s) == Reverse(Levels(b, s))

SweepLevels(b, s) == Levels(b, s)

\* The loops run over copies: a clip replenished on the way waits for the
\* next sweep.  The price of the event is no limit, it is only reported.
Execute(b, size, side, price) ==
  LET s     == Opposite(side)
      Level(sweep, p) ==
        FoldLeft(LAMBDA acc, id : Take(acc, s, p, id), sweep, sweep.book.queues[s][p])
      swept == FoldLeft(Level, [book |-> b, left |-> size, fills |-> <<>>], SweepLevels(b, s))
  IN IF swept.left = size THEN swept
     ELSE [swept EXCEPT !.book.last = IF price > 0 THEN {price} ELSE {SweepLevels(b, s)[1]}]

-----------------------------------------------------------------------------
(* apply_event *)

\* Has the reference of a stop reached its trigger price?  The last trade is
\* the reference, the opposite best only as long as nothing has traded.
Reached(b, o) ==
  \E ref \in IF b.last # {} THEN b.last ELSE Best(b, Opposite(o.side)) :
    IF o.side = "BUY" THEN ref >= o.price ELSE ref <= o.price

\* A triggered stop sweeps and is reported filled in full.
Fire(acc, id) ==
  LET o     == acc.book.orders[id]
      swept == Execute(Drop([acc.book EXCEPT !.stops = Remove(@, id)], id), o.size, o.side, 0)
  IN [book  |-> swept.book,
      fills |-> acc.fills \o swept.fills \o <<[id |-> id, size |-> o.size, flag |-> "TAKER"]>>]

\* The stops to fire are chosen before the first of them executes.
TriggerStops(b) ==
  FoldLeft(Fire, [book |-> b, fills |-> <<>>], SelectSeq(b.stops, LAMBDA id : Reached(b, b.orders[id])))

\* Mutant: a repriced order also stays at its old price.
MoveTo(b, id, price) == Rest([b EXCEPT !.orders[id].price = price], id)

Move(b, id, price) == Rest([RemoveFromBook(b, id) EXCEPT !.orders[id].price = price], id)

RepricePegs(b) ==
  FoldLeft(LAMBDA acc, id :
             LET price == PegPrice(acc, acc.orders[id])
             IN IF price = acc.orders[id].price THEN acc ELSE Move(acc, id, price),
           b, b.pegs)

-----------------------------------------------------------------------------

Init ==
  /\ lob = [queues |-> [s \in Side |-> <<>>], orders |-> <<>>, hidden |-> <<>>,
            stops |-> <<>>, pegs |-> <<>>, last |-> {}]
  /\ fills = <<>> /\ latest = [op |-> "none"] /\ events = 0
  /\ placed = <<>> /\ filled = <<>> /\ cancelled = {}

Record(op) == events < MaxEvents /\ events' = events + 1 /\ latest' = op

FilledBy(id, fs) ==
  FoldLeft(LAMBDA sum, f : IF f.id = id /\ f.flag = "MAKER" THEN sum + f.size ELSE sum, 0, fs)

\* The end of apply_event, after the event itself has changed the book.
Applied(book, taken) ==
  LET fired == TriggerStops(book)
  IN /\ lob' = RepricePegs(fired.book)
     /\ fills' = taken \o fired.fills
     /\ filled' = [id \in DOMAIN placed' |->
                     (IF id \in DOMAIN filled THEN filled[id] ELSE 0) + FilledBy(id, fills')]

\* The backtester enqueues and cancels without an event.
Submit(o) ==
  /\ Len(placed) < MaxOrders
  /\ Record([op |-> "enqueue"])
  /\ placed' = Append(placed, o)
  /\ lob' = Enqueue(lob, Len(placed'), o)
  /\ fills' = <<>> /\ filled' = Append(filled, 0)
  /\ UNCHANGED cancelled

CancelOrder(id) ==
  /\ Record([op |-> "cancel"])
  /\ lob' = Cancel(lob, id)
  /\ fills' = <<>> /\ cancelled' = cancelled \cup {id}
  /\ UNCHANGED <<placed, filled>>

AddOrder(o) ==
  /\ Len(placed) < MaxOrders
  /\ Record([op |-> "add_order"])
  /\ placed' = Append(placed, o)
  /\ Applied(Enqueue(lob, Len(placed'), o), <<>>)
  /\ UNCHANGED cancelled

DeleteOrder(id) ==
  /\ Record([op |-> "delete_order"])
  /\ cancelled' = cancelled \cup {id}
  /\ UNCHANGED placed
  /\ Applied(Cancel(lob, id), <<>>)

ExecuteOrder(side, size, price) ==
  /\ Record([op |-> "execute_order", side |-> side, size |-> size])
  /\ UNCHANGED <<placed, cancelled>>
  /\ LET swept == Execute(lob, size, side, price) IN Applied(swept.book, swept.fills)

Trade(price) ==
  /\ Record([op |-> "trade"])
  /\ UNCHANGED <<placed, cancelled>>
  /\ Applied([lob EXCEPT !.last = {price}], <<>>)

Next ==
  \/ \E o \in Shapes : Submit(o) \/ AddOrder(o)
  \/ \E id \in DOMAIN lob.orders : CancelOrder(id) \/ DeleteOrder(id)
  \/ \E side \in Side, size \in Sizes, price \in {0} \cup TradePrices :
       ExecuteOrder(side, size, price)
  \/ \E price \in TradePrices : Trade(price)

Spec == Init /\ [][Next]_vars

-----------------------------------------------------------------------------
(* Properties *)

\* Type correctness of the book and of the history.
TypeOK ==
  /\ \A s \in Side : \A p \in DOMAIN lob.queues[s] :
       /\ p \in Int
       /\ lob.queues[s][p] \in Seq(DOMAIN placed) \ {<<>>}
  /\ DOMAIN lob.orders \subseteq DOMAIN placed
  /\ \A id \in DOMAIN lob.orders : lob.orders[id] \in Shape
  /\ ToSet(lob.stops) \cup ToSet(lob.pegs) \cup DOMAIN lob.hidden \subseteq DOMAIN placed
  /\ Cardinality(lob.last) <= 1
  /\ placed \in Seq(Shapes) /\ filled \in Seq(Nat) /\ Len(filled) = Len(placed)

\* How often the order lies in the queues of side s at price p.
Copies(id, s, p) == Cardinality({i \in DOMAIN lob.queues[s][p] : lob.queues[s][p][i] = id})

\* Every live order is in exactly one place: a stop in stop_orders only, any
\* other once in the queue of its own side and current price, although fills,
\* new clips and repricing keep moving it; a finished one is nowhere.
OrdersInOnePlace ==
  \A id \in DOMAIN placed :
    /\ \A s \in Side : \A p \in DOMAIN lob.queues[s] :
         Copies(id, s, p) =
           (IF /\ id \in DOMAIN lob.orders
               /\ placed[id].type # "STOP"
               /\ lob.orders[id].side = s /\ lob.orders[id].price = p THEN 1 ELSE 0)
    /\ (id \in DOMAIN lob.orders /\ placed[id].type # "STOP") =>
         lob.orders[id].price \in DOMAIN lob.queues[lob.orders[id].side]
    /\ Cardinality({i \in DOMAIN lob.stops : lob.stops[i] = id}) =
         (IF id \in DOMAIN lob.orders /\ placed[id].type = "STOP" THEN 1 ELSE 0)

\* iceberg_state and pegged_orders know exactly the resting orders of their
\* type: no entry outlives its order to give an order clips or moves that is
\* long gone.
TablesFollowBook ==
  /\ DOMAIN lob.hidden = {id \in DOMAIN lob.orders : placed[id].type = "ICEBERG"}
  /\ ToSet(lob.pegs) = {id \in DOMAIN lob.orders : placed[id].type = "PEGGED"}
  /\ IsInjective(lob.pegs)

\* What an order executed, shows and hides adds up to its size until it is
\* cancelled (invariants.md:18, iceberg replenishment): no clip is lost or
\* shown twice, and no order leaves before it is executed in full.
SizesConserved ==
  \A id \in DOMAIN placed \ cancelled : placed[id].type # "STOP" =>
    placed[id].size = filled[id]
      + (IF id \in DOMAIN lob.orders THEN lob.orders[id].size ELSE 0)
      + (IF id \in DOMAIN lob.hidden THEN lob.hidden[id] ELSE 0)

Events == {"add_order", "delete_order", "execute_order", "trade"}

\* After every event no pegged order is beyond the opposite best
\* (invariants.md:23-24), although the orders are repriced one after the
\* other and each against a book the next one still changes.
PegsNeverCross ==
  latest.op \in Events =>
    \A id \in ToSet(lob.pegs) : \A p \in Best(lob, Opposite(lob.orders[id].side)) :
      ~Better(lob.orders[id].side, lob.orders[id].price, p)

\* The fills an execution of `size` owes to what is visible when it starts:
\* price by price and in arrival order, each order what the ones before leave.
Visible(s) == FlattenSeq([i \in DOMAIN Levels(lob, s) |-> lob.queues[s][Levels(lob, s)[i]]])
Ahead(ids, k) == FoldLeft(LAMBDA sum, id : sum + lob.orders[id].size, 0, SubSeq(ids, 1, k - 1))
Owed(s, size) ==
  LET ids     == Visible(s)
      share   == [k \in DOMAIN ids |-> Min({lob.orders[ids[k]].size, size - Ahead(ids, k)})]
      served  == Cardinality({k \in DOMAIN ids : share[k] > 0})
  IN [k \in 1..served |-> [id |-> ids[k], size |-> share[k], flag |-> "MAKER"]]

\* An execution takes the quantities visible when it starts in price-time
\* priority, and what is hidden never jumps the queue (invariants.md:18-19):
\* a new clip waits for the next execution behind every order this one found
\* in the book, those of worse prices included.  What that does to price
\* priority is NoBetterPriceLeft's.
VisibleFirst ==
  [][ latest'.op = "execute_order" =>
        IsPrefix(Owed(Opposite(latest'.side), latest'.size), fills') ]_vars

\* order_book.py:3-5 says the Python book "preserves price-time priority
\* semantics": no order trades while a better price of its side still shows
\* quantity after the sweep.  (A clip shown during the sweep does:
\* order_book.py:150 iterates over a copy of the queue.)
NoBetterPriceLeft ==
  [][ latest'.op = "execute_order" /\ lob.stops = <<>> /\ lob.pegs = <<>> =>
        \A k \in DOMAIN fills' : LET o == lob.orders[fills'[k].id] IN
          \A p \in DOMAIN lob'.queues[o.side] : ~Better(o.side, p, o.price) ]_vars

\* However fills, new clips, triggers and repricing move them, every order
\* is accounted for: it is in one place, known to the tables of its kind,
\* and what it executed, shows and hides adds up to its size
\* (order_book.py:52-292).
OrdersAccounted == TypeOK /\ OrdersInOnePlace /\ TablesFollowBook /\ SizesConserved

=============================================================================
