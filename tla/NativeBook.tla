----------------------------- MODULE NativeBook -----------------------------
(***************************************************************************)
(* CppOrderBook (python/backtester/order_book.py): the backtester's        *)
(* adapter around the C++ book, with the ctypes bridge and the C functions *)
(* that forward each call.  The adapter sends rounded quantities to the    *)
(* native book and keeps the unrounded remaining sizes in _order_meta.     *)
(***************************************************************************)
EXTENDS OrderBook

CONSTANT Sizes  (* order and execution sizes, in halves of a unit          *)

ASSUME SizesAssumption == Sizes \subseteq Nat

VARIABLE meta   (* _order_meta: id -> remaining size, in halves of a unit  *)

nativeVars == <<vars, meta>>

\* _qty: int(round(size)), a half goes to the even neighbour.
Qty(size) == IF size % 2 = 0 THEN size \div 2
             ELSE (size \div 2) + ((size \div 2) % 2)

\* The quantities the book is called with are the rounded sizes.
ASSUME QuantitiesAssumption == \A size \in Sizes : Qty(size) \in Quantities

NativeInit == Init /\ meta = <<>>

\* _order_meta[id] = the size as it was passed, before rounding.
Entered(m, id, size) ==
  [j \in DOMAIN m \cup {id} |-> IF j = id THEN size ELSE m[j]]

Enqueue(id, s, raw, size, node) ==
  /\ AddLimitOrder(id, s, raw, Qty(size), node)
  /\ meta' = Entered(meta, id, size)

\* Mutant: the entry of a cancelled order stays.
PoppedNever(m, id) == m

Popped(m, id) == Restrict(m, DOMAIN m \ {id})

\* cancel_order returns false.
Unknown(id) ==
  locator[id].active => locator[id].price \notin DOMAIN index[locator[id].side]

\* The entry goes whether or not the native book knew the order.
CancelOrder(id) ==
  /\ \/ Cancel(id)
     \/ Unknown(id) /\ fills' = <<>> /\ UNCHANGED <<data, entries, index, locator>>
  /\ meta' = Popped(meta, id)

\* One native fill is taken off its order's entry, which goes at zero.
Reduced(m, fill) ==
  IF fill.id \notin DOMAIN m THEN m
  ELSE IF m[fill.id] <= 2 * fill.qty THEN Popped(m, fill.id)
  ELSE [m EXCEPT ![fill.id] = @ - 2 * fill.qty]

\* The fills one after the other.
Reductions(m, fs) ==
  LET after[k \in 0..Len(fs)] == IF k = 0 THEN m ELSE Reduced(after[k - 1], fs[k])
  IN after

ExecuteOrder(s, raw, size) ==
  /\ Match(s, raw, Qty(size))
  /\ meta' = Reductions(meta, fills')[Len(fills')]

NativeNext ==
  \/ \E id \in Ids, s \in Side, raw \in RawPrices \ {0}, size \in Sizes, node \in Nodes :
       Enqueue(id, s, raw, size, node)
  \/ \E id \in Ids : CancelOrder(id)
  \/ \E s \in Side, raw \in RawPrices \cup {0}, size \in Sizes : ExecuteOrder(s, raw, size)

NativeSpec == NativeInit /\ [][NativeNext]_nativeVars

\* Nodes of the pool are interchangeable.
NodeSymmetry == Permutations(Nodes)

-----------------------------------------------------------------------------
(* Properties *)

\* Every resting order keeps an entry, so that its fills carry its symbol,
\* and although only one side is rounded the two remaining sizes never drift
\* apart by more than the half unit lost at the start; an entry that outlives
\* its order (a size rounded down) holds no more than that half unit.
MetaTracksBook ==
  \A id \in UniqueIds :
    LET resting == {n \in RestingNodes : data[n].id = id}
    IN /\ resting # {} => id \in DOMAIN meta
       /\ id \in DOMAIN meta =>
            IF resting = {} THEN meta[id] \in 0..1
            ELSE \A n \in resting : meta[id] - 2 * data[n].qty \in -1..1

=============================================================================
