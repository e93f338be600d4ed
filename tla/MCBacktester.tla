---------------------------- MODULE MCBacktester ----------------------------
(* Small replays for Backtester, and beside them the orders of               *)
(* PythonOrderBook, the book the backtester falls back to: in a behaviour    *)
(* one of the two runs and the other keeps its initial state.                *)
EXTENDS Backtester

\* Two events of one burst, and a later one.
MCEventTimes == <<1, 1, 2>>

VARIABLES
  part,                                              (* which of the two runs *)
  lob, fills, latest, events, placed, filled, gone   (* those of the book     *)

\* 16 price units are one tick.
Plain(side, type, price, size, display, ref, offset) ==
  [side |-> side, type |-> type, price |-> price, size |-> size,
   display |-> display, ref |-> ref, offset |-> offset]

MCShapes == {
  Plain("BUY", "LIMIT", 32, 2, 0, "BID", 0),
  Plain("SELL", "LIMIT", 64, 1, 0, "ASK", 0),
  Plain("SELL", "ICEBERG", 48, 3, 1, "ASK", 0),
  Plain("BUY", "STOP", 48, 2, 0, "BID", 0),
  Plain("SELL", "STOP", 32, 1, 0, "ASK", 0),
  Plain("BUY", "PEGGED", 16, 1, 0, "BID", 16),
  Plain("SELL", "PEGGED", 64, 2, 0, "MID", -16)}

FallbackBook == INSTANCE PythonOrderBook WITH
  Shapes <- MCShapes, Sizes <- {1, 3}, TradePrices <- {32, 48}, MaxOrders <- 4,
  MaxEvents <- 5, cancelled <- gone

bookVars == <<lob, fills, latest, events, placed, filled, gone>>
bothVars == <<vars, bookVars, part>>

BothInit == Init /\ FallbackBook!Init /\ part \in {"replay", "book"}

BothNext ==
  \/ part = "replay" /\ Next /\ UNCHANGED <<bookVars, part>>
  \/ part = "book" /\ FallbackBook!Next /\ UNCHANGED <<vars, part>>

BothSpec == BothInit /\ [][BothNext]_bothVars

-----------------------------------------------------------------------------
(* The properties of the book, explained in its module.                     *)

(* However fills, new clips, triggers and repricing move them, every order
   of order_book.py is accounted for.                                       *)
OrdersAccounted == FallbackBook!OrdersAccounted

(* After every event no pegged order is beyond the opposite best.           *)
PegsNeverCross == FallbackBook!PegsNeverCross

(* An execution takes what is visible in price-time priority; a clip shown
   during the sweep waits for the next one.                                 *)
VisibleFirst == FallbackBook!VisibleFirst

(* order_book.py:3-5, "price-time priority semantics": no order trades while
   a better price of its side still shows quantity after the sweep.         *)
NoBetterPriceLeft == FallbackBook!NoBetterPriceLeft

=============================================================================
