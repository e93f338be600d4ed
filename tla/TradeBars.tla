----------------------------- MODULE TradeBars -----------------------------
(* preprocess of preprocess_binance.py: the rows of a trade dump are checked,
   their timestamps brought to milliseconds, the clean trades written and
   aggregated into bars.

   Prices and quantities are integers, and a second has MsPerSecond
   milliseconds.  The unit of a raw timestamp, which the code tells by its
   magnitude, is given with it.                                              *)
EXTENDS Integers, FiniteSets, SequencesExt

CONSTANTS
  Stamps,           (* raw timestamps [unit, value]                           *)
  Prices, Quantities,
  MsPerSecond, BarSeconds,
  MaxRows           (* bound: rows of the dump                                *)

VARIABLES
  rows,             (* history: the rows read                                 *)
  totalRows, skippedRows,
  written,          (* the clean trades                                       *)
  bars, currentBar, (* currentBar is <<>> or <<bar>>                          *)
  closed            (* the dump has been read to its end                      *)
vars == <<rows, totalRows, skippedRows, written, bars, currentBar, closed>>

Init ==
  /\ rows = <<>> /\ totalRows = 0 /\ skippedRows = 0 /\ written = <<>>
  /\ bars = <<>> /\ currentBar = <<>> /\ closed = FALSE

-----------------------------------------------------------------------------
\* Mutant: microseconds pass for milliseconds.
NormalizedMicros(raw) == IF raw.unit = "s" THEN raw.value * MsPerSecond ELSE raw.value
\* normalize_timestamp: seconds, milliseconds, microseconds or nanoseconds.
Normalized(raw) ==
  CASE raw.unit = "s"  -> raw.value * MsPerSecond
    [] raw.unit = "ms" -> raw.value
    [] raw.unit = "us" -> raw.value \div MsPerSecond
    [] raw.unit = "ns" -> raw.value \div (MsPerSecond * MsPerSecond)

Bucket(ms) == (ms \div MsPerSecond) \div BarSeconds

NewBar(bucket) ==
  [bucket |-> bucket, open |-> 0, high |-> 0, low |-> 0, close |-> 0, count |-> 0,
   volume |-> 0, buy |-> 0, sell |-> 0, priceVolume |-> 0]

First(bar) == bar.count = 0

\* BarAccumulator.update
Updated(bar, t) ==
  [bar EXCEPT !.open = IF First(bar) THEN t.price ELSE @,
              !.high = IF First(bar) THEN t.price ELSE Max({@, t.price}),
              !.low = IF First(bar) THEN t.price ELSE Min({@, t.price}),
              !.close = t.price,
              !.count = @ + 1,
              !.volume = @ + t.qty, !.priceVolume = @ + t.price * t.qty,
              !.buy = IF t.buy THEN @ + t.qty ELSE @,
              !.sell = IF t.buy THEN @ ELSE @ + t.qty]

\* A blank row is passed over; a short one counts as skipped only, a malformed
\* one as read and skipped.
SkipRow(kind) ==
  /\ ~closed /\ Len(rows) < MaxRows
  /\ rows' = Append(rows, [kind |-> kind])
  /\ totalRows' = IF kind = "malformed" THEN totalRows + 1 ELSE totalRows
  /\ skippedRows' = IF kind = "blank" THEN skippedRows ELSE skippedRows + 1
  /\ UNCHANGED <<written, bars, currentBar, closed>>

ReadTrade(t) ==
  /\ ~closed /\ Len(rows) < MaxRows
  /\ rows' = Append(rows, [kind |-> "trade", trade |-> t])
  /\ totalRows' = totalRows + 1
  /\ written' = Append(written, [ts |-> Normalized(t.ts), price |-> t.price,
                                 qty |-> IF t.buy THEN t.qty ELSE -t.qty])
  /\ LET bucket == Bucket(Normalized(t.ts)) IN
     IF currentBar # <<>> /\ currentBar[1].bucket = bucket
     THEN currentBar' = <<Updated(currentBar[1], t)>> /\ UNCHANGED bars
     ELSE bars' = bars \o currentBar /\ currentBar' = <<Updated(NewBar(bucket), t)>>
  /\ UNCHANGED <<skippedRows, closed>>

Flushed(bs, current) == bs \o current

\* The end of the dump closes the last bar, and the bars are written.
Close ==
  /\ ~closed
  /\ bars' = Flushed(bars, currentBar) /\ currentBar' = <<>> /\ closed' = TRUE
  /\ UNCHANGED <<rows, totalRows, skippedRows, written>>

Trades == [ts : Stamps, price : Prices, qty : Quantities, buy : BOOLEAN]

Next ==
  \/ \E kind \in {"blank", "short", "malformed"} : SkipRow(kind)
  \/ \E t \in Trades : ReadTrade(t)
  \/ Close

Spec == Init /\ [][Next]_vars

-----------------------------------------------------------------------------
SumOf(f(_), seq) == MapThenSumSet(LAMBDA k : f(seq[k]), DOMAIN seq)

(* The trades written and the bars account for every row: none is lost or
   counted twice, whatever order the trades come in and whatever is skipped.  *)
BarsAccountForRows ==
  LET all == bars \o currentBar
      good == SelectSeq(rows, LAMBDA r : r.kind = "trade") IN
  /\ Len(written) = Len(good)
  /\ Len(written) + skippedRows + Len(SelectSeq(rows, LAMBDA r : r.kind = "blank")) = Len(rows)
  /\ totalRows - Len(written) = Len(SelectSeq(rows, LAMBDA r : r.kind = "malformed"))
  /\ SumOf(LAMBDA b : b.count, all) = Len(good)
  /\ SumOf(LAMBDA b : b.buy - b.sell, all) = SumOf(LAMBDA w : w.qty, written)

(* Every bar is a range: open, close and the volume-weighted price lie within
   low and high, and its volume is bought or sold.                           *)
BarsAreRanges ==
  \A b \in ToSet(bars \o currentBar) :
    /\ b.count > 0 /\ b.low \in Prices /\ b.high \in Prices
    /\ {b.open, b.close} \subseteq b.low .. b.high
    /\ b.volume = b.buy + b.sell
    /\ b.volume > 0 => b.priceVolume \in b.low * b.volume .. b.high * b.volume

\* Of a timestamp, in nanoseconds.
Instant(raw) ==
  raw.value * MsPerSecond ^ (CASE raw.unit = "s" -> 3 [] raw.unit = "ms" -> 2
                               [] raw.unit = "us" -> 1 [] raw.unit = "ns" -> 0)

(* When the dump is in time order each interval has one bar, with all of its
   trades, and the bars are in order; the unit of a timestamp has no part in it. *)
OneBarPerInterval ==
  LET good == SelectSeq(rows, LAMBDA r : r.kind = "trade")
      all == bars \o currentBar IN
  (\A k \in 2 .. Len(good) : Instant(good[k - 1].trade.ts) <= Instant(good[k].trade.ts)) =>
    /\ \A k \in 2 .. Len(all) : all[k - 1].bucket < all[k].bucket
    /\ \A b \in ToSet(all) :
         b.count = Cardinality({k \in DOMAIN good :
           Instant(good[k].trade.ts) \div (BarSeconds * MsPerSecond ^ 3) = b.bucket})

(* The bars are those of the dump (preprocess_binance.py:90-330).          *)
BarsMatchDump == BarsAccountForRows /\ BarsAreRanges /\ OneBarPerInterval

=============================================================================
