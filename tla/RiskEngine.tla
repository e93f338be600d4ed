----------------------------- MODULE RiskEngine -----------------------------
(***************************************************************************)
(* RiskEngine (python/backtester/risk.py) for the configured symbol, as    *)
(* operators on a record: FIFO lots, inventory, realised and unrealised    *)
(* PnL and the halt flag.  A lot is [size, price], its size signed.        *)
(* Warnings and alerts are texts and are left out.                         *)
(***************************************************************************)
EXTENDS Series

CONSTANTS
  MaxLong,       (* max_long, 0 if unlimited                               *)
  MaxShort,      (* max_short, 0 if unlimited                              *)
  MaxNotional,   (* max_notional_exposure, 0 for None                      *)
  LossLimits,    (* loss_limit as a set: empty for None                    *)
  HaltOnBreach   (* halt_on_breach                                         *)

Magnitude(x) == IF x < 0 THEN -x ELSE x
Sign(x) == IF x < 0 THEN -1 ELSE 1
Smaller(x, y) == IF x < y THEN x ELSE y

Fresh == [lots |-> <<>>, inventory |-> 0, realized |-> 0, unrealized |-> 0, mid |-> {},
          halted |-> FALSE]

\* What the lots cost, and how much they hold.
Sizes(lots) == [i \in 1..Len(lots) |-> lots[i].size]
Costs(lots) == [i \in 1..Len(lots) |-> lots[i].size * lots[i].price]

Cost(lots) == Total(Costs(lots))
Held(lots) == Total(Sizes(lots))

\* notional_exposure; 0 while there is no mid.
Exposure(r) == IF r.mid = {} THEN 0
               ELSE Magnitude(r.inventory) * (CHOOSE m \in r.mid : TRUE)

Breached(r) ==
  LET pnl == r.realized + r.unrealized
  IN \/ MaxLong > 0 /\ r.inventory > MaxLong
     \/ MaxShort < 0 /\ r.inventory < MaxShort
     \/ MaxNotional > 0 /\ Exposure(r) > MaxNotional
     \/ \E limit \in LossLimits : IF limit < 0 THEN pnl <= limit ELSE pnl >= limit

CheckLimits(r) == [r EXCEPT !.halted = @ \/ (Breached(r) /\ HaltOnBreach)]

\* Mutant: what is left of the fill moves away from zero when a long lot closes.
LeftAfterUnsigned(remaining, matched, lot) == remaining - matched

LeftAfter(remaining, matched, lot) == remaining + matched * Sign(lot.size)

Gain(matched, price, lot) == matched * (price - lot.price) * Sign(lot.size)

Opposite(a, b) == (a > 0 /\ b < 0) \/ (a < 0 /\ b > 0)

\* One round of the matching loop.  Rounds stop at the first lot of the
\* fill's own sign, or when nothing is left; lots beyond are kept as they are.
MatchLot(acc, lot) ==
  LET matched == Smaller(Magnitude(acc.remaining), Magnitude(lot.size))
      size    == lot.size - matched * Sign(lot.size)
  IN IF ~Opposite(acc.remaining, lot.size) THEN [acc EXCEPT !.lots = Append(@, lot)]
     ELSE [price |-> acc.price,
           remaining |-> LeftAfter(acc.remaining, matched, lot),
           pnl  |-> acc.pnl + Gain(matched, acc.price, lot),
           lots |-> IF size = 0 THEN acc.lots ELSE Append(acc.lots, [lot EXCEPT !.size = size])]

\* Where the loop stands after each lot.
Matching(lots, qty, price) ==
  LET after[n \in 0..Len(lots)] ==
        IF n = 0 THEN [price |-> price, remaining |-> qty, pnl |-> 0, lots |-> <<>>]
        ELSE MatchLot(after[n - 1], lots[n])
  IN after

\* update_on_fill, for a fill of signed size qty.
OnFill(r, qty, price) ==
  LET m == Matching(r.lots, qty, price)[Len(r.lots)]
  IN CheckLimits(
       [r EXCEPT !.lots = IF m.remaining = 0 THEN m.lots
                          ELSE Append(m.lots, [size |-> m.remaining, price |-> price]),
                 !.realized = @ + m.pnl,
                 !.inventory = @ + qty])

\* inventory * (mid - average cost); the average is the mid when nothing is held.
Unrealized(r, mid) ==
  LET held == Held(r.lots)
  IN IF held = 0 THEN 0
     ELSE (r.inventory * Sign(held) * (mid * held - Cost(r.lots))) \div Magnitude(held)

\* update_on_tick with the snapshot's mid, as a set: empty for None.
OnTick(r, mid) ==
  CheckLimits([r EXCEPT !.mid = mid,
                        !.unrealized = IF mid = {} THEN 0
                                       ELSE Unrealized(r, CHOOSE m \in mid : TRUE)])

=============================================================================
