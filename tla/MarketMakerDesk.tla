--------------------------- MODULE MarketMakerDesk ---------------------------
(***************************************************************************)
(* A trading desk: the market maker (python/strategies/market_maker.py)    *)
(* driven by the backtester, with the risk engine and both rate limiters.  *)
(* A tick updates the risk engine and may start a round of quoting, in     *)
(* which the strategy cancels its working orders and submits a bid and an  *)
(* ask, each call passing a limiter; fills reach the risk engine.  The     *)
(* order limiter's state is RateLimiter's, with `now` the time of its      *)
(* latest call.  Prices are in half ticks, so that mids are integers.      *)
(***************************************************************************)
EXTENDS RateLimiter

CONSTANTS
  MaxCancels,      (* cancel_rate_limit.max_actions                        *)
  CancelInterval,  (* cancel_rate_limit.interval_ns                        *)
  HaltOnRefusal,   (* halt_on_violation of both limits                     *)
  Spread,          (* spread_ticks * tick_size                             *)
  QuoteSize,       (* quote_size                                           *)
  Skew,            (* inventory_skew * tick_size                           *)
  UpdateInterval,  (* update_interval_ns                                   *)
  Snapshots,       (* the [bid, ask] the feed may show; {} for None        *)
  FeedFills,       (* fills of the feed's orders: [qty, price], qty signed *)
  MaxFills,        (* bound: fills                                         *)
  MaxLong, MaxShort, MaxNotional, LossLimits, HaltOnBreach

ASSUME MarketMakerDeskAssumption ==
  /\ MaxCancels \in Nat \ {0} /\ CancelInterval \in Nat \ {0}
  /\ HaltOnRefusal \in BOOLEAN
  /\ Spread \in Int /\ QuoteSize \in Nat /\ Skew \in Int /\ UpdateInterval \in Nat
  /\ MaxFills \in Nat
  /\ \A fill \in FeedFills : fill.qty \in Int /\ fill.price \in Int
  /\ \A snapshot \in Snapshots : \A quoted \in {snapshot.bid, snapshot.ask} :
       quoted = {} \/ \E price \in quoted : quoted = {price} /\ price \in Int

VARIABLES
  clock,        (* clock_ns                                                *)
  step,         (* where the strategy's callback stands                    *)
  quote,        (* the bid and the ask price it is going to submit         *)
  working,      (* working_orders: "bid", "ask" -> id                      *)
  resting,      (* the strategy's live orders: id -> [side, price, size]   *)
  nextId,       (* _id_counter                                             *)
  lastQuote,    (* last_quote_ns                                           *)
  cancelWindow, (* the deque of the cancel limiter                         *)
  risk,         (* the risk engine, see RiskEngine                         *)
  halted,       (* the backtester's strategy_halted                        *)
  faulted,      (* the sandbox's faulted                                   *)
  cash,         (* history: what all fills paid and received               *)
  fillCount     (* history: how many fills there were                      *)

limiterVars == vars
quoteVars == <<step, quote, working, nextId, lastQuote, cancelWindow>>
deskVars == <<limiterVars, quoteVars, clock, resting, risk, halted, faulted, cash, fillCount>>

Risk    == INSTANCE RiskEngine
Cancels == INSTANCE SlidingWindow WITH MaxActions <- MaxCancels, Interval <- CancelInterval

DeskInit ==
  /\ Init
  /\ clock = 0 /\ step = "idle" /\ quote = [bid |-> 0, ask |-> 0]
  /\ working = <<>> /\ resting = <<>> /\ nextId = 1 /\ lastQuote = 0
  /\ cancelWindow = <<>> /\ risk = Risk!Fresh
  /\ halted = FALSE /\ faulted = FALSE /\ cash = 0 /\ fillCount = 0

\* Both sides of the snapshot, a missing one a spread away from the other.
Bid(snapshot) == IF snapshot.bid # {} THEN snapshot.bid ELSE {a - Spread : a \in snapshot.ask}
Ask(snapshot) == IF snapshot.ask # {} THEN snapshot.ask ELSE {b + Spread : b \in snapshot.bid}

Mid(bids, asks) == {(b + a) \div 2 : b \in bids, a \in asks}

\* The prices around the mid, shifted against the inventory.
Quotes(mid, inventory) ==
  [bid |-> mid - Spread \div 2 - Skew * inventory, ask |-> mid + Spread \div 2 - Skew * inventory]

\* on_market_data calls the strategy unless it is halted or has faulted.
Driven(isHalted) == ~isHalted /\ ~faulted

\* The backtester takes over the halt of the risk engine.
HaltedAfter(r) == halted \/ r.halted

\* Backtester.on_market_data up to the strategy's first call: the market
\* maker returns at once on an empty book or before its interval is over.
Tick(delay, snapshot) ==
  /\ step = "idle"
  /\ clock + delay <= MaxTime /\ clock' = clock + delay
  /\ risk' = Risk!OnTick(risk, Mid(snapshot.bid, snapshot.ask))
  /\ halted' = HaltedAfter(risk')
  /\ \/ /\ Driven(halted') /\ clock' - lastQuote >= UpdateInterval
        /\ \E mid \in Mid(Bid(snapshot), Ask(snapshot)) : quote' = Quotes(mid, risk.inventory)
        /\ step' = "cancel"
     \/ /\ ~Driven(halted') \/ clock' - lastQuote < UpdateInterval
             \/ (snapshot.bid = {} /\ snapshot.ask = {})
        /\ UNCHANGED <<step, quote>>
  /\ UNCHANGED <<limiterVars, working, resting, nextId, lastQuote, cancelWindow, faulted, cash,
                 fillCount>>

\* _handle_control_violation
Refused(acc) == [acc EXCEPT !.halted = @ \/ HaltOnRefusal]

\* Backtester.cancel_order: an id that is not live passes no limiter.
CancelOne(acc, id) ==
  IF id \notin DOMAIN acc.resting THEN acc
  ELSE IF Cancels!Admits(acc.window, clock)
  THEN [acc EXCEPT !.resting = [i \in DOMAIN @ \ {id} |-> @[i]],
                   !.window = Cancels!After(@, clock)]
  ELSE Refused([acc EXCEPT !.window = Cancels!After(@, clock)])

\* The working orders are cancelled and forgotten, refused cancels included.
CancelWorking ==
  LET start == [resting |-> resting, window |-> cancelWindow, halted |-> halted]
      acc   == IF working = <<>> THEN start
               ELSE CancelOne(CancelOne(start, working.bid), working.ask)
  IN /\ step = "cancel" /\ step' = "bid"
     /\ resting' = acc.resting /\ cancelWindow' = acc.window
     /\ halted' = acc.halted /\ risk' = [risk EXCEPT !.halted = @ \/ acc.halted]
     /\ working' = <<>>
     /\ UNCHANGED <<limiterVars, clock, quote, nextId, lastQuote, faulted, cash, fillCount>>

\* Mutant: the exception of a refused order does not reach the sandbox.
FaultIgnored == UNCHANGED <<halted, faulted, risk>>

\* A refused order raises in the strategy, which does not catch it: the
\* sandbox faults and the backtester halts.
Fault ==
  /\ faulted' = TRUE /\ halted' = TRUE
  /\ risk' = [risk EXCEPT !.halted = @ \/ HaltOnRefusal]

\* One submit_order of the round; the ids are kept when both are through.
SubmitQuote(side) ==
  /\ step = side
  /\ Allow(clock - now)
  /\ \/ /\ ~refused'
        /\ resting' = [i \in DOMAIN resting \cup {nextId} |->
             IF i = nextId THEN [side |-> side, price |-> quote[side], size |-> QuoteSize]
             ELSE resting[i]]
        /\ nextId' = nextId + 1
        /\ IF side = "bid" THEN step' = "ask" /\ UNCHANGED <<working, lastQuote>>
           ELSE /\ step' = "idle" /\ lastQuote' = clock
                /\ working' = [bid |-> nextId - 1, ask |-> nextId]
        /\ UNCHANGED <<halted, faulted, risk>>
     \/ /\ refused'
        /\ Fault
        /\ step' = "idle"
        /\ UNCHANGED <<resting, nextId, working, lastQuote>>
  /\ UNCHANGED <<clock, quote, cancelWindow, cash, fillCount>>

\* process_fill: every fill, the strategy's or not, reaches the risk engine.
Filled(qty, price) ==
  /\ fillCount < MaxFills /\ fillCount' = fillCount + 1
  /\ risk' = Risk!OnFill(risk, qty, price)
  /\ halted' = HaltedAfter(risk')
  /\ cash' = cash - qty * price
  /\ UNCHANGED <<limiterVars, quoteVars, clock, faulted>>

OwnFill(id, size) ==
  /\ step = "idle" /\ size <= resting[id].size
  /\ Filled(IF resting[id].side = "bid" THEN size ELSE -size, resting[id].price)
  /\ resting' = IF size = resting[id].size THEN [i \in DOMAIN resting \ {id} |-> resting[i]]
                ELSE [resting EXCEPT ![id].size = @ - size]

FeedFill(fill) ==
  /\ step = "idle"
  /\ Filled(fill.qty, fill.price)
  /\ UNCHANGED resting

DeskNext ==
  \/ \E delay \in Steps, snapshot \in Snapshots : Tick(delay, snapshot)
  \/ CancelWorking
  \/ \E side \in {"bid", "ask"} : SubmitQuote(side)
  \/ \E id \in DOMAIN resting, size \in 1..QuoteSize : OwnFill(id, size)
  \/ \E fill \in FeedFills : FeedFill(fill)

DeskSpec == DeskInit /\ [][DeskNext]_deskVars

-----------------------------------------------------------------------------
(* Properties *)

\* FIFO lots: what is held is the inventory, and lots never lie on both
\* sides, however fills of both signs and sizes close and reverse a position.
LotsAreThePosition ==
  /\ Risk!Held(risk.lots) = risk.inventory
  /\ \A i, j \in DOMAIN risk.lots : ~Risk!Opposite(risk.lots[i].size, risk.lots[j].size)
  /\ \A i \in DOMAIN risk.lots : risk.lots[i].size # 0

\* No money appears or is lost in the matching of lots (pnl.md:7-9): realised
\* PnL is what the fills paid plus the cost of what is still held.
RealizedBalances == risk.realized = cash + Risk!Cost(risk.lots)

\* After a tick with a mid, realised and unrealised PnL together are the cash
\* and the position at that mid (pnl.md:10-12, invariants.md:39-41).
MarkedToMid ==
  [][ step = "idle" /\ fillCount' = fillCount =>
        \A m \in risk'.mid :
          risk'.realized + risk'.unrealized = cash' + risk'.inventory * m ]_deskVars

\* The strategy knows every order it has in the book as long as it is driven:
\* a refused cancel or submit, in the middle of a round, stops it for good.
NoOrphans ==
  step = "idle" /\ ~halted =>
    DOMAIN resting \subseteq (IF working = <<>> THEN {} ELSE {working.bid, working.ask})

\* Once halted, whoever decided it (risk engine, limiter or sandbox), the
\* strategy starts no new round, and the halt is never lifted.
HaltIsFinal ==
  [][ /\ halted => halted' /\ (step = "idle" => step' = "idle")
      /\ risk.halted => risk'.halted ]_deskVars

\* The kill switch reaches the driver: a halt of the risk engine is the
\* backtester's halt before anything else happens.
HaltReachesDriver == risk.halted => halted

\* The profit reported is the desk's: lots, inventory, realised and
\* unrealised PnL are what its fills and the mid say, through closing and
\* reversing fills of any size (risk.py:52-113).
ProfitBalances == [](LotsAreThePosition /\ RealizedBalances) /\ MarkedToMid

\* Whoever stops the desk stops it for good and at once: the risk engine's
\* halt is the driver's, a halted desk starts no round, and while it runs
\* no quote is left in the book that it has forgotten (risk.py:198,
\* market_maker.py:91-118).
StoppedForGood == [](NoOrphans /\ HaltReachesDriver) /\ HaltIsFinal

=============================================================================
