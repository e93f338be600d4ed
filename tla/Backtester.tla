----------------------------- MODULE Backtester -----------------------------
(***************************************************************************)
(* The serial backtester (python/backtester/backtester.py): it replays     *)
(* market events through an order book and calls the strategy back.  A     *)
(* callback may submit and cancel orders and schedule and cancel timers,   *)
(* and submitting calls the strategy back again, so the running callbacks  *)
(* form a stack.  The strategy is arbitrary.  The book is seen through     *)
(* what enqueue, cancel and apply_event do to the resting orders (limit    *)
(* orders only); the risk engine through whether it halts the strategy.    *)
(* For two orders of one id that is what PythonOrderBook does: cancelling  *)
(* takes out both.  The native book's locator finds only the later one.    *)
(***************************************************************************)
EXTENDS Integers, FiniteSets, Sequences, SequencesExt

CONSTANTS
  EventTimes,      (* the timestamps of the replayed events                *)
  FeedIds,         (* ids of the orders the feed adds to the book          *)
  OrderSize,       (* size of the orders the strategy submits              *)
  MaxFills,        (* bound: fills of one execute event                    *)
  TimerDelays,     (* delays the strategy gives schedule_timer             *)
  MaxActions,      (* order_rate_limit.max_actions                         *)
  Interval,        (* order_rate_limit.interval_ns                         *)
  MaxCancels,      (* cancel_rate_limit.max_actions                        *)
  CancelInterval,  (* cancel_rate_limit.interval_ns                        *)
  HaltOnViolation, (* halt_on_violation of both limits                     *)
  MaxCalls         (* bound: calls the strategy makes during the run       *)

ASSUME BacktesterAssumption ==
  /\ EventTimes \in Seq(Nat)
  /\ \A i, j \in DOMAIN EventTimes : i <= j => EventTimes[i] <= EventTimes[j]
  /\ FeedIds \subseteq Nat
  /\ OrderSize \in Nat \ {0}
  /\ MaxFills \in Nat
  /\ TimerDelays \subseteq Nat
  /\ MaxActions \in Nat \ {0} /\ Interval \in Nat \ {0}
  /\ MaxCancels \in Nat \ {0} /\ CancelInterval \in Nat \ {0}
  /\ HaltOnViolation \in BOOLEAN
  /\ MaxCalls \in Nat

VARIABLES
  phase,        (* where run() stands between two callbacks                *)
  event,        (* how many events have been taken from the replay         *)
  pending,      (* the fills of the event's update not processed yet       *)
  stack,        (* the callbacks running, innermost last                   *)
  calls,        (* how many calls the strategy has made                    *)
  book,         (* the orders resting in limit_book                        *)
  nextId,       (* _id_counter                                             *)
  active,       (* active_orders: id -> remaining size                     *)
  cancelled,    (* pending_cancels                                         *)
  drift,        (* history: drift[id] is what the feed's orders did to the *)
                (* strategy's order of the same id, see Report, FeedDeletes *)
  timers,       (* _timer_heap                                             *)
  live,         (* the keys of _active_timers                              *)
  nextTimer,    (* _next_timer_id                                          *)
  fired,        (* history: the timers fired, in order                     *)
  orderWindow,  (* the deque of _order_rate_limiter                        *)
  cancelWindow, (* the deque of _cancel_rate_limiter                       *)
  halted,       (* strategy_halted                                         *)
  faulted       (* _sandbox.faulted                                        *)

driverVars == <<phase, event, pending>>
orderVars  == <<book, nextId, active, cancelled, drift, orderWindow, cancelWindow>>
timerVars  == <<timers, live, nextTimer, fired>>
vars == <<driverVars, stack, calls, orderVars, timerVars, halted, faulted>>

Orders  == INSTANCE SlidingWindow
Cancels == INSTANCE SlidingWindow WITH MaxActions <- MaxCancels,
                                       Interval <- CancelInterval

Callbacks == {"on_start", "on_market_data", "on_fill", "on_order_accepted",
              "on_timer", "on_stop"}
Order == [id : Nat, own : BOOLEAN, size : Nat]
Timer == [id : Nat, due : Nat]

\* clock_ns: the time of the latest event.
Clock == IF event = 0 THEN 0 ELSE EventTimes[event]

Init ==
  /\ phase = "idle" /\ event = 0 /\ pending = <<>>
  /\ stack = <<>> /\ calls = 0
  /\ book = {} /\ nextId = 1 /\ active = <<>> /\ cancelled = {} /\ drift = <<>>
  /\ orderWindow = <<>> /\ cancelWindow = <<>>
  /\ timers = {} /\ live = {} /\ nextTimer = 1 /\ fired = <<>>
  /\ halted = FALSE /\ faulted = FALSE

\* Mutant: a faulted strategy is still called.
InvokeAlways(callback) == stack' = Append(stack, callback)

\* _strategy_call and StrategySandbox.invoke: nothing runs after a fault.
Invoke(callback) == stack' = IF faulted THEN stack ELSE Append(stack, callback)

-----------------------------------------------------------------------------
(* Timers *)

\* Mutant: a timer due now waits for the next event.
DueStrictly(t) == t.due < Clock

Due(t) == t.due <= Clock

\* The heap orders timers by due time, then by id.
Earlier(t, u) == t.due < u.due \/ (t.due = u.due /\ t.id < u.id)

\* _fire_due_timers has nothing left to do.
NothingDue == halted \/ ~\E t \in timers : Due(t)

Disarmed(t) == live \ {t.id}

\* One round of its loop.  A cancelled timer is popped and skipped.
FireTimer ==
  /\ stack = <<>> /\ phase \in {"head", "fills", "data", "stop"}
  /\ ~NothingDue
  /\ \E t \in timers :
       /\ \A u \in timers \ {t} : Earlier(t, u)
       /\ timers' = timers \ {t}
       /\ live' = Disarmed(t)
       /\ \/ t.id \in live /\ fired' = Append(fired, t) /\ Invoke("on_timer")
          \/ t.id \notin live /\ UNCHANGED <<fired, stack>>
  /\ UNCHANGED <<driverVars, calls, orderVars, nextTimer, halted, faulted>>

-----------------------------------------------------------------------------
(* run and process_market_event *)

StartStrategy ==
  /\ phase = "idle"
  /\ phase' = "started"
  /\ Invoke("on_start")
  /\ UNCHANGED <<event, pending, calls, orderVars, timerVars, halted, faulted>>

\* The next event is taken: the clock moves, and due timers fire.
NextEvent ==
  /\ stack = <<>> /\ event < Len(EventTimes)
  /\ phase = "started" \/ (phase = "data" /\ NothingDue)
  /\ event' = event + 1
  /\ phase' = "head"
  /\ UNCHANGED <<pending, stack, calls, orderVars, timerVars, halted, faulted>>

\* What rests in the book for the strategy under an id.
Resting(id) == {o \in book : o.own /\ o.id = id}
RestingSize(id) == IF Resting(id) = {} THEN 0 ELSE (CHOOSE o \in Resting(id) : TRUE).size

Drift(id, size) == drift' = [i \in DOMAIN drift |-> IF i = id THEN drift[i] + size ELSE drift[i]]

\* apply_event: a feed order is added or deleted, or an execution sweeps
\* resting orders, each but the last in full; trades change nothing here.
\* The feed may use ids the strategy's counter uses too: a deletion takes
\* every order of the id out of the book.
FeedAdds ==
  /\ \E id \in FeedIds :
       /\ \A o \in book : o.own \/ o.id # id
       /\ book' = book \cup {[id |-> id, own |-> FALSE, size |-> 1]}
  /\ pending' = <<>> /\ UNCHANGED drift

FeedDeletes ==
  /\ \E id \in FeedIds : /\ book' = {o \in book : o.id # id}
                         /\ Drift(id, -RestingSize(id))
  /\ pending' = <<>>

Swept(orders, last) ==
  [i \in DOMAIN orders |->
     IF i = Len(orders) THEN [orders[i] EXCEPT !.size = last] ELSE orders[i]]

FeedExecutes ==
  /\ \E n \in 0..MaxFills : \E orders \in [1..n -> book] :
       /\ IsInjective(orders)
       /\ \E last \in IF n = 0 THEN {0} ELSE 1..orders[n].size :
            /\ pending' = Swept(orders, last)
            /\ book' = (book \ Range(orders)) \cup
                 (IF n = 0 \/ last = orders[n].size THEN {}
                  ELSE {[orders[n] EXCEPT !.size = @ - last]})
  /\ UNCHANGED drift

ApplyEvent == FeedAdds \/ FeedDeletes \/ FeedExecutes

Dispatch ==
  /\ stack = <<>> /\ phase = "head" /\ NothingDue
  /\ ApplyEvent
  /\ phase' = "fills"
  /\ UNCHANGED <<event, stack, calls, nextId, active, cancelled, orderWindow,
                 cancelWindow, timerVars, halted, faulted>>

\* What process_fill makes of active_orders.
AfterFill(orders, fill) ==
  IF fill.id \notin DOMAIN orders THEN orders
  ELSE IF orders[fill.id] <= fill.size THEN Restrict(orders, DOMAIN orders \ {fill.id})
  ELSE [orders EXCEPT ![fill.id] = @ - fill.size]

\* The fill of a feed order counts against the strategy's order of that id.
Report(fill) ==
  /\ active' = AfterFill(active, fill)
  /\ IF fill.own THEN UNCHANGED drift ELSE Drift(fill.id, fill.size)

\* The risk engine may halt the strategy on a fill or a tick; a halt stays.
RiskCheck == halted' \in {halted, TRUE}

ProcessFill ==
  /\ stack = <<>> /\ phase = "fills" /\ NothingDue /\ pending # <<>>
  /\ Report(Head(pending))
  /\ pending' = Tail(pending)
  /\ RiskCheck
  /\ Invoke("on_fill")
  /\ UNCHANGED <<phase, event, calls, book, nextId, cancelled, orderWindow, cancelWindow,
                 timerVars, faulted>>

\* on_market_data: a halted strategy is not called.
MarketData ==
  /\ stack = <<>> /\ phase = "fills" /\ NothingDue /\ pending = <<>>
  /\ phase' = "data"
  /\ RiskCheck
  /\ IF halted' THEN UNCHANGED stack ELSE Invoke("on_market_data")
  /\ UNCHANGED <<event, pending, calls, orderVars, timerVars, faulted>>

\* finalise_run calls on_stop even when halted.
FinaliseRun ==
  /\ stack = <<>> /\ event = Len(EventTimes)
  /\ phase = "started" \/ (phase = "data" /\ NothingDue)
  /\ phase' = "stop"
  /\ Invoke("on_stop")
  /\ UNCHANGED <<event, pending, calls, orderVars, timerVars, halted, faulted>>

Return ==
  /\ stack = <<>> /\ phase = "stop" /\ NothingDue
  /\ phase' = "done"
  /\ UNCHANGED <<event, pending, stack, calls, orderVars, timerVars, halted, faulted>>

Driver ==
  \/ StartStrategy \/ NextEvent \/ FireTimer \/ Dispatch \/ ProcessFill
  \/ MarketData \/ FinaliseRun \/ Return

-----------------------------------------------------------------------------
(* What the running callback may do, through its StrategyContext *)

Call == stack # <<>> /\ calls < MaxCalls /\ calls' = calls + 1

\* Mutant: the order is entered in active_orders but not in the book.
EnqueueForgotten(order) == UNCHANGED book

Enqueue(order) == book' = book \cup {order}

\* A refused order halts the strategy (if so configured) and raises a
\* StrategyError, which the callback may catch: CallbackRaises is possible
\* next, and so is anything else.
SubmitOrder ==
  /\ orderWindow' = Orders!After(orderWindow, Clock)
  /\ \/ /\ Orders!Admits(orderWindow, Clock)
        /\ nextId' = nextId + 1
        /\ active' = [id \in DOMAIN active \cup {nextId} |->
                        IF id = nextId THEN OrderSize ELSE active[id]]
        /\ drift' = [id \in 1..nextId |-> IF id = nextId THEN 0 ELSE drift[id]]
        /\ Enqueue([id |-> nextId, own |-> TRUE, size |-> OrderSize])
        /\ Invoke("on_order_accepted")
        /\ UNCHANGED halted
     \/ /\ ~Orders!Admits(orderWindow, Clock)
        /\ halted' = (halted \/ HaltOnViolation)
        /\ UNCHANGED <<nextId, active, drift, book, stack>>
  /\ UNCHANGED <<driverVars, cancelled, cancelWindow, timerVars, faulted>>

\* An id that is not active is ignored; a refused cancel halts the strategy
\* (if so configured) but raises nothing; a cancelled order stays active.
CancelOrder(id) ==
  /\ \/ id \notin DOMAIN active /\ UNCHANGED <<book, cancelled, cancelWindow, halted>>
     \/ /\ id \in DOMAIN active
        /\ cancelWindow' = Cancels!After(cancelWindow, Clock)
        /\ \/ /\ Cancels!Admits(cancelWindow, Clock)
              /\ cancelled' = cancelled \cup {id}
              /\ book' = {o \in book : o.id # id}
              /\ UNCHANGED halted
           \/ /\ ~Cancels!Admits(cancelWindow, Clock)
              /\ halted' = (halted \/ HaltOnViolation)
              /\ UNCHANGED <<book, cancelled>>
  /\ UNCHANGED <<driverVars, stack, nextId, active, drift, orderWindow, timerVars, faulted>>

ScheduleTimer(delay) ==
  /\ timers' = timers \cup {[id |-> nextTimer, due |-> Clock + delay]}
  /\ live' = live \cup {nextTimer}
  /\ nextTimer' = nextTimer + 1
  /\ UNCHANGED <<driverVars, stack, orderVars, fired, halted, faulted>>

CancelTimer(id) ==
  /\ id \in live
  /\ live' = live \ {id}
  /\ UNCHANGED <<driverVars, stack, orderVars, timers, nextTimer, fired, halted, faulted>>

ContextCall ==
  Call /\ \/ SubmitOrder
          \/ \E id \in 1..(nextId - 1) : CancelOrder(id)
          \/ \E delay \in TimerDelays : ScheduleTimer(delay)
          \/ \E id \in live : CancelTimer(id)

CallbackReturns ==
  /\ stack # <<>>
  /\ stack' = Front(stack)
  /\ UNCHANGED <<driverVars, calls, orderVars, timerVars, halted, faulted>>

\* The sandbox catches the exception at the callback that raised it: an
\* enclosing callback goes on.
CallbackRaises ==
  /\ stack # <<>>
  /\ stack' = Front(stack)
  /\ faulted' = TRUE /\ halted' = TRUE
  /\ UNCHANGED <<driverVars, calls, orderVars, timerVars>>

Strategy == ContextCall \/ CallbackReturns \/ CallbackRaises

Next == Driver \/ Strategy

Spec == Init /\ [][Next]_vars

-----------------------------------------------------------------------------
(* Properties *)

\* Type correctness.
TypeOK ==
  /\ phase \in {"idle", "started", "head", "fills", "data", "stop", "done"}
  /\ event \in 0..Len(EventTimes) /\ pending \in Seq(Order)
  /\ stack \in Seq(Callbacks) /\ calls \in 0..MaxCalls
  /\ book \subseteq Order /\ nextId \in Nat \ {0}
  /\ DOMAIN active \subseteq Nat /\ \A id \in DOMAIN active : active[id] \in 1..OrderSize
  /\ cancelled \subseteq 1..(nextId - 1)
  /\ drift \in [1..(nextId - 1) -> Int]
  /\ orderWindow \in Seq(Nat) /\ cancelWindow \in Seq(Nat)
  /\ timers \subseteq Timer /\ live \subseteq Nat /\ nextTimer \in Nat
  /\ fired \in Seq(Timer)
  /\ halted \in BOOLEAN /\ faulted \in BOOLEAN

\* Timers fire in the order of their due times, those due together in the
\* order they were scheduled, and none fires twice, although callbacks keep
\* scheduling timers while others fire.
TimersFireInOrder ==
  \A i, j \in DOMAIN fired :
    i < j => \/ fired[i].due < fired[j].due
             \/ fired[i].due = fired[j].due /\ fired[i].id < fired[j].id

\* No event is dispatched, and the run does not end, with a timer due and
\* not fired, unless the strategy was halted.
NoDueTimerSkipped ==
  [][ (phase = "head" /\ phase' = "fills") \/ phase' = "done" =>
      halted \/ \A t \in timers : t.id \in live => t.due > Clock ]_vars

\* The heap and the table of active timers agree although cancel_timer only
\* touches the table and firing pops the heap first: an active timer is in the
\* heap, so that it can fire, and has not fired yet.
TimersAccounted ==
  /\ live \subseteq {t.id : t \in timers}
  /\ live \cap {t.id : t \in ToSet(fired)} = {}

\* Once a callback has raised, no new callback starts; those on the stack
\* may finish.
SilentAfterFault == [][ faulted => Len(stack') <= Len(stack) ]_vars

\* A halted strategy gets no more market data and no more timers, even when
\* it is halted in the middle of a round of timers.
HaltedNotDriven ==
  [][ halted /\ Len(stack') > Len(stack) =>
      Last(stack') \notin {"on_market_data", "on_timer"} ]_vars

\* What the strategy believes it has working is what the book holds for it
\* plus the fill not reported yet, and a cancelled order of its has nothing
\* left in the book; none rests twice or has two fills to report.  Where the
\* feed uses the id as well, the two differ by what the feed's orders did in
\* the strategy's name and by nothing else: each of their fills shortens
\* active_orders (never below nothing), each of their deletions the book.
Unreported(id) == {i \in DOMAIN pending : pending[i].own /\ pending[i].id = id}
UnreportedSize(id) ==
  IF Unreported(id) = {} THEN 0 ELSE pending[CHOOSE i \in Unreported(id) : TRUE].size
ActiveSize(id) == IF id \in DOMAIN active THEN active[id] ELSE 0

ActiveOrdersTrackBook ==
  \A id \in 1..(nextId - 1) :
    /\ \A o, q \in Resting(id) : o = q
    /\ \A i, j \in Unreported(id) : i = j
    /\ IF id \in cancelled THEN Resting(id) = {}
       ELSE LET left == (RestingSize(id) + UnreportedSize(id)) - drift[id]
            IN ActiveSize(id) = IF left > 0 THEN left ELSE 0

\* Timers fire when they are due: in order, once, and before the next
\* event, although callbacks schedule and cancel them while others fire
\* (backtester.py:498-545).
TimersFireWhenDue == [](TypeOK /\ TimersFireInOrder /\ TimersAccounted) /\ NoDueTimerSkipped

\* A stopped strategy is left alone: after a fault no callback starts,
\* after a halt no market data and no timer, in the middle of a round as
\* well (strategy.py:70-90, backtester.py:390-408, 521-545).
StoppedStaysSilent == SilentAfterFault /\ HaltedNotDriven

=============================================================================
