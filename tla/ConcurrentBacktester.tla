------------------------ MODULE ConcurrentBacktester ------------------------
(***************************************************************************)
(* The concurrent backtester (python/backtester/concurrent.py): an ingest  *)
(* thread feeds events through a bounded queue to a strategy thread, which *)
(* drives the same Backtester object event by event and calls the          *)
(* strategy; orders the strategy submits travel through a second bounded   *)
(* queue to an order thread and the callback waits for their future.  A    *)
(* re-entrant lock is held around most calls into the backtester, but not  *)
(* around on_market_data.  The backtester's state and the functions both   *)
(* runners share are those of module Backtester.                           *)
(***************************************************************************)
EXTENDS Integers, FiniteSets, Sequences, SequencesExt

CONSTANTS
  EventTimes, FeedIds, OrderSize, MaxFills, TimerDelays, MaxActions, Interval,
  MaxCancels, CancelInterval, HaltOnViolation, MaxCalls, (* as in Backtester *)
  Capacity,      (* event_queue_size, the capacity of both queues             *)
  OrdersIn,      (* the callbacks in which the strategy submits and cancels   *)
  ImmediateIn,   (* those in which it schedules timers that are due at once   *)
  BadEvents      (* the events for which apply_event may raise                *)

ASSUME ConcurrentAssumption ==
  /\ Capacity \in Nat \ {0}
  /\ BadEvents \subseteq DOMAIN EventTimes

VARIABLES
  \* the Backtester object
  phase, event, pending, stack, calls, book, nextId, active, cancelled, drift, timers,
  live, nextTimer, fired, orderWindow, cancelWindow, halted, faulted,
  \* the runner
  mainPc,      (* where ConcurrentBacktester.run stands                    *)
  ingestPc,    (* where _ingest_loop stands                                *)
  ingested,    (* how many events the ingest thread has queued             *)
  strategyPc,  (* where _strategy_loop stands                              *)
  orderPc,     (* where _order_loop stands                                 *)
  command,     (* the command the order thread has taken                   *)
  eventQueue,  (* _event_queue                                             *)
  orderQueue,  (* _order_queue                                             *)
  lock,        (* the thread that holds _lock, or "free"                   *)
  request,     (* the call a thread is about to put in _order_queue        *)
  waiting,     (* the threads waiting for a future                         *)
  raised       (* is _exceptions not empty?                                *)

orderVars == <<book, nextId, active, cancelled, drift, orderWindow, cancelWindow>>
timerVars == <<timers, live, nextTimer, fired>>
backtester == <<phase, event, pending, stack, calls, orderVars, timerVars, halted, faulted>>
queues == <<eventQueue, orderQueue>>
pcs    == <<mainPc, ingestPc, ingested, strategyPc, orderPc, command>>
vars   == <<backtester, pcs, queues, lock, request, waiting, raised>>

\* The shared object; its serial run is what the runner should amount to.
Serial == INSTANCE Backtester

Threads == {"main", "strategy", "order"}
EndOfStream == 0
NoCommand == [kind |-> "none", id |-> 0, from |-> "main"]

Init ==
  /\ Serial!Init
  /\ mainPc = "start" /\ ingestPc = "off" /\ ingested = 0
  /\ strategyPc = "off" /\ orderPc = "off" /\ command = NoCommand
  /\ eventQueue = <<>> /\ orderQueue = <<>>
  /\ lock = "free" /\ request = {} /\ waiting = {} /\ raised = FALSE

\* put() blocks otherwise.
HasRoom(queue) == Len(queue) < Capacity

\* The thread a running callback runs on.
Runner(callback) ==
  IF callback = "on_order_accepted" THEN "order"
  ELSE IF phase \in {"started", "stop"} THEN "main" ELSE "strategy"

-----------------------------------------------------------------------------
(* run *)

RunnerFrame == UNCHANGED <<ingestPc, ingested, strategyPc, orderPc, command,
                           queues, request, waiting, raised>>

Start ==
  /\ mainPc = "start" /\ lock = "free"
  /\ Serial!StartStrategy
  /\ lock' = "main" /\ mainPc' = "started"
  /\ RunnerFrame

StartThreads ==
  /\ mainPc = "started" /\ stack = <<>>
  /\ lock' = "free" /\ mainPc' = "join"
  /\ ingestPc' = "put" /\ strategyPc' = "get" /\ orderPc' = "get"
  /\ UNCHANGED <<backtester, ingested, command, queues, request, waiting, raised>>

Finalise ==
  /\ mainPc = "join" /\ lock = "free"
  /\ ingestPc = "done" /\ strategyPc = "done" /\ orderPc = "done"
  /\ stack = <<>> /\ phase \in {"started", "data"}
  /\ phase' = "stop"
  /\ Serial!Invoke("on_stop")
  /\ UNCHANGED <<event, pending, calls, orderVars, timerVars, halted, faulted>>
  /\ lock' = "main" /\ mainPc' = "stop"
  /\ RunnerFrame

FinalTimer ==
  /\ mainPc = "stop" /\ Serial!FireTimer
  /\ UNCHANGED <<mainPc, lock>> /\ RunnerFrame

\* run() returns, or raises the first of _exceptions.
RunEnds ==
  /\ mainPc = "stop" /\ Serial!Return
  /\ lock' = "free" /\ mainPc' = "done"
  /\ RunnerFrame

Main == Start \/ StartThreads \/ Finalise \/ FinalTimer \/ RunEnds

-----------------------------------------------------------------------------
(* _ingest_loop *)

Ingest ==
  /\ ingestPc = "put" /\ HasRoom(eventQueue)
  /\ \/ /\ ingested < Len(EventTimes)
        /\ ingested' = ingested + 1
        /\ eventQueue' = Append(eventQueue, ingested')
        /\ UNCHANGED ingestPc
     \/ /\ ingested = Len(EventTimes)
        /\ eventQueue' = Append(eventQueue, EndOfStream)
        /\ ingestPc' = "done"
        /\ UNCHANGED ingested
  /\ UNCHANGED <<backtester, mainPc, strategyPc, orderPc, command, orderQueue, lock,
                 request, waiting, raised>>

-----------------------------------------------------------------------------
(* _strategy_loop and _handle_event *)

StrategyFrame == UNCHANGED <<mainPc, ingestPc, ingested, orderPc, command, request, waiting>>

GetEvent ==
  /\ strategyPc = "get" /\ eventQueue # <<>>
  /\ eventQueue' = Tail(eventQueue)
  /\ strategyPc' = IF Head(eventQueue) = EndOfStream THEN "finish" ELSE "take"
  /\ UNCHANGED <<backtester, orderQueue, lock, raised>> /\ StrategyFrame

\* The clock moves, under the lock, which is kept until apply_event is done.
TakeEvent ==
  /\ strategyPc = "take" /\ lock = "free"
  /\ phase \in {"started", "data"}
  /\ lock' = "strategy" /\ strategyPc' = "handle"
  /\ phase' = "head" /\ event' = event + 1
  /\ UNCHANGED <<pending, stack, calls, orderVars, timerVars, halted, faulted, queues, raised>>
  /\ StrategyFrame

\* Before apply_event, and again at the end of on_market_data: not after fills.
HandleTimer ==
  /\ strategyPc = "handle" /\ phase \in {"head", "data"}
  /\ Serial!FireTimer
  /\ UNCHANGED <<strategyPc, queues, lock, raised>> /\ StrategyFrame

HandleDispatch ==
  /\ strategyPc = "handle"
  /\ Serial!Dispatch
  /\ lock' = "free"
  /\ UNCHANGED <<strategyPc, queues, raised>> /\ StrategyFrame

\* apply_event raises: the lock is released and the loop ends.
HandleFails ==
  /\ strategyPc = "handle" /\ event \in BadEvents
  /\ phase = "head" /\ stack = <<>> /\ Serial!NothingDue
  /\ lock' = "free" /\ raised' = TRUE
  /\ strategyPc' = "finish"
  /\ phase' = "data"
  /\ UNCHANGED <<event, pending, stack, calls, orderVars, timerVars, halted, faulted, queues>>
  /\ StrategyFrame

\* Each fill is processed under the lock, which is held while on_fill runs.
HandleFill ==
  /\ strategyPc = "handle" /\ lock = "free" /\ phase = "fills" /\ pending # <<>>
  /\ Serial!Report(Head(pending))
  /\ pending' = Tail(pending)
  /\ Serial!RiskCheck
  /\ Serial!Invoke("on_fill")
  /\ lock' = "strategy"
  /\ UNCHANGED <<phase, event, calls, book, nextId, cancelled, orderWindow, cancelWindow,
                 timerVars, faulted, strategyPc, queues, raised>>
  /\ StrategyFrame

ReleaseAfterFill ==
  /\ strategyPc = "handle" /\ phase = "fills" /\ lock = "strategy" /\ stack = <<>>
  /\ lock' = "free"
  /\ UNCHANGED <<backtester, strategyPc, queues, raised>> /\ StrategyFrame

FillsProcessed == pending = <<>>

\* The snapshot is logged under the lock, then on_market_data runs without it.
HandleMarketData ==
  /\ strategyPc = "handle" /\ lock = "free" /\ phase = "fills" /\ FillsProcessed
  /\ phase' = "data"
  /\ Serial!RiskCheck
  /\ IF halted' THEN UNCHANGED stack ELSE Serial!Invoke("on_market_data")
  /\ UNCHANGED <<event, pending, calls, orderVars, timerVars, faulted, strategyPc, queues,
                 lock, raised>>
  /\ StrategyFrame

HandleDone ==
  /\ strategyPc = "handle" /\ phase = "data" /\ stack = <<>> /\ Serial!NothingDue
  /\ strategyPc' = "get"
  /\ UNCHANGED <<backtester, queues, lock, raised>> /\ StrategyFrame

\* Mutant: the order thread is not told to stop.
PutStopForgotten ==
  /\ strategyPc = "finish" /\ strategyPc' = "done"
  /\ UNCHANGED <<backtester, queues, lock, raised>> /\ StrategyFrame

PutStop ==
  /\ strategyPc = "finish" /\ HasRoom(orderQueue)
  /\ orderQueue' = Append(orderQueue, [kind |-> "stop", id |-> 0, from |-> "strategy"])
  /\ strategyPc' = "done"
  /\ UNCHANGED <<backtester, eventQueue, lock, raised>> /\ StrategyFrame

StrategyLoop ==
  \/ GetEvent \/ TakeEvent \/ HandleTimer \/ HandleDispatch \/ HandleFails
  \/ HandleFill \/ ReleaseAfterFill \/ HandleMarketData \/ HandleDone \/ PutStop

-----------------------------------------------------------------------------
(* The strategy's callbacks, on whichever thread runs them *)

CallbackFrame == UNCHANGED <<pcs, eventQueue, lock, raised>>

\* The innermost callback runs unless its thread waits for a future.  A
\* thread whose callback waits is in no other callback.
Running(thread) ==
  /\ stack # <<>> /\ Runner(Last(stack)) = thread
  /\ thread \notin waiting /\ request = {}

\* submit_order and cancel_order create a future and put a command in the
\* order queue ...
RequestOrder(thread) ==
  /\ Running(thread) /\ Last(stack) \in OrdersIn /\ calls < MaxCalls
  /\ \/ request' = {[kind |-> "submit", id |-> 0, from |-> thread]}
     \/ \E id \in 1..(nextId - 1) :
          request' = {[kind |-> "cancel", id |-> id, from |-> thread]}
  /\ UNCHANGED <<backtester, orderQueue, waiting>> /\ CallbackFrame

\* Mutant: the callback does not wait for its future.
WaitNot(thread) == UNCHANGED waiting

Wait(thread) == waiting' = waiting \cup {thread}

\* ... once the queue has room, and wait.
PutOrder(thread) ==
  /\ \E c \in request : /\ c.from = thread
                        /\ orderQueue' = Append(orderQueue, c)
  /\ HasRoom(orderQueue)
  /\ request' = {}
  /\ Wait(thread)
  /\ UNCHANGED backtester /\ CallbackFrame

\* Timers are scheduled and cancelled directly.  Those due at once are for
\* callbacks after which both runners fire timers at the same point.
TimerCall(thread) ==
  /\ Running(thread) /\ Serial!Call
  /\ \/ \E delay \in TimerDelays : /\ delay > 0 \/ Last(stack) \in ImmediateIn
                                   /\ Serial!ScheduleTimer(delay)
     \/ \E id \in live : Serial!CancelTimer(id)
  /\ UNCHANGED <<orderQueue, request, waiting>> /\ CallbackFrame

EndCallback(thread) ==
  /\ Running(thread)
  /\ Serial!CallbackReturns \/ Serial!CallbackRaises
  /\ UNCHANGED <<orderQueue, request, waiting>> /\ CallbackFrame

Callback(thread) ==
  RequestOrder(thread) \/ PutOrder(thread) \/ TimerCall(thread) \/ EndCallback(thread)

-----------------------------------------------------------------------------
(* _order_loop *)

OrderFrame == UNCHANGED <<mainPc, ingestPc, ingested, strategyPc, eventQueue, request>>

GetCommand ==
  /\ orderPc = "get" /\ orderQueue # <<>>
  /\ orderQueue' = Tail(orderQueue)
  /\ command' = Head(orderQueue)
  /\ orderPc' = IF command'.kind = "stop" THEN "done" ELSE "locked"
  /\ UNCHANGED <<backtester, lock, waiting, raised>> /\ OrderFrame

\* A refused submission raises, and its exception is recorded.
Execute ==
  /\ orderPc = "locked" /\ lock = "free"
  /\ lock' = "order" /\ orderPc' = "run"
  /\ calls' = calls + 1
  /\ \/ /\ command.kind = "submit"
        /\ Serial!SubmitOrder
        /\ raised' = (raised \/ nextId' = nextId)
     \/ /\ command.kind = "cancel"
        /\ Serial!CancelOrder(command.id)
        /\ UNCHANGED raised
  /\ UNCHANGED <<command, orderQueue, waiting>> /\ OrderFrame

\* Its on_order_accepted callback, if any, has returned.
Accepted == stack = <<>> \/ Last(stack) # "on_order_accepted"

\* The lock is released and the future resolved, with the id or the exception.
Resolve ==
  /\ orderPc = "run"
  /\ Accepted
  /\ lock' = "free" /\ orderPc' = "get"
  /\ waiting' = waiting \ {command.from}
  /\ command' = NoCommand
  /\ UNCHANGED <<backtester, orderQueue, raised>> /\ OrderFrame

OrderLoop == GetCommand \/ Execute \/ Resolve

-----------------------------------------------------------------------------

Next ==
  \/ Main \/ Ingest \/ StrategyLoop \/ OrderLoop
  \/ \E thread \in Threads : Callback(thread)

Spec == Init /\ [][Next]_vars

\* Every thread is scheduled, callbacks return, and queue.Queue wakes a
\* blocked thread: a thread that can go on does.
Fairness ==
  /\ WF_vars(Main \/ Callback("main"))
  /\ WF_vars(Ingest)
  /\ WF_vars(StrategyLoop \/ Callback("strategy"))
  /\ WF_vars(OrderLoop \/ Callback("order"))

FairSpec == Spec /\ Fairness

-----------------------------------------------------------------------------
(* Properties *)

\* Type correctness of the runner's own variables.
TypeOK ==
  /\ mainPc \in {"start", "started", "join", "stop", "done"}
  /\ ingestPc \in {"off", "put", "done"} /\ ingested \in 0..Len(EventTimes)
  /\ strategyPc \in {"off", "get", "take", "handle", "finish", "done"}
  /\ orderPc \in {"off", "get", "locked", "run", "done"}
  /\ eventQueue \in Seq(0..Len(EventTimes)) /\ Len(eventQueue) <= Capacity
  /\ Len(orderQueue) <= Capacity
  /\ \A c \in ToSet(orderQueue) \cup request \cup {command} :
       /\ c.kind \in {"submit", "cancel", "stop", "none"}
       /\ c.id \in Nat /\ c.from \in Threads
  /\ lock \in Threads \cup {"free"}
  /\ waiting \subseteq Threads /\ raised \in BOOLEAN

\* Is the thread executing in the backtester, not waiting for another?
InBacktester(thread) ==
  /\ thread \notin waiting
  /\ CASE thread = "main" -> mainPc \in {"started", "stop"}
       [] thread = "strategy" -> strategyPc = "handle"
       [] thread = "order" -> orderPc = "run"

\* At most one thread at a time works on the backtester, although the lock
\* does not cover on_market_data: the order thread only runs a command while
\* the callback that asked for it waits.
OneAtATime == \A t, u \in Threads : InBacktester(t) /\ InBacktester(u) => t = u

\* The threads together do what the serial backtester does: the same
\* callbacks, orders and fills in the same order (test_concurrent.py,
\* test_concurrent_backtester_matches_serial_results; architecture.md:76,
\* "while preserving order semantics"), as long as no event raises: the
\* serial runner stops there, this one still finalises.
SerialEquivalent == Serial!Init /\ [][raised' \/ Serial!Next]_(Serial!vars)

\* The strategy thread left when an event raised, and what was still to come
\* of the replay, its end marker included, did not fit into the queue that
\* nobody empties any more: put() blocks the ingest thread for good.
IngestStuck ==
  /\ raised /\ event \in BadEvents /\ strategyPc = "done"
  /\ Len(EventTimes) - event + 1 > Capacity
  /\ ingestPc = "put" /\ ~HasRoom(eventQueue)

\* run() returns, whatever the threads do and however small the queues are,
\* unless the ingest thread is stuck: a callback never waits for a future
\* that is not resolved, and a failed event alone does not keep run() from
\* joining its threads (concurrent.py:85-116, 155-202).
RunReturns == (mainPc = "start") ~> (mainPc = "done" \/ IngestStuck)

\* The threads implement the serial backtester, one of them at a time
\* inside it (concurrent.py:120-300).
ActsAsSerial == [](TypeOK /\ OneAtATime) /\ SerialEquivalent

-----------------------------------------------------------------------------
\* A feed for the runs: two events of one burst, and a later one.
BurstTimes == <<1, 1, 2>>

=============================================================================
