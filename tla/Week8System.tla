----------------------------- MODULE Week8System -----------------------------
(***************************************************************************)
(* The integrated system of src/week8_system_integration.cpp: the market   *)
(* data thread publishes ticks on the event bus, which posts one task per  *)
(* subscribed handler to a pool of worker threads; the strategy's task may *)
(* post an order, that one a fill, that one an execution for the risk      *)
(* component.  ScenarioRunner::run subscribes the handlers, joins the      *)
(* market thread, waits until the executor is idle and destroys it.        *)
(***************************************************************************)
EXTENDS Integers, FiniteSets, Sequences, SequencesExt

CONSTANTS
  Workers,     (* the executor's worker threads                            *)
  Ticks,       (* event_count                                              *)
  Wrap,        (* bound: pending_tasks_ counts modulo this, not 2^64       *)
  OrderSize    (* order_size                                               *)

ASSUME Week8Assumption ==
  /\ IsFiniteSet(Workers) /\ "market" \notin Workers /\ Ticks \in Nat
  /\ Wrap \in Nat /\ Wrap > 4 * Ticks + Cardinality(Workers) + 1
  /\ OrderSize \in Nat \ {0}

VARIABLES
  subscribed,  (* how many of the subscriptions run() makes are made       *)
  runner,      (* where ScenarioRunner::run stands                         *)
  ticks,       (* ticks emitted                                            *)
  queue,       (* tasks_                                                   *)
  pending,     (* pending_tasks_                                           *)
  stopping,    (* stopping_                                                *)
  toPost,      (* toPost[t]: the tasks thread t has still to post          *)
  pushed,      (* pushed[t]: is the first of them queued but not counted?  *)
  worker,      (* worker[w]: where the worker's loop stands                *)
  job,         (* job[w]: the task it runs                                 *)
  lots,        (* the sizes in inventory_lots_                             *)
  position,    (* position_                                                *)
  sent,        (* history: the orders published                            *)
  accounted,   (* history: the orders whose execution the risk component saw *)
  early,       (* history: was anything published before run() had         *)
               (* made every subscription?                                 *)
  overlapped   (* history: have two executions been accounted for at once? *)

executorVars == <<queue, pending, toPost, pushed, worker, job>>
riskVars == <<lots, position, accounted, overlapped>>
vars == <<executorVars, riskVars, subscribed, runner, ticks, stopping, sent, early>>

Threads == Workers \cup {"market"}
None == [kind |-> "none"]

\* The handlers in the order in which run() subscribes them.
Subscriptions == <<"signal", "order", "mark", "execution">>
Handlers == {Subscriptions[i] : i \in 1..subscribed}

Init ==
  /\ subscribed = 0 /\ runner = "start" /\ ticks = 0
  /\ queue = <<>> /\ pending = 0 /\ stopping = FALSE
  /\ toPost = [t \in Threads |-> <<>>] /\ pushed = [t \in Threads |-> FALSE]
  /\ worker = [w \in Workers |-> "wait"] /\ job = [w \in Workers |-> None]
  /\ lots = <<>> /\ position = 0
  /\ sent = {} /\ accounted = {} /\ early = FALSE /\ overlapped = FALSE

-----------------------------------------------------------------------------
(* EventBus and TaskExecutor::post *)

\* One task per handler subscribed to the channel by now.
Handled(task) == IF task.kind \in Handlers THEN <<task>> ELSE <<>>

Publish(t, tasks) ==
  /\ toPost' = [toPost EXCEPT ![t] = tasks]
  /\ early' = (early \/ subscribed < Len(Subscriptions))

Push(t) ==
  /\ toPost[t] # <<>> /\ ~pushed[t]
  /\ queue' = Append(queue, Head(toPost[t]))
  /\ pushed' = [pushed EXCEPT ![t] = TRUE]
  /\ UNCHANGED <<pending, toPost, worker, job, riskVars, subscribed, runner, ticks, stopping,
                 sent, early>>

\* pending_tasks_.fetch_add(1), after a worker may already have run the task.
Count(t) ==
  /\ pushed[t]
  /\ pending' = (pending + 1) % Wrap
  /\ pushed' = [pushed EXCEPT ![t] = FALSE]
  /\ toPost' = [toPost EXCEPT ![t] = Tail(@)]
  /\ UNCHANGED <<queue, worker, job, riskVars, subscribed, runner, ticks, stopping, sent, early>>

Post(t) == Push(t) \/ Count(t)

-----------------------------------------------------------------------------
(* MarketDataSimulator *)

EmitTick ==
  /\ runner # "start" /\ ticks < Ticks /\ toPost["market"] = <<>>
  /\ ticks' = ticks + 1
  /\ Publish("market", Handled([kind |-> "signal", id |-> ticks'])
                      \o Handled([kind |-> "mark", id |-> ticks']))
  /\ UNCHANGED <<queue, pending, pushed, worker, job, riskVars, subscribed, runner, stopping, sent>>

-----------------------------------------------------------------------------
(* TaskExecutor::worker_loop and the handlers *)

Move(w, from, to) == worker[w] = from /\ worker' = [worker EXCEPT ![w] = to]

TakeTask(w) ==
  /\ Move(w, "wait", "run") /\ queue # <<>>
  /\ job' = [job EXCEPT ![w] = Head(queue)] /\ queue' = Tail(queue)
  /\ UNCHANGED <<pending, toPost, pushed, riskVars, subscribed, runner, ticks, stopping, sent, early>>

\* StrategyEngine::on_market: an order if the signal is strong enough.
Signal(w) ==
  /\ job[w].kind = "signal" /\ Move(w, "run", "post")
  /\ \/ /\ \E side \in {1, -1} :
             Publish(w, Handled([kind |-> "order", id |-> job[w].id, side |-> side]))
        /\ sent' = sent \cup {job[w].id}
     \/ UNCHANGED <<toPost, sent, early>>
  /\ UNCHANGED riskVars

Mark(w) ==
  /\ job[w].kind = "mark" /\ Move(w, "run", "post")
  /\ UNCHANGED <<toPost, sent, early, riskVars>>

\* ExecutionHandler: on_order posts the fill directly, not over the bus.
OnOrder(w) ==
  /\ job[w].kind = "order" /\ Move(w, "run", "post")
  /\ toPost' = [toPost EXCEPT ![w] = <<[job[w] EXCEPT !.kind = "fill"]>>]
  /\ UNCHANGED <<sent, early, riskVars>>

FillOrder(w) ==
  /\ job[w].kind = "fill" /\ Move(w, "run", "post")
  /\ Publish(w, Handled([job[w] EXCEPT !.kind = "execution"]))
  /\ UNCHANGED <<sent, riskVars>>

Magnitude(x) == IF x < 0 THEN -x ELSE x
Opposite(a, b) == (a > 0 /\ b < 0) \/ (a < 0 /\ b > 0)

\* What the rounds of the loop take from the front lot together.  Each round
\* subtracts `matched` whatever the sign of remaining: a buy matches it away,
\* but a sell is left with more than before and goes on until the lot is gone.
Closed(left, lot) == IF left < 0 \/ Magnitude(lot) < left THEN Magnitude(lot) ELSE left

\* One lot of the loop: the loop stops at a lot of the same sign, or when
\* nothing is left.
MatchLot(acc, lot) ==
  LET closed == Closed(acc.left, lot)
  IN IF ~Opposite(acc.left, lot) THEN [acc EXCEPT !.lots = Append(@, lot)]
     ELSE [left |-> acc.left - closed,
           lots |-> IF closed = Magnitude(lot) THEN acc.lots
                    ELSE Append(acc.lots, lot + closed)]

\* What the loop has left, and which lots it keeps, after each lot of the book.
Matching(left, book) ==
  LET after[n \in 0..Len(book)] ==
        IF n = 0 THEN [left |-> left, lots |-> <<>>] ELSE MatchLot(after[n - 1], book[n])
  IN after

\* RiskAnalytics::on_execution, in two steps because nothing protects it:
\* the lots, and then `position_ += signed_qty`, which reads before it writes.
\* What concurrent changes of the vector do is not modelled, only recorded.
AccountLots(w) ==
  LET m == Matching(job[w].side * OrderSize, lots)[Len(lots)]
  IN /\ job[w].kind = "execution" /\ Move(w, "run", "position")
     /\ lots' = IF m.left = 0 THEN m.lots ELSE Append(m.lots, m.left)
     /\ job' = [job EXCEPT ![w] = [kind |-> "execution", id |-> @.id, side |-> @.side,
                                   read |-> position]]
     /\ overlapped' = (overlapped \/ \E v \in Workers \ {w} : worker[v] = "position")
     /\ UNCHANGED <<toPost, sent, early, position, accounted>>

AccountPosition(w) ==
  /\ Move(w, "position", "post")
  /\ position' = job[w].read + job[w].side * OrderSize
  /\ accounted' = accounted \cup {job[w].id}
  /\ UNCHANGED <<toPost, sent, early, lots, overlapped, job>>

RunTask(w) ==
  /\ \/ /\ Signal(w) \/ Mark(w) \/ OnOrder(w) \/ FillOrder(w)
        /\ UNCHANGED job
     \/ AccountLots(w) \/ AccountPosition(w)
  /\ UNCHANGED <<queue, pending, pushed, subscribed, runner, ticks, stopping>>

\* pending_tasks_.fetch_sub(1), on an unsigned counter.
Fewer(count) == (count + Wrap - 1) % Wrap

Uncount(w) ==
  /\ Move(w, "post", "check") /\ toPost[w] = <<>>
  /\ pending' = Fewer(pending)
  /\ job' = [job EXCEPT ![w] = None]
  /\ UNCHANGED <<queue, toPost, pushed, riskVars, subscribed, runner, ticks, stopping, sent, early>>

Idle == queue = <<>> /\ pending = 0

\* Mutant: the worker only looks at the queue.
NotifyNever == UNCHANGED runner

\* idle_cv_.notify_all() wakes the runner if it sleeps.
NotifyIfIdle == runner' = IF Idle /\ runner = "asleep" THEN "woken" ELSE runner

CheckIdle(w) ==
  /\ Move(w, "check", "wait")
  /\ NotifyIfIdle
  /\ UNCHANGED <<queue, pending, toPost, pushed, job, riskVars, subscribed, ticks, stopping, sent,
                 early>>

Exit(w) ==
  /\ Move(w, "wait", "exited") /\ stopping /\ queue = <<>>
  /\ UNCHANGED <<queue, pending, toPost, pushed, job, riskVars, subscribed, runner, ticks, stopping,
                 sent, early>>

WorkerLoop(w) ==
  TakeTask(w) \/ RunTask(w) \/ Post(w) \/ Uncount(w) \/ CheckIdle(w) \/ Exit(w)

-----------------------------------------------------------------------------
(* ScenarioRunner::run *)

\* market->start() comes first: ticks may be published from here on.
StartMarket == runner = "start" /\ runner' = "subscribe" /\ UNCHANGED <<subscribed, stopping>>

Subscribe ==
  /\ runner = "subscribe" /\ subscribed' = subscribed + 1
  /\ runner' = IF subscribed' = Len(Subscriptions) THEN "join" ELSE runner
  /\ UNCHANGED stopping

JoinMarket ==
  /\ runner = "join" /\ ticks = Ticks /\ toPost["market"] = <<>>
  /\ runner' = "woken" /\ UNCHANGED <<subscribed, stopping>>

\* Mutant: an empty queue is enough.
IdleWhenEmpty == queue = <<>>

IdleNow == Idle

\* wait_until_idle: the predicate is evaluated under the lock, first and
\* after every wake-up.
WaitUntilIdle ==
  /\ runner = "woken"
  /\ runner' = IF IdleNow THEN "idle" ELSE "asleep"
  /\ UNCHANGED <<subscribed, stopping>>

\* ~TaskExecutor lets the workers leave and joins them (workers_ last).
Destroy == runner = "idle" /\ runner' = "destroy" /\ stopping' = TRUE /\ UNCHANGED subscribed

JoinWorkers ==
  /\ runner = "destroy" /\ \A w \in Workers : worker[w] = "exited"
  /\ runner' = "done" /\ UNCHANGED <<subscribed, stopping>>

Runner ==
  /\ StartMarket \/ Subscribe \/ JoinMarket \/ WaitUntilIdle \/ Destroy \/ JoinWorkers
  /\ UNCHANGED <<executorVars, riskVars, ticks, sent, early>>

Market == EmitTick \/ Post("market")

Next == Runner \/ Market \/ \E w \in Workers : WorkerLoop(w)

Spec == Init /\ [][Next]_vars

\* Every thread is scheduled.
FairSpec == Spec /\ WF_vars(Runner) /\ WF_vars(Market) /\ \A w \in Workers : WF_vars(WorkerLoop(w))

-----------------------------------------------------------------------------
(* Properties *)

Task == {None} \cup [kind : {"signal", "mark"}, id : 1..Ticks]
          \cup [kind : {"order", "fill", "execution"}, id : 1..Ticks, side : {1, -1}]
          \cup [kind : {"execution"}, id : 1..Ticks, side : {1, -1}, read : Int]

\* Type correctness.
TypeOK ==
  /\ subscribed \in 0..4 /\ ticks \in 0..Ticks /\ pending \in 0..(Wrap - 1)
  /\ runner \in {"start", "subscribe", "join", "woken", "asleep", "idle", "destroy", "done"}
  /\ queue \in Seq(Task) /\ toPost \in [Threads -> Seq(Task)]
  /\ pushed \in [Threads -> BOOLEAN] /\ job \in [Workers -> Task]
  /\ worker \in [Workers -> {"wait", "run", "position", "post", "check", "exited"}]
  /\ lots \in Seq(Int) /\ position \in Int
  /\ sent \subseteq 1..Ticks /\ accounted \subseteq 1..Ticks
  /\ {stopping, early, overlapped} \subseteq BOOLEAN

\* The workers that have a task, and the posts queued and not counted.
Busy == {w \in Workers : worker[w] \in {"run", "position", "post"}}
Late == {t \in Threads : pushed[t]}

\* The counter is short of the tasks queued or running by the posts between
\* push and fetch_add, and goes below zero no further than that.
PendingTracksTasks ==
  pending = (Len(queue) + Cardinality(Busy) - Cardinality(Late) + Wrap) % Wrap

\* When wait_until_idle returns, every order is filled and its execution is
\* in the risk component's books, although the count runs behind the queue
\* and a worker may not have left post yet (week8_integration.md:20, "PnL
\* impact is fed back"), provided the handlers were subscribed in time.
IdleMeansAccounted ==
  runner \in {"idle", "destroy", "done"} =>
    /\ queue = <<>>
    /\ ~early => sent = accounted

\* The scenario ends: the runner is woken when the last task is done, and
\* every worker leaves.
RunCompletes == (runner = "start") ~> (runner = "done")

\* week8_integration.md:21: the risk component "maintains inventory lots":
\* between executions the lots add up to the position.
LotsAreThePosition ==
  ~overlapped /\ (\A w \in Workers : worker[w] # "position") =>
    FoldLeft(LAMBDA sum, size : sum + size, 0, lots) = position

\* The executor's count follows its tasks, and idle means that every order
\* was filled and accounted for (week8_system_integration.cpp:125-168).
IdleIsIdle == TypeOK /\ PendingTracksTasks /\ IdleMeansAccounted

=============================================================================
