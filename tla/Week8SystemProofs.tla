-------------------------- MODULE Week8SystemProofs --------------------------
(***************************************************************************)
(* Theorems about Week8System, for any number of workers and ticks and any *)
(* order size: the executor's counter follows the tasks although a post is *)
(* counted late, and when wait_until_idle returns, every order sent has    *)
(* been filled and accounted for.                                          *)
(***************************************************************************)
EXTENDS Week8System, Lemmas, FiniteSetTheorems

-----------------------------------------------------------------------------
(* Counting modulo *)

\* A number is a multiple of the modulus and its remainder.
LEMMA ModuloOf == 
  ASSUME NEW W \in Nat \ {0}, NEW q \in Int, NEW r \in 0..(W-1)
  PROVE  (W * q + r) % W = r
OBVIOUS

\* The quotient and the remainder of a number.
LEMMA ModuloParts ==
  ASSUME NEW W \in Nat \ {0}, NEW a \in Int
  PROVE  a \div W \in Int /\ a % W \in 0..(W-1) /\ a = W * (a \div W) + (a % W)
OBVIOUS

\* A whole turn does not change the remainder.
LEMMA ModuloAround ==
  ASSUME NEW W \in Nat \ {0}, NEW a \in Int
  PROVE  (a + W) % W = a % W
<1> DEFINE q == a \div W
           r == a % W
<1>1. q \in Int /\ r \in 0..(W-1) /\ a = W * q + r  BY ModuloParts
<1> HIDE DEF q, r
<1>2. a + W = W * (q + 1) + r  BY <1>1
<1>3. (W * (q + 1) + r) % W = r  BY <1>1, ModuloOf
<1>4. QED  BY <1>2, <1>3 DEF r

\* Counting up may be done on the remainder.
LEMMA ModuloNext ==
  ASSUME NEW W \in Nat \ {0}, NEW a \in Int
  PROVE  ((a % W) + 1) % W = (a + 1) % W
<1> DEFINE q == a \div W
           r == a % W
<1>1. q \in Int /\ r \in 0..(W-1) /\ a = W * q + r  BY ModuloParts
<1> HIDE DEF q, r
<1>2. CASE r + 1 \in 0..(W-1)
  <2>1. (W * q + (r + 1)) % W = r + 1  BY <1>1, <1>2, ModuloOf
  <2>2. (W * 0 + (r + 1)) % W = r + 1  BY <1>1, <1>2, ModuloOf
  <2>3. a + 1 = W * q + (r + 1) /\ r + 1 = W * 0 + (r + 1)  BY <1>1
  <2>4. QED  BY <2>1, <2>2, <2>3 DEF r
<1>3. CASE r + 1 = W
  <2>1. (W * (q + 1) + 0) % W = 0 BY <1>1, ModuloOf
  <2>2. (W * 1 + 0) % W = 0  BY <1>1, ModuloOf
  <2>3. a + 1 = W * (q + 1) + 0 /\ r + 1 = W * 1 + 0  BY <1>1, <1>3
  <2>4. QED  BY <2>1, <2>2, <2>3 DEF r
<1>4. QED  BY <1>1, <1>2, <1>3
\* So may counting down, which Fewer does by a turn less one.
LEMMA ModuloPrevious ==
  ASSUME NEW W \in Nat \ {0}, NEW a \in Int
  PROVE  ((a % W) + W - 1) % W = (a - 1) % W
<1> DEFINE r == (a - 1) % W
<1>1. r \in 0..(W-1)  BY ModuloParts
<1>2. a % W = (r + 1) % W
  <2>1. PICK b \in Int : b = a - 1  OBVIOUS
  <2>2. ((b % W) + 1) % W = (b + 1) % W  BY ModuloNext
  <2>3. b + 1 = a  BY <2>1
  <2>4. QED  BY <2>1, <2>2, <2>3
<1> HIDE DEF r
<1>3. CASE r + 1 \in 0..(W-1)
  <2>1. (W * 0 + (r + 1)) % W = r + 1 /\ W * 0 + (r + 1) = r + 1  BY <1>3, ModuloOf
  <2>2. (W * 1 + r) % W = r  BY <1>1, ModuloOf
  <2>3. (r + 1) + W - 1 = W * 1 + r  BY <1>1
  <2>4. QED  BY <1>2, <2>1, <2>2, <2>3 DEF r
<1>4. CASE r + 1 = W
  <2>1. (W * 1 + 0) % W = 0 /\ W * 1 + 0 = W  BY <1>4, ModuloOf
  <2>2. (W * 0 + r) % W = r /\ W * 0 + r = W - 1  BY <1>1, <1>4, ModuloOf
  <2>3. 0 + W - 1 = W - 1  OBVIOUS
  <2>4. QED  BY <1>2, <1>4, <2>1, <2>2, <2>3 DEF r
<1>5. QED  BY <1>1, <1>3, <1>4

\* Between one turn down and one turn up, only zero is a multiple.
LEMMA ModuloSmall ==
  ASSUME NEW W \in Nat \ {0}, NEW a \in Int, a % W = 0, -W < a, a < W
  PROVE  a = 0
OBVIOUS

-----------------------------------------------------------------------------
(* The inductive invariant *)

Posted == [kind : {"signal", "mark"}, id : 1..Ticks]
            \cup [kind : {"order", "fill", "execution"}, id : 1..Ticks, side : {1, -1}]
Booked == [kind : {"execution"}, id : 1..Ticks, side : {1, -1}, read : Int]

\* What is queued or to be posted is a task, and a running worker has one.
Typed ==
  /\ TypeOK
  /\ queue \in Seq(Posted) /\ toPost \in [Threads -> Seq(Posted)]
  /\ \A w \in Workers : /\ worker[w] = "run" => job[w] \in Posted
                        /\ worker[w] = "position" => job[w] \in Booked
  /\ runner \in {"start", "subscribe"} => subscribed < 4

\* Only what is to be posted is pushed, and a worker posts after its handler
\* and one task at most.
PostsInTurn ==
  /\ \A t \in Threads : pushed[t] => toPost[t] # <<>>
  /\ \A w \in Workers : toPost[w] # <<>> => worker[w] = "post" /\ Len(toPost[w]) = 1

\* The counter, but for its wrapping.
Counted == pending = (Len(queue) + Cardinality(Busy) - Cardinality(Late)) % Wrap

\* The task moves the order on.
Carries(task, id) == task.kind \in {"order", "fill", "execution"} /\ task.id = id

\* Some task of the queue does, or the worker has one that it runs or posts.
Has(tasks, id) == \E i \in 1..Len(tasks) : Carries(tasks[i], id)
Holds(w, id) ==
  \/ worker[w] \in {"run", "position"} /\ Carries(job[w], id)
  \/ toPost[w] # <<>> /\ ~pushed[w] /\ Carries(toPost[w][1], id)

\* Some task still to be finished moves the order on.
OnItsWay(id) == Has(queue, id) \/ \E w \in Workers : Holds(w, id)

\* Only orders sent move on, and no order is lost on its way.
OrdersFollowed ==
  /\ \A id \in 1..Ticks : OnItsWay(id) => id \in sent
  /\ \A i \in 1..Len(toPost["market"]) : toPost["market"][i].kind \in {"signal", "mark"}
  /\ accounted \subseteq sent
  /\ ~early => \A id \in sent : id \in accounted \/ OnItsWay(id)

MarketDone == ticks = Ticks /\ toPost["market"] = <<>>

\* Nothing is queued or runs, and every post has only its count to come.
Quiet ==
  /\ queue = <<>>
  /\ \A w \in Workers : /\ worker[w] \notin {"run", "position"}
                        /\ toPost[w] # <<>> => pushed[w]

Phases ==
  /\ runner \in {"woken", "asleep", "idle", "destroy", "done"} => MarketDone
  /\ runner \in {"idle", "destroy", "done"} => Quiet

IdleInv == Typed /\ PostsInTurn /\ Counted /\ OrdersFollowed /\ Phases

\* What the proofs use of the constants.
LEMMA Constants ==
  /\ IsFiniteSet(Workers) /\ "market" \notin Workers /\ Ticks \in Nat
  /\ Wrap \in Nat /\ Wrap > 4 * Ticks + Cardinality(Workers) + 1 /\ OrderSize \in Nat \ {0}
  /\ Cardinality(Workers) \in Nat /\ Wrap \in Nat \ {0} /\ Wrap > Cardinality(Workers) + 1
<1>1. Cardinality(Workers) \in Nat  BY Week8Assumption, FS_CardinalityType
<1>2. QED  BY <1>1, Week8Assumption

-----------------------------------------------------------------------------
(* The lots of the risk component *)

Lots == [left : Int, lots : Seq(Int)]

\* One round leaves whole lots.
LEMMA MatchLotType ==
  ASSUME NEW acc \in Lots, NEW lot \in Int
  PROVE  MatchLot(acc, lot) \in Lots
<1> DEFINE closed == Closed(acc.left, lot)
<1>1. acc.left \in Int /\ acc.lots \in Seq(Int) /\ acc = [left |-> acc.left, lots |-> acc.lots]
  BY DEF Lots
<1>2. closed \in Int  BY <1>1 DEF Closed, Magnitude
<1> HIDE DEF closed
<1>3. lot + closed \in Int /\ acc.left - closed \in Int  BY <1>1, <1>2
<1>4. Append(acc.lots, lot) \in Seq(Int) /\ Append(acc.lots, lot + closed) \in Seq(Int)
  BY <1>1, <1>3
<1>5. [acc EXCEPT !.lots = Append(@, lot)] \in Lots  BY <1>1, <1>4 DEF Lots
<1>6. ASSUME NEW l \in Seq(Int) PROVE [left |-> acc.left - closed, lots |-> l] \in Lots
  BY <1>3 DEF Lots
<1>7. QED  BY <1>1, <1>4, <1>5, <1>6 DEF MatchLot, closed

\* So does the loop over the book (week8_system_integration.cpp:495-509).
LEMMA MatchingType ==
  ASSUME NEW left \in Int, NEW book \in Seq(Int)
  PROVE  Matching(left, book)[Len(book)] \in Lots
<1> DEFINE n    == Len(book)
           base == [left |-> left, lots |-> <<>>]
           step == [i \in 1..n |-> [acc \in Lots |-> MatchLot(acc, book[i])]]
           Body(g) == [i \in 0..n |-> IF i = 0 THEN base ELSE MatchLot(g[i - 1], book[i])]
           m    == Matching(left, book)
<1>1. n \in Nat  OBVIOUS
<1>2. base \in Lots
  <2>1. <<>> \in Seq(Int)  OBVIOUS
  <2>2. QED  BY <2>1 DEF Lots
<1>3. step \in [1..n -> [Lots -> Lots]]
  <2>1. ASSUME NEW i \in 1..n, NEW acc \in Lots PROVE MatchLot(acc, book[i]) \in Lots
    BY MatchLotType
  <2>2. QED  BY <2>1
<1> HIDE DEF n, base, step
<1>4. PICK f \in [0..n -> Lots] : IsRun(f, n, base, step)
  BY <1>1, <1>2, <1>3, LoopRuns
<1>5. f = Body(f)
  <2>1. ASSUME NEW i \in 1..n PROVE f[i] = MatchLot(f[i - 1], book[i])
    <3>1. i - 1 \in 0..n  BY <1>1
    <3>2. f[i - 1] \in Lots  BY <3>1
    <3>3. QED  BY <1>4, <3>2 DEF step, IsRun
  <2>2. \A i \in 0..n : i # 0 => i \in 1..n  BY <1>1
  <2>3. \A i \in 0..n : f[i] = Body(f)[i]  BY <1>4, <2>1, <2>2 DEF IsRun
  <2>4. QED  BY <2>3
<1>6. m = CHOOSE g : g = Body(g)  BY DEF Matching, n, base
<1>7. m = Body(m)
  <2> HIDE DEF Body, m
  <2>1. (CHOOSE g : g = Body(g)) = Body(CHOOSE g : g = Body(g))  BY <1>5
  <2>2. QED  BY <1>6, <2>1
<1> HIDE DEF m
<1>8. \A i \in 0..n : m[i] \in Lots
  <2> DEFINE T == {i \in 0..n : m[i] \in Lots}
  <2>1. 0 \in T  BY <1>1, <1>2, <1>7
  <2>2. ASSUME NEW i \in 0..n, i < n, i \in T PROVE i + 1 \in T
    <3>1. i + 1 \in 0..n /\ i + 1 # 0 /\ (i + 1) - 1 = i  BY <1>1, <2>2
    <3>2. m[i + 1] = MatchLot(m[i], book[i + 1])  BY <1>7, <3>1
    <3>3. book[i + 1] \in Int /\ m[i] \in Lots  BY <2>2, <3>1 DEF n
    <3>4. MatchLot(m[i], book[i + 1]) \in Lots  BY <3>3, MatchLotType
    <3>5. QED  BY <3>1, <3>2, <3>4
  <2> HIDE DEF T
  <2>3. \A i \in 0..n : i \in T  BY <1>1, <2>1, <2>2, UpTo
  <2>4. QED  BY <2>3 DEF T
<1>9. QED  BY <1>1, <1>8 DEF m, n

-----------------------------------------------------------------------------
(* Type correctness *)

\* What a task to be posted holds.
LEMMA PostedParts ==
  ASSUME NEW task \in Posted
  PROVE  /\ task \in Task /\ task.id \in 1..Ticks
         /\ task.kind \in {"signal", "mark", "order", "fill", "execution"}
         /\ task.kind \in {"order", "fill", "execution"} =>
              /\ task.side \in {1, -1}
              /\ task = [kind |-> task.kind, id |-> task.id, side |-> task.side]
<1>1. CASE task \in [kind : {"signal", "mark"}, id : 1..Ticks]  BY <1>1 DEF Posted, Task
<1>2. CASE task \in [kind : {"order", "fill", "execution"}, id : 1..Ticks, side : {1, -1}]
  BY <1>2 DEF Posted, Task
<1>3. QED  BY <1>1, <1>2 DEF Posted

\* What a handler posts next is a task.
LEMMA PostedNext ==
  /\ \A id \in 1..Ticks, kind \in {"signal", "mark"} : [kind |-> kind, id |-> id] \in Posted
  /\ \A id \in 1..Ticks, side \in {1, -1}, kind \in {"order", "fill", "execution"} :
       [kind |-> kind, id |-> id, side |-> side] \in Posted
BY DEF Posted

\* Publishing posts nothing, or the task; the task, if all are subscribed.
LEMMA HandledType ==
  ASSUME NEW task \in Posted, subscribed \in 0..4
  PROVE  /\ Handled(task) \in Seq(Posted)
         /\ Handled(task) = <<>> \/ Handled(task) = <<task>>
         /\ ~(subscribed < Len(Subscriptions)) /\ task.kind # "fill" => Handled(task) = <<task>>
<1>1. <<task>> \in Seq(Posted) /\ <<>> \in Seq(Posted)  OBVIOUS
<1>2. ASSUME ~(subscribed < Len(Subscriptions)), task.kind # "fill"
      PROVE  task.kind \in Handlers
  <2>1. subscribed = 4  BY <1>2 DEF Subscriptions
  <2>2. 1 \in 1..subscribed /\ 2 \in 1..subscribed /\ 3 \in 1..subscribed /\ 4 \in 1..subscribed
    BY <2>1
  <2>3. task.kind \in {"signal", "order", "mark", "execution"}  BY <1>2, PostedParts
  <2>4. QED  BY <2>2, <2>3 DEF Handlers, Subscriptions
<1>3. QED  BY <1>1, <1>2 DEF Handled

\* The system starts well typed.
LEMMA TypedInit == Init => Typed
<1> SUFFICES ASSUME Init PROVE Typed  OBVIOUS
<1> USE DEF Init
<1>1. <<>> \in Seq(Task) /\ <<>> \in Seq(Posted) /\ <<>> \in Seq(Int)  OBVIOUS
<1>2. TypeOK
  <2>1. None \in Task  BY DEF Task
  <2>2. ticks \in 0..Ticks /\ pending \in 0..(Wrap - 1)  BY Constants
  <2>3. toPost \in [Threads -> Seq(Task)] /\ job \in [Workers -> Task]  BY <1>1, <2>1
  <2>4. queue \in Seq(Task) /\ lots \in Seq(Int)  BY <1>1
  <2>5. pushed \in [Threads -> BOOLEAN] /\ {stopping, early, overlapped} \subseteq BOOLEAN  OBVIOUS
  <2>6. worker \in [Workers -> {"wait", "run", "position", "post", "check", "exited"}]  OBVIOUS
  <2>7. /\ runner \in {"start", "subscribe", "join", "woken", "asleep", "idle", "destroy", "done"}
        /\ position \in Int /\ subscribed \in 0..4 /\ sent \subseteq 1..Ticks
        /\ accounted \subseteq 1..Ticks
    OBVIOUS
  <2> HIDE DEF Init
  <2>8. QED  BY <2>2, <2>3, <2>4, <2>5, <2>6, <2>7 DEF TypeOK
<1>3. QED  BY <1>1, <1>2 DEF Typed

\* What of the tasks a step may change.
TasksTyped ==
  /\ queue \in Seq(Posted) /\ toPost \in [Threads -> Seq(Posted)]
  /\ job \in [Workers -> Task]
  /\ worker \in [Workers -> {"wait", "run", "position", "post", "check", "exited"}]
  /\ \A w \in Workers : /\ worker[w] = "run" => job[w] \in Posted
                        /\ worker[w] = "position" => job[w] \in Booked

\* What else it may change.
OthersTyped ==
  /\ subscribed \in 0..4 /\ ticks \in 0..Ticks /\ pending \in 0..(Wrap - 1)
  /\ runner \in {"start", "subscribe", "join", "woken", "asleep", "idle", "destroy", "done"}
  /\ pushed \in [Threads -> BOOLEAN]
  /\ lots \in Seq(Int) /\ position \in Int
  /\ sent \subseteq 1..Ticks /\ accounted \subseteq 1..Ticks
  /\ {stopping, early, overlapped} \subseteq BOOLEAN
  /\ runner \in {"start", "subscribe"} => subscribed < 4

\* The types of the tasks, and those of the rest.
LEMMA TypedParts == Typed <=> TasksTyped /\ OthersTyped
<1>1. Typed => TasksTyped /\ OthersTyped  BY DEF Typed, TypeOK, TasksTyped, OthersTyped
<1>2. ASSUME TasksTyped, OthersTyped PROVE Typed
  <2>1. Posted \subseteq Task  BY PostedParts
  <2>2. \A q \in Seq(Posted) : q \in Seq(Task)  BY <2>1
  <2>3. queue \in Seq(Task) /\ toPost \in [Threads -> Seq(Task)]  BY <1>2, <2>2 DEF TasksTyped
  <2>4. TypeOK  BY <1>2, <2>3 DEF TypeOK, TasksTyped, OthersTyped
  <2>5. QED  BY <1>2, <2>4 DEF Typed, TasksTyped, OthersTyped
<1>3. QED  BY <1>1, <1>2

\* Every step of a thread keeps the types.
LEMMA TypedStep == Typed /\ PostsInTurn /\ [Next]_vars => Typed'
<1> SUFFICES ASSUME TasksTyped, OthersTyped, PostsInTurn, [Next]_vars PROVE (TasksTyped /\ OthersTyped)'
  <2>1. Typed' <=> (TasksTyped /\ OthersTyped)'  BY TypedParts, PTL
  <2>2. QED  BY <2>1, TypedParts
<1> USE Constants
<1>1. CASE UNCHANGED vars
  BY <1>1 DEF vars, executorVars, riskVars, TasksTyped, OthersTyped
<1>2. CASE Runner
  <2>1. UNCHANGED <<executorVars, riskVars, ticks, sent, early>>  BY <1>2 DEF Runner
  <2>2. TasksTyped'  BY <2>1 DEF executorVars, TasksTyped
  <2>3. subscribed' \in 0..4 /\ stopping' \in BOOLEAN
        /\ runner' \in {"start", "subscribe", "join", "woken", "asleep", "idle", "destroy", "done"}
        /\ (runner' \in {"start", "subscribe"} => subscribed' < 4)
    <3>1. Len(Subscriptions) = 4  BY DEF Subscriptions
    <3>2. /\ subscribed \in 0..4 /\ (runner \in {"start", "subscribe"} => subscribed < 4)
          /\ stopping \in BOOLEAN
      BY DEF OthersTyped
    <3>3. CASE Subscribe  BY <3>1, <3>2, <3>3 DEF Subscribe
    <3>4. CASE StartMarket \/ JoinMarket \/ WaitUntilIdle \/ Destroy \/ JoinWorkers
      BY <3>2, <3>4 DEF StartMarket, JoinMarket, WaitUntilIdle, Destroy, JoinWorkers
    <3>5. QED  BY <1>2, <3>3, <3>4 DEF Runner
  <2>4. OthersTyped'  BY <2>1, <2>3 DEF executorVars, riskVars, OthersTyped
  <2>5. QED  BY <2>2, <2>4
<1>3. CASE EmitTick
  <2>1. ticks' \in 1..Ticks /\ subscribed \in 0..4  BY <1>3 DEF EmitTick, OthersTyped
  <2> DEFINE a == [kind |-> "signal", id |-> ticks']
             b == [kind |-> "mark", id |-> ticks']
  <2>2. a \in Posted /\ b \in Posted  BY <2>1, PostedNext
  <2> HIDE DEF a, b
  <2>3. Handled(a) \in Seq(Posted) /\ Handled(b) \in Seq(Posted)  BY <2>1, <2>2, HandledType
  <2>4. Handled(a) \o Handled(b) \in Seq(Posted)  BY <2>3
  <2>5. toPost' = [toPost EXCEPT !["market"] = Handled(a) \o Handled(b)]
        /\ early' = (early \/ subscribed < Len(Subscriptions))
    BY <1>3 DEF EmitTick, Publish, a, b
  <2>6. early' \in BOOLEAN  BY <2>5 DEF OthersTyped
  <2>7. TasksTyped'  BY <1>3, <2>4, <2>5 DEF EmitTick, TasksTyped
  <2>8. OthersTyped'  BY <1>3, <2>1, <2>6 DEF EmitTick, OthersTyped, riskVars
  <2>9. QED  BY <2>7, <2>8
<1>4. ASSUME NEW t \in Threads, Push(t) PROVE (TasksTyped /\ OthersTyped)'
  <2>1. toPost[t] \in Seq(Posted) /\ toPost[t] # <<>>  BY <1>4 DEF Push, TasksTyped
  <2>2. Head(toPost[t]) \in Posted  BY <2>1
  <2>3. queue' \in Seq(Posted)  BY <1>4, <2>2 DEF Push, TasksTyped
  <2>4. TasksTyped'  BY <1>4, <2>3 DEF Push, TasksTyped
  <2>5. pushed' \in [Threads -> BOOLEAN]  BY <1>4 DEF Push, OthersTyped
  <2>6. OthersTyped'  BY <1>4, <2>5 DEF Push, OthersTyped, riskVars
  <2>7. QED  BY <2>4, <2>6
<1>5. ASSUME NEW t \in Threads, Count(t) PROVE (TasksTyped /\ OthersTyped)'
  <2>1. toPost[t] \in Seq(Posted) /\ toPost[t] # <<>>
    BY <1>5 DEF Count, PostsInTurn, TasksTyped
  <2>2. Tail(toPost[t]) \in Seq(Posted)  BY <2>1
  <2>3. TasksTyped'  BY <1>5, <2>2 DEF Count, TasksTyped
  <2>4. pushed' \in [Threads -> BOOLEAN]  BY <1>5 DEF Count, OthersTyped
  <2>5. pending' \in 0..(Wrap - 1)
    <3>1. pending + 1 \in Int  BY DEF OthersTyped
    <3>2. QED  BY <1>5, <3>1, ModuloParts DEF Count
  <2>6. OthersTyped'  BY <1>5, <2>4, <2>5 DEF Count, OthersTyped, riskVars
  <2>7. QED  BY <2>3, <2>6
<1>6. ASSUME NEW w \in Workers, TakeTask(w) PROVE (TasksTyped /\ OthersTyped)'
  <2>1. queue \in Seq(Posted) /\ queue # <<>>  BY <1>6 DEF TakeTask, TasksTyped
  <2>2. Head(queue) \in Posted /\ Tail(queue) \in Seq(Posted)  BY <2>1
  <2>3. Head(queue) \in Task  BY <2>2, PostedParts
  <2>4. TasksTyped'  BY <1>6, <2>2, <2>3 DEF TakeTask, Move, TasksTyped
  <2>5. OthersTyped'  BY <1>6 DEF TakeTask, OthersTyped, riskVars
  <2>6. QED  BY <2>4, <2>5
<1>7. ASSUME NEW w \in Workers, RunTask(w) PROVE (TasksTyped /\ OthersTyped)'
  <2>1. UNCHANGED <<queue, pending, pushed, subscribed, runner, ticks, stopping>>
    BY <1>7 DEF RunTask
  <2>2. ASSUME worker[w] = "run", NEW posted \in Seq(Posted),
               toPost' = [toPost EXCEPT ![w] = posted] \/ toPost' = toPost,
               worker' = [worker EXCEPT ![w] = "post"], job' = job
        PROVE  TasksTyped'
    <3>1. w \in Threads  BY DEF Threads
    <3>2. toPost' \in [Threads -> Seq(Posted)]  BY <2>2, <3>1 DEF TasksTyped
    <3>3. worker' \in [Workers -> {"wait", "run", "position", "post", "check", "exited"}]
      BY <2>2 DEF TasksTyped
    <3>4. \A v \in Workers : worker'[v] \in {"run", "position"} => worker'[v] = worker[v]
      BY <2>2 DEF TasksTyped
    <3>5. QED  BY <2>1, <2>2, <3>2, <3>3, <3>4 DEF TasksTyped
  <2>3. ASSUME UNCHANGED riskVars, sent' \subseteq 1..Ticks, early' \in BOOLEAN
        PROVE  OthersTyped'
    BY <2>1, <2>3 DEF OthersTyped, riskVars
  <2>4. subscribed \in 0..4 /\ early \in BOOLEAN /\ sent \subseteq 1..Ticks
        /\ (early \/ subscribed < Len(Subscriptions)) \in BOOLEAN
    BY DEF OthersTyped
  <2>5. worker[w] = "run" => job[w] \in Posted  BY DEF TasksTyped
  <2>6. CASE Signal(w) /\ job' = job
    <3>1. job[w] \in Posted /\ worker[w] = "run" /\ worker' = [worker EXCEPT ![w] = "post"]
          /\ UNCHANGED riskVars
      BY <2>5, <2>6 DEF Signal, Move
    <3>2. job[w].id \in 1..Ticks  BY <3>1, PostedParts
    <3>3. CASE UNCHANGED <<toPost, sent, early>>
      <4>1. <<>> \in Seq(Posted)  OBVIOUS
      <4>2. TasksTyped'  BY <2>2, <2>6, <3>1, <3>3, <4>1
      <4>3. QED  BY <2>3, <2>4, <3>1, <3>3, <4>2
    <3>4. ASSUME NEW side \in {1, -1}, sent' = sent \cup {job[w].id},
                 Publish(w, Handled([kind |-> "order", id |-> job[w].id, side |-> side]))
          PROVE  (TasksTyped /\ OthersTyped)'
      <4> DEFINE task == [kind |-> "order", id |-> job[w].id, side |-> side]
      <4>1. task \in Posted  BY <3>2, PostedNext
      <4> HIDE DEF task
      <4>2. Handled(task) \in Seq(Posted)  BY <2>4, <4>1, HandledType
      <4>3. toPost' = [toPost EXCEPT ![w] = Handled(task)]
            /\ early' = (early \/ subscribed < Len(Subscriptions))
        BY <3>4 DEF Publish, task
      <4>4. TasksTyped'  BY <2>2, <2>6, <3>1, <4>2, <4>3
      <4>5. sent' \subseteq 1..Ticks  BY <2>4, <3>2, <3>4
      <4>6. QED  BY <2>3, <2>4, <3>1, <4>3, <4>4, <4>5
    <3>5. QED  BY <2>6, <3>3, <3>4 DEF Signal
  <2>7. CASE Mark(w) /\ job' = job
    <3>1. <<>> \in Seq(Posted)  OBVIOUS
    <3>2. TasksTyped'  BY <2>2, <2>7, <3>1 DEF Mark, Move
    <3>3. QED  BY <2>3, <2>4, <2>7, <3>2 DEF Mark
  <2>8. CASE OnOrder(w) /\ job' = job
    <3>1. job[w] \in Posted /\ job[w].kind = "order" /\ worker[w] = "run"
      BY <2>5, <2>8 DEF OnOrder, Move
    <3> DEFINE task == [job[w] EXCEPT !.kind = "fill"]
    <3>2. task \in Posted
      <4>1. job[w].id \in 1..Ticks /\ job[w].side \in {1, -1}
            /\ job[w] = [kind |-> job[w].kind, id |-> job[w].id, side |-> job[w].side]
        BY <3>1, PostedParts
      <4>2. task = [kind |-> "fill", id |-> job[w].id, side |-> job[w].side]  BY <4>1
      <4> HIDE DEF task
      <4>3. QED  BY <4>1, <4>2 DEF Posted
    <3> HIDE DEF task
    <3>3. <<task>> \in Seq(Posted)  BY <3>2
    <3>4. toPost' = [toPost EXCEPT ![w] = <<task>>]  BY <2>8 DEF OnOrder, task
    <3>5. TasksTyped'  BY <2>2, <2>8, <3>1, <3>3, <3>4 DEF OnOrder, Move
    <3>6. QED  BY <2>3, <2>4, <2>8, <3>5 DEF OnOrder
  <2>9. CASE FillOrder(w) /\ job' = job
    <3>1. job[w] \in Posted /\ job[w].kind = "fill" /\ worker[w] = "run"
      BY <2>5, <2>9 DEF FillOrder, Move
    <3> DEFINE task == [job[w] EXCEPT !.kind = "execution"]
    <3>2. task \in Posted
      <4>1. job[w].id \in 1..Ticks /\ job[w].side \in {1, -1}
            /\ job[w] = [kind |-> job[w].kind, id |-> job[w].id, side |-> job[w].side]
        BY <3>1, PostedParts
      <4>2. task = [kind |-> "execution", id |-> job[w].id, side |-> job[w].side]  BY <4>1
      <4> HIDE DEF task
      <4>3. QED  BY <4>1, <4>2 DEF Posted
    <3> HIDE DEF task
    <3>3. Handled(task) \in Seq(Posted)  BY <2>4, <3>2, HandledType
    <3>4. toPost' = [toPost EXCEPT ![w] = Handled(task)]
          /\ early' = (early \/ subscribed < Len(Subscriptions))
      BY <2>9 DEF FillOrder, Publish, task
    <3>5. TasksTyped'  BY <2>2, <2>9, <3>1, <3>3, <3>4 DEF FillOrder, Move
    <3>6. QED  BY <2>3, <2>4, <2>9, <3>4, <3>5 DEF FillOrder
  <2>10. CASE AccountLots(w)
    <3>1. job[w] \in Posted /\ job[w].kind = "execution" /\ worker[w] = "run"
      BY <2>5, <2>10 DEF AccountLots, Move
    <3>2. job[w].id \in 1..Ticks /\ job[w].side \in {1, -1}  BY <3>1, PostedParts
    <3>3. position \in Int /\ lots \in Seq(Int)  BY DEF OthersTyped
    <3> DEFINE read == [kind |-> "execution", id |-> job[w].id, side |-> job[w].side,
                        read |-> position]
               m == Matching(job[w].side * OrderSize, lots)[Len(lots)]
    <3>4. read \in Booked /\ read \in Task  BY <3>2, <3>3 DEF Booked, Task
    <3>5. job[w].side * OrderSize \in Int  BY <3>2
    <3>6. m \in Lots  BY <3>3, <3>5, MatchingType
    <3> HIDE DEF read, m
    <3>7. m.left \in Int /\ m.lots \in Seq(Int)  BY <3>6 DEF Lots
    <3>8. lots' = IF m.left = 0 THEN m.lots ELSE Append(m.lots, m.left)
      BY <2>10 DEF AccountLots, m
    <3>9. lots' \in Seq(Int)
      <4>1. Append(m.lots, m.left) \in Seq(Int)  BY <3>7
      <4>2. QED  BY <3>7, <3>8, <4>1
    <3>10. job' = [job EXCEPT ![w] = read] /\ worker' = [worker EXCEPT ![w] = "position"]
           /\ UNCHANGED <<toPost, sent, early, position, accounted>>
      BY <2>10 DEF AccountLots, Move, read
    <3>11. overlapped' \in BOOLEAN  BY <2>10 DEF AccountLots, OthersTyped
    <3>12. TasksTyped'  BY <2>1, <3>4, <3>10 DEF TasksTyped
    <3>13. OthersTyped'  BY <2>1, <3>9, <3>10, <3>11 DEF OthersTyped
    <3>14. QED  BY <3>12, <3>13
  <2>11. CASE AccountPosition(w)
    <3>1. job[w] \in Booked /\ worker' = [worker EXCEPT ![w] = "post"]
      BY <2>11 DEF AccountPosition, Move, TasksTyped
    <3>2. job[w].id \in 1..Ticks /\ job[w].side \in {1, -1} /\ job[w].read \in Int
      BY <3>1 DEF Booked
    <3>3. position' \in Int  BY <2>11, <3>2 DEF AccountPosition
    <3>4. accounted' \subseteq 1..Ticks  BY <2>11, <3>2 DEF AccountPosition, OthersTyped
    <3>5. TasksTyped'  BY <2>1, <2>11, <3>1 DEF AccountPosition, TasksTyped
    <3>6. OthersTyped'  BY <2>1, <2>11, <3>3, <3>4 DEF AccountPosition, OthersTyped
    <3>7. QED  BY <3>5, <3>6
  <2>12. QED  BY <1>7, <2>6, <2>7, <2>8, <2>9, <2>10, <2>11 DEF RunTask
<1>8. ASSUME NEW w \in Workers, Uncount(w) PROVE (TasksTyped /\ OthersTyped)'
  <2>1. None \in Task  BY DEF Task
  <2>2. TasksTyped'  BY <1>8, <2>1 DEF Uncount, Move, TasksTyped
  <2>3. pending' \in 0..(Wrap - 1)
    <3>1. pending + Wrap - 1 \in Int  BY DEF OthersTyped
    <3>2. QED  BY <1>8, <3>1, ModuloParts DEF Uncount, Fewer
  <2>4. OthersTyped'  BY <1>8, <2>3 DEF Uncount, OthersTyped, riskVars
  <2>5. QED  BY <2>2, <2>4
<1>9. ASSUME NEW w \in Workers, CheckIdle(w) \/ Exit(w) PROVE (TasksTyped /\ OthersTyped)'
  <2>1. TasksTyped'  BY <1>9 DEF CheckIdle, Exit, Move, TasksTyped
  <2>2. runner' \in {"start", "subscribe", "join", "woken", "asleep", "idle", "destroy", "done"}
        /\ (runner' \in {"start", "subscribe"} => runner' = runner)
    BY <1>9 DEF CheckIdle, Exit, NotifyIfIdle, OthersTyped
  <2>3. OthersTyped'  BY <1>9, <2>2 DEF CheckIdle, Exit, OthersTyped, riskVars
  <2>4. QED  BY <2>1, <2>3
<1>10. QED
  BY <1>1, <1>2, <1>3, <1>4, <1>5, <1>6, <1>7, <1>8, <1>9
     DEF Next, Market, WorkerLoop, Post, Threads

-----------------------------------------------------------------------------
(* Posting *)

\* Running a task leaves its worker with at most one task to post.
LEMMA RunPosts ==
  ASSUME Typed, NEW w \in Workers, RunTask(w)
  PROVE  \/ /\ worker[w] = "run" /\ worker' = [worker EXCEPT ![w] = "post"]
            /\ \/ toPost' = toPost
               \/ \E task \in Posted : \/ toPost' = [toPost EXCEPT ![w] = <<>>]
                                      \/ toPost' = [toPost EXCEPT ![w] = <<task>>]
         \/ /\ worker[w] = "run" /\ worker' = [worker EXCEPT ![w] = "position"]
            /\ toPost' = toPost
         \/ /\ worker[w] = "position" /\ worker' = [worker EXCEPT ![w] = "post"]
            /\ toPost' = toPost
<1>1. subscribed \in 0..4 /\ (worker[w] = "run" => job[w] \in Posted)  BY DEF Typed, TypeOK
<1>2. CASE Signal(w)
  <2>1. worker[w] = "run" /\ worker' = [worker EXCEPT ![w] = "post"]  BY <1>2 DEF Signal, Move
  <2>2. job[w].id \in 1..Ticks  BY <1>1, <2>1, PostedParts
  <2>3. ASSUME NEW side \in {1, -1},
               Publish(w, Handled([kind |-> "order", id |-> job[w].id, side |-> side]))
        PROVE  \E task \in Posted : toPost' = [toPost EXCEPT ![w] = Handled(task)]
    <3>1. [kind |-> "order", id |-> job[w].id, side |-> side] \in Posted  BY <2>2, PostedNext
    <3>2. QED  BY <2>3, <3>1 DEF Publish
  <2>4. QED  BY <1>1, <1>2, <2>1, <2>3, HandledType DEF Signal
<1>3. CASE Mark(w)  BY <1>3 DEF Mark, Move
<1>4. ASSUME worker[w] = "run", job[w].kind \in {"order", "fill"}, NEW kind \in {"fill", "execution"}
      PROVE  [job[w] EXCEPT !.kind = kind] \in Posted
  <2>1. job[w].id \in 1..Ticks /\ job[w].side \in {1, -1}
        /\ job[w] = [kind |-> job[w].kind, id |-> job[w].id, side |-> job[w].side]
    BY <1>1, <1>4, PostedParts
  <2>2. [job[w] EXCEPT !.kind = kind] = [kind |-> kind, id |-> job[w].id, side |-> job[w].side]
    BY <2>1
  <2>3. QED  BY <2>1, <2>2 DEF Posted
<1>5. CASE OnOrder(w)
  <2>1. worker[w] = "run" /\ worker' = [worker EXCEPT ![w] = "post"] /\ job[w].kind = "order"
    BY <1>5 DEF OnOrder, Move
  <2>2. [job[w] EXCEPT !.kind = "fill"] \in Posted  BY <1>4, <2>1
  <2>3. toPost' = [toPost EXCEPT ![w] = <<[job[w] EXCEPT !.kind = "fill"]>>]  BY <1>5 DEF OnOrder
  <2>4. QED  BY <2>1, <2>2, <2>3
<1>6. CASE FillOrder(w)
  <2>1. worker[w] = "run" /\ worker' = [worker EXCEPT ![w] = "post"] /\ job[w].kind = "fill"
    BY <1>6 DEF FillOrder, Move
  <2>2. [job[w] EXCEPT !.kind = "execution"] \in Posted  BY <1>4, <2>1
  <2>3. toPost' = [toPost EXCEPT ![w] = Handled([job[w] EXCEPT !.kind = "execution"])]
    BY <1>6 DEF FillOrder, Publish
  <2>4. QED  BY <1>1, <2>1, <2>2, <2>3, HandledType
<1>7. CASE AccountLots(w)  BY <1>7 DEF AccountLots, Move
<1>8. CASE AccountPosition(w)  BY <1>8 DEF AccountPosition, Move
<1>9. QED  BY <1>2, <1>3, <1>5, <1>6, <1>7, <1>8 DEF RunTask

\* Every step keeps posts in turn: a thread posts before it moves on.
LEMMA PostsStep == Typed /\ PostsInTurn /\ [Next]_vars => PostsInTurn'
<1> SUFFICES ASSUME Typed, PostsInTurn, [Next]_vars PROVE PostsInTurn'  OBVIOUS
<1> USE Constants
<1>1. /\ toPost \in [Threads -> Seq(Posted)] /\ pushed \in [Threads -> BOOLEAN]
      /\ worker \in [Workers -> {"wait", "run", "position", "post", "check", "exited"}]
  BY DEF Typed, TypeOK
<1>2. \A w \in Workers : w \in Threads /\ w # "market"  BY DEF Threads
<1>3. CASE UNCHANGED <<toPost, pushed, worker>>  BY <1>3 DEF PostsInTurn
<1>4. CASE EmitTick
  <2>1. toPost["market"] = <<>> /\ UNCHANGED <<pushed, worker>>
        /\ \A w \in Workers : toPost'[w] = toPost[w]
    BY <1>1, <1>2, <1>4 DEF EmitTick, Publish
  <2>2. ~pushed["market"]  BY <2>1 DEF PostsInTurn, Threads
  <2>3. QED  BY <2>1, <2>2 DEF PostsInTurn, Threads
<1>5. ASSUME NEW t \in Threads, Push(t) PROVE PostsInTurn'
  BY <1>1, <1>5 DEF Push, PostsInTurn
<1>6. ASSUME NEW t \in Threads, Count(t) PROVE PostsInTurn'
  <2>1. toPost[t] \in Seq(Posted) /\ toPost[t] # <<>>  BY <1>1, <1>6 DEF Count, PostsInTurn
  <2>2. Len(Tail(toPost[t])) = Len(toPost[t]) - 1 /\ Tail(toPost[t]) \in Seq(Posted)  BY <2>1
  <2>3. t \in Workers => Tail(toPost[t]) = <<>>
    <3>1. t \in Workers => Len(Tail(toPost[t])) = 0  BY <2>1, <2>2 DEF PostsInTurn
    <3>2. QED  BY <2>2, <3>1, EmptySeq
  <2>4. \A u \in Threads \ {t} : toPost'[u] = toPost[u] /\ pushed'[u] = pushed[u]
    BY <1>1, <1>6 DEF Count
  <2>5. ~pushed'[t] /\ toPost'[t] = Tail(toPost[t]) /\ worker' = worker
    BY <1>1, <1>6 DEF Count
  <2>6. \A u \in Threads : pushed'[u] => toPost'[u] # <<>>  BY <2>4, <2>5 DEF PostsInTurn
  <2>7. \A w \in Workers : toPost'[w] # <<>> => worker'[w] = "post" /\ Len(toPost'[w]) = 1
    BY <1>2, <2>3, <2>4, <2>5 DEF PostsInTurn
  <2>8. QED  BY <2>6, <2>7 DEF PostsInTurn
<1>7. ASSUME NEW w \in Workers, NEW to, worker' = [worker EXCEPT ![w] = to],
             UNCHANGED <<toPost, pushed>>, toPost[w] = <<>>
      PROVE  PostsInTurn'
  BY <1>1, <1>2, <1>7 DEF PostsInTurn
<1>8. ASSUME NEW w \in Workers, worker[w] # "post" PROVE toPost[w] = <<>> /\ ~pushed[w]
  BY <1>2, <1>8 DEF PostsInTurn
<1>9. ASSUME NEW w \in Workers, TakeTask(w) \/ Uncount(w) \/ CheckIdle(w) \/ Exit(w)
      PROVE  PostsInTurn'
  BY <1>7, <1>8, <1>9 DEF TakeTask, Uncount, CheckIdle, Exit, Move
<1>10. ASSUME NEW w \in Workers, RunTask(w) PROVE PostsInTurn'
  <2>1. pushed' = pushed  BY <1>10 DEF RunTask
  <2>2. CASE toPost' = toPost /\ worker[w] # "post" /\ \E to : worker' = [worker EXCEPT ![w] = to]
    BY <1>7, <1>8, <2>1, <2>2
  <2>3. ASSUME worker[w] = "run", worker' = [worker EXCEPT ![w] = "post"], NEW tasks,
               toPost' = [toPost EXCEPT ![w] = tasks], tasks # <<>> => Len(tasks) = 1
        PROVE  PostsInTurn'
    <3>1. ~pushed[w]  BY <1>8, <2>3
    <3>2. \A t \in Threads \ {w} : toPost'[t] = toPost[t]  BY <1>1, <2>3
    <3>3. toPost'[w] = tasks /\ worker'[w] = "post"  BY <1>1, <1>2, <2>3
    <3>4. \A v \in Workers \ {w} : worker'[v] = worker[v]  BY <1>1, <2>3
    <3>5. QED  BY <1>2, <2>1, <2>3, <3>1, <3>2, <3>3, <3>4 DEF PostsInTurn
  <2>4. ASSUME NEW task PROVE Len(<<task>>) = 1  OBVIOUS
  <2>5. QED  BY <1>10, <2>2, <2>3, <2>4, RunPosts
<1>11. QED
  BY <1>3, <1>4, <1>5, <1>6, <1>9, <1>10
     DEF Next, Runner, Market, WorkerLoop, Post, Threads, vars, executorVars

-----------------------------------------------------------------------------
(* The executor's counter *)

\* Who is busy and who has a post uncounted are finite sets.
LEMMA BusyLate ==
  /\ IsFiniteSet(Threads) /\ IsFiniteSet(Busy) /\ IsFiniteSet(Late)
  /\ Cardinality(Busy) \in Nat /\ Cardinality(Late) \in Nat
  /\ Cardinality(Busy) <= Cardinality(Workers)
  /\ Cardinality(Late) <= Cardinality(Workers) + 1
<1>1. IsFiniteSet(Threads) /\ Cardinality(Threads) = Cardinality(Workers) + 1
  BY Constants, FS_AddElement DEF Threads
<1>2. Busy \subseteq Workers /\ Late \subseteq Threads  BY DEF Busy, Late
<1>3. IsFiniteSet(Busy) /\ Cardinality(Busy) <= Cardinality(Workers)
  BY <1>2, Constants, FS_Subset
<1>4. IsFiniteSet(Late) /\ Cardinality(Late) <= Cardinality(Threads)
  BY <1>1, <1>2, FS_Subset
<1>5. QED  BY <1>1, <1>3, <1>4, FS_CardinalityType

\* Every step keeps the counter with the tasks, posts counted late included.
LEMMA CountedStep == Typed /\ PostsInTurn /\ Counted /\ [Next]_vars => Counted'
<1> SUFFICES ASSUME Typed, PostsInTurn, Counted, [Next]_vars PROVE Counted'  OBVIOUS
<1> DEFINE tasks == Len(queue) + Cardinality(Busy) - Cardinality(Late)
<1>1. /\ queue \in Seq(Posted) /\ Len(queue) \in Nat /\ pushed \in [Threads -> BOOLEAN]
      /\ worker \in [Workers -> {"wait", "run", "position", "post", "check", "exited"}]
  BY DEF Typed, TypeOK
<1>2. tasks \in Int /\ pending = tasks % Wrap /\ Wrap \in Nat \ {0}
  BY <1>1, BusyLate, Constants DEF Counted
<1>3. UNCHANGED worker => Busy' = Busy  BY DEF Busy
<1>4. UNCHANGED pushed => Late' = Late  BY DEF Late
<1>5. ASSUME UNCHANGED <<queue, pending, pushed>>, Busy' = Busy PROVE Counted'
  BY <1>4, <1>5 DEF Counted
<1>6. ASSUME NEW t \in Threads, Push(t) PROVE Counted'
  <2>1. Len(queue') = Len(queue) + 1  BY <1>1, <1>6 DEF Push
  <2>2. Late' = Late \cup {t} /\ t \notin Late  BY <1>1, <1>6 DEF Push, Late
  <2>3. Cardinality(Late') = Cardinality(Late) + 1
    <3>1. Cardinality(Late \cup {t}) = Cardinality(Late) + 1  BY <2>2, BusyLate, FS_AddElement
    <3>2. QED  BY <2>2, <3>1
  <2>4. Busy' = Busy /\ pending' = pending  BY <1>3, <1>6 DEF Push
  <2>5. Len(queue') + Cardinality(Busy') - Cardinality(Late') = tasks
    BY <1>1, <2>1, <2>3, <2>4, BusyLate
  <2>6. QED  BY <1>2, <2>4, <2>5 DEF Counted
<1>7. ASSUME NEW t \in Threads, Count(t) PROVE Counted'
  <2>1. Late' = Late \ {t} /\ t \in Late  BY <1>1, <1>7 DEF Count, Late
  <2>2. Cardinality(Late') = Cardinality(Late) - 1
    <3>1. Cardinality(Late \ {t}) = Cardinality(Late) - 1  BY <2>1, BusyLate, FS_RemoveElement
    <3>2. QED  BY <2>1, <3>1
  <2>3. Busy' = Busy /\ queue' = queue /\ pending' = (pending + 1) % Wrap
    BY <1>3, <1>7 DEF Count
  <2>4. Len(queue') + Cardinality(Busy') - Cardinality(Late') = tasks + 1
    BY <1>1, <2>2, <2>3, BusyLate
  <2> HIDE DEF tasks
  <2>5. (pending + 1) % Wrap = (tasks + 1) % Wrap  BY <1>2, ModuloNext
  <2>6. QED  BY <2>3, <2>4, <2>5 DEF Counted
<1>8. ASSUME NEW w \in Workers, TakeTask(w) PROVE Counted'
  <2>1. queue # <<>>  BY <1>8 DEF TakeTask
  <2>2. Len(queue') = Len(queue) - 1  BY <1>1, <1>8, <2>1 DEF TakeTask
  <2>3. Busy' = Busy \cup {w} /\ w \notin Busy  BY <1>1, <1>8 DEF TakeTask, Move, Busy
  <2>4. Cardinality(Busy') = Cardinality(Busy) + 1
    <3>1. Cardinality(Busy \cup {w}) = Cardinality(Busy) + 1  BY <2>3, BusyLate, FS_AddElement
    <3>2. QED  BY <2>3, <3>1
  <2>5. Late' = Late /\ pending' = pending  BY <1>4, <1>8 DEF TakeTask
  <2>6. Len(queue') + Cardinality(Busy') - Cardinality(Late') = tasks
    BY <1>1, <2>2, <2>4, <2>5, BusyLate
  <2>7. QED  BY <1>2, <2>5, <2>6 DEF Counted
<1>9. ASSUME NEW w \in Workers, Uncount(w) PROVE Counted'
  <2>1. Busy' = Busy \ {w} /\ w \in Busy  BY <1>1, <1>9 DEF Uncount, Move, Busy
  <2>2. Cardinality(Busy') = Cardinality(Busy) - 1
    <3>1. Cardinality(Busy \ {w}) = Cardinality(Busy) - 1  BY <2>1, BusyLate, FS_RemoveElement
    <3>2. QED  BY <2>1, <3>1
  <2>3. Late' = Late /\ queue' = queue /\ pending' = (pending + Wrap - 1) % Wrap
    BY <1>4, <1>9 DEF Uncount, Fewer
  <2>4. Len(queue') + Cardinality(Busy') - Cardinality(Late') = tasks - 1
    BY <1>1, <2>2, <2>3, BusyLate
  <2> HIDE DEF tasks
  <2>5. (pending + Wrap - 1) % Wrap = (tasks - 1) % Wrap  BY <1>2, ModuloPrevious
  <2>6. QED  BY <2>3, <2>4, <2>5 DEF Counted
<1>10. ASSUME NEW w \in Workers, RunTask(w) PROVE Counted'
  <2>1. UNCHANGED <<queue, pending, pushed>>  BY <1>10 DEF RunTask
  <2>2. worker[w] \in {"run", "position"}
        /\ \E to \in {"position", "post"} : worker' = [worker EXCEPT ![w] = to]
    BY <1>10, RunPosts
  <2>3. Busy' = Busy  BY <1>1, <2>2 DEF Busy
  <2>4. QED  BY <1>5, <2>1, <2>3
<1>11. ASSUME NEW w \in Workers, CheckIdle(w) \/ Exit(w) PROVE Counted'
  <2>1. UNCHANGED <<queue, pending, pushed>>  BY <1>11 DEF CheckIdle, Exit
  <2>2. Busy' = Busy  BY <1>1, <1>11 DEF CheckIdle, Exit, Move, Busy
  <2>3. QED  BY <1>5, <2>1, <2>2
<1>12. CASE Runner \/ EmitTick \/ UNCHANGED vars
  BY <1>3, <1>5, <1>12 DEF Runner, EmitTick, vars, executorVars
<1>13. QED
  BY <1>6, <1>7, <1>8, <1>9, <1>10, <1>11, <1>12
     DEF Next, Market, WorkerLoop, Post, Threads

\* The counter follows the tasks, whatever the threads do.
LEMMA CountedTracks == Typed /\ Counted => PendingTracksTasks
<1> SUFFICES ASSUME Typed, Counted PROVE PendingTracksTasks  OBVIOUS
<1> DEFINE a == Len(queue) + Cardinality(Busy) - Cardinality(Late)
<1>1. a \in Int /\ Wrap \in Nat \ {0}  BY BusyLate, Constants DEF Typed, TypeOK
<1>2. ASSUME pending = (a + Wrap) % Wrap PROVE PendingTracksTasks
  BY <1>2 DEF PendingTracksTasks
<1>3. pending = a % Wrap  BY DEF Counted
<1> HIDE DEF a
<1>4. QED  BY <1>1, <1>2, <1>3, ModuloAround

-----------------------------------------------------------------------------
(* No order is lost on its way *)

\* What a queue holds after a push and after a take.
LEMMA QueueHas ==
  ASSUME NEW tasks \in Seq(Posted), NEW task \in Posted, NEW id
  PROVE  /\ Has(Append(tasks, task), id) <=> Has(tasks, id) \/ Carries(task, id)
         /\ tasks # <<>> => (Has(tasks, id) <=> Carries(Head(tasks), id) \/ Has(Tail(tasks), id))
<1> DEFINE n == Len(tasks)
<1>1. n \in Nat  OBVIOUS
<1>2. Has(Append(tasks, task), id) <=> Has(tasks, id) \/ Carries(task, id)
  <2> DEFINE longer == Append(tasks, task)
  <2>1. Len(longer) = n + 1 /\ longer[n + 1] = task /\ \A i \in 1..n : longer[i] = tasks[i]
    BY <1>1
  <2>2. \A i \in 1..(n + 1) : i = n + 1 \/ i \in 1..n  BY <1>1
  <2>3. n + 1 \in 1..(n + 1) /\ \A i \in 1..n : i \in 1..(n + 1)  BY <1>1
  <2> HIDE DEF longer
  <2>4. QED  BY <2>1, <2>2, <2>3 DEF Has, longer
<1>3. ASSUME tasks # <<>>
      PROVE  Has(tasks, id) <=> Carries(Head(tasks), id) \/ Has(Tail(tasks), id)
  <2> DEFINE rest == Tail(tasks)
  <2>1. n # 0  BY <1>3, EmptySeq
  <2>2. Len(rest) = n - 1 /\ Head(tasks) = tasks[1] /\ \A i \in 1..(n - 1) : rest[i] = tasks[i + 1]
    BY <1>1, <1>3, <2>1
  <2>3. /\ 1 \in 1..n /\ \A i \in 1..(n - 1) : i + 1 \in 1..n
        /\ \A i \in 1..n : i = 1 \/ (i - 1 \in 1..(n - 1) /\ (i - 1) + 1 = i)
    BY <1>1, <2>1
  <2> HIDE DEF rest
  <2>4. QED  BY <2>2, <2>3 DEF Has, rest
<1>4. QED  BY <1>2, <1>3

\* What a step of worker w leaves alone, keeps and adds.
Elsewhere(w) ==
  /\ \A v \in Workers \ {w} : /\ worker'[v] = worker[v] /\ job'[v] = job[v]
                              /\ toPost'[v] = toPost[v] /\ pushed'[v] = pushed[v]
  /\ toPost'["market"] = toPost["market"]

HistoriesGrow ==
  /\ early => early'
  /\ sent \subseteq sent' /\ sent' \subseteq 1..Ticks
  /\ accounted \subseteq accounted' /\ accounted' \subseteq sent'

NoneInvented(w) ==
  \A id \in 1..Ticks :
    Has(queue', id) \/ Holds(w, id)' => Has(queue, id) \/ Holds(w, id) \/ id \in sent'

NoneLost(w) ==
  ~early' => \A id \in 1..Ticks :
    Has(queue, id) \/ Holds(w, id) \/ id \in sent' \ sent =>
      Has(queue', id) \/ Holds(w, id)' \/ id \in accounted'

\* A step of one worker: it neither invents an order nor loses one.
LEMMA FollowedStep ==
  ASSUME OrdersFollowed, Typed, NEW w \in Workers,
         Elsewhere(w), HistoriesGrow, NoneInvented(w), NoneLost(w)
  PROVE  OrdersFollowed'
<1> USE DEF Elsewhere, HistoriesGrow, NoneInvented, NoneLost
<1>1. \A v \in Workers \ {w}, id \in 1..Ticks : Holds(v, id)' <=> Holds(v, id)  BY DEF Holds
<1>2. \A id \in 1..Ticks : OnItsWay(id)' <=>
         Has(queue', id) \/ Holds(w, id)' \/ \E v \in Workers \ {w} : Holds(v, id)
  BY <1>1 DEF OnItsWay
<1>3. \A id \in 1..Ticks : OnItsWay(id) <=>
         Has(queue, id) \/ Holds(w, id) \/ \E v \in Workers \ {w} : Holds(v, id)
  BY DEF OnItsWay
<1>4. \A id \in 1..Ticks : OnItsWay(id)' => id \in sent'  BY <1>2, <1>3 DEF OrdersFollowed
<1>5. ASSUME ~early', NEW id \in sent' PROVE id \in accounted' \/ OnItsWay(id)'
  <2>1. id \in 1..Ticks  OBVIOUS
  <2>2. id \in sent => id \in accounted \/ OnItsWay(id)  BY <1>5 DEF OrdersFollowed
  <2>3. QED  BY <1>2, <1>3, <1>5, <2>1, <2>2
<1>6. \A i \in 1..Len(toPost'["market"]) : toPost'["market"][i].kind \in {"signal", "mark"}
  BY DEF OrdersFollowed
<1>7. QED  BY <1>4, <1>5, <1>6 DEF OrdersFollowed

\* Every step keeps each order on its way to the accounts.
LEMMA FollowedNext == Typed /\ PostsInTurn /\ OrdersFollowed /\ [Next]_vars => OrdersFollowed'
<1> SUFFICES ASSUME Typed, PostsInTurn, OrdersFollowed, [Next]_vars PROVE OrdersFollowed'
  OBVIOUS
<1> USE Constants
<1>1. /\ queue \in Seq(Posted) /\ toPost \in [Threads -> Seq(Posted)]
      /\ pushed \in [Threads -> BOOLEAN] /\ job \in [Workers -> Task]
      /\ worker \in [Workers -> {"wait", "run", "position", "post", "check", "exited"}]
      /\ subscribed \in 0..4 /\ sent \subseteq 1..Ticks
  BY DEF Typed, TypeOK
<1>2. \A w \in Workers : w \in Threads /\ w # "market"  BY DEF Threads
<1>3. "market" \in Threads  BY DEF Threads
<1>4. ASSUME UNCHANGED <<queue, worker, job, sent, accounted>>, early => early',
             \A w \in Workers : toPost'[w] = toPost[w] /\ pushed'[w] = pushed[w],
             \A i \in 1..Len(toPost'["market"]) : toPost'["market"][i].kind \in {"signal", "mark"}
      PROVE  OrdersFollowed'
  <2>1. \A id \in 1..Ticks : OnItsWay(id)' <=> OnItsWay(id)  BY <1>4 DEF OnItsWay, Holds, Has
  <2>2. QED  BY <1>1, <1>4, <2>1 DEF OrdersFollowed
<1>5. CASE UNCHANGED vars \/ Runner
  <2>1. UNCHANGED <<queue, worker, job, sent, accounted, early, toPost, pushed>>
    BY <1>5 DEF Runner, vars, executorVars, riskVars
  <2>2. QED  BY <1>4, <2>1 DEF OrdersFollowed
<1>6. CASE EmitTick
  <2> DEFINE a == Handled([kind |-> "signal", id |-> ticks'])
             b == Handled([kind |-> "mark", id |-> ticks'])
  <2>1. UNCHANGED <<queue, worker, job, sent, accounted, pushed>> /\ (early => early')
        /\ toPost' = [toPost EXCEPT !["market"] = a \o b]
    BY <1>6 DEF EmitTick, Publish, riskVars
  <2>2. /\ a = <<>> \/ a = <<[kind |-> "signal", id |-> ticks']>>
        /\ b = <<>> \/ b = <<[kind |-> "mark", id |-> ticks']>>
    BY DEF Handled
  <2> HIDE DEF a, b
  <2>3. \A i \in 1..Len(a \o b) : (a \o b)[i].kind \in {"signal", "mark"}  BY <2>2
  <2>4. QED  BY <1>1, <1>2, <1>3, <1>4, <2>1, <2>3
<1>7. CASE Push("market")
  <2> DEFINE task == Head(toPost["market"])
  <2>1. /\ toPost["market"] # <<>> /\ queue' = Append(queue, task)
        /\ UNCHANGED <<toPost, worker, job, sent, accounted, early>>
        /\ \A w \in Workers : pushed'[w] = pushed[w]
    BY <1>1, <1>2, <1>7 DEF Push, riskVars
  <2>2. toPost["market"] \in Seq(Posted)  BY <1>1, <1>3
  <2>3. task \in Posted /\ task = toPost["market"][1] /\ 1 \in 1..Len(toPost["market"])
    BY <2>1, <2>2, EmptySeq
  <2>4. task.kind \in {"signal", "mark"}  BY <2>3 DEF OrdersFollowed
  <2> HIDE DEF task
  <2>5. \A id : ~Carries(task, id)  BY <2>4 DEF Carries
  <2>6. \A id : Has(queue', id) <=> Has(queue, id)  BY <1>1, <2>1, <2>3, <2>5, QueueHas
  <2>7. \A id \in 1..Ticks : OnItsWay(id)' <=> OnItsWay(id)
    <3>1. \A w \in Workers, id \in 1..Ticks : Holds(w, id)' <=> Holds(w, id)  BY <2>1 DEF Holds
    <3>2. \A id \in 1..Ticks : Has(queue, id)' <=> Has(queue, id)  BY <2>6 DEF Has
    <3>3. QED  BY <3>1, <3>2 DEF OnItsWay
  <2>8. QED  BY <1>1, <2>1, <2>7 DEF OrdersFollowed
<1>8. CASE Count("market")
  <2>1. /\ UNCHANGED <<queue, worker, job, sent, accounted, early>>
        /\ \A w \in Workers : pushed'[w] = pushed[w] /\ toPost'[w] = toPost[w]
        /\ pushed["market"] /\ toPost'["market"] = Tail(toPost["market"])
    BY <1>1, <1>2, <1>3, <1>8 DEF Count, riskVars
  <2>2. toPost["market"] # <<>> /\ toPost["market"] \in Seq(Posted)
    BY <1>1, <1>3, <2>1 DEF PostsInTurn
  <2> DEFINE rest == Tail(toPost["market"])
  <2>3. /\ Len(rest) = Len(toPost["market"]) - 1 /\ Len(toPost["market"]) \in Nat
        /\ \A i \in 1..Len(rest) : rest[i] = toPost["market"][i + 1]
    BY <2>2
  <2>4. \A i \in 1..Len(rest) : rest[i].kind \in {"signal", "mark"}
    <3> SUFFICES ASSUME NEW i \in 1..Len(rest) PROVE rest[i].kind \in {"signal", "mark"}  OBVIOUS
    <3>1. i + 1 \in 1..Len(toPost["market"])  BY <2>3
    <3>2. QED  BY <2>3, <3>1 DEF OrdersFollowed
  <2> HIDE DEF rest
  <2>5. toPost'["market"] = rest  BY <2>1 DEF rest
  <2>6. QED  BY <1>4, <2>1, <2>4, <2>5
<1>9. ASSUME NEW w \in Workers, worker[w] # "post" PROVE toPost[w] = <<>>
  BY <1>9 DEF PostsInTurn
<1>10. ASSUME NEW w \in Workers,
              UNCHANGED <<sent, early, accounted>>, NEW wpost, NEW wpushed, NEW wstate, NEW wjob,
              toPost' = [toPost EXCEPT ![w] = wpost] \/ toPost' = toPost,
              pushed' = [pushed EXCEPT ![w] = wpushed] \/ pushed' = pushed,
              worker' = [worker EXCEPT ![w] = wstate] \/ worker' = worker,
              job' = [job EXCEPT ![w] = wjob] \/ job' = job,
              \A id \in 1..Ticks : Has(queue', id) \/ Holds(w, id)' <=>
                                   Has(queue, id) \/ Holds(w, id)
       PROVE  OrdersFollowed'
  <2>1. Elsewhere(w)  BY <1>1, <1>2, <1>3, <1>10 DEF Elsewhere
  <2>2. HistoriesGrow  BY <1>1, <1>10 DEF HistoriesGrow, OrdersFollowed
  <2>3. NoneInvented(w) /\ NoneLost(w)  BY <1>10 DEF NoneInvented, NoneLost
  <2>4. QED  BY <2>1, <2>2, <2>3, FollowedStep
<1>11. ASSUME NEW w \in Workers, Push(w) PROVE OrdersFollowed'
  <2>1. toPost[w] # <<>> /\ ~pushed[w] /\ toPost[w] \in Seq(Posted) /\ worker[w] = "post"
    BY <1>1, <1>2, <1>11 DEF Push, PostsInTurn
  <2> DEFINE task == Head(toPost[w])
  <2>2. task \in Posted /\ task = toPost[w][1]  BY <2>1
  <2>3. queue' = Append(queue, task) /\ pushed' = [pushed EXCEPT ![w] = TRUE]
        /\ UNCHANGED <<toPost, worker, job, sent, early, accounted>>
    BY <1>11 DEF Push, riskVars
  <2> HIDE DEF task
  <2>4. \A id : Has(queue', id) <=> Has(queue, id) \/ Carries(task, id)
    BY <1>1, <2>2, <2>3, QueueHas
  <2>5. pushed'[w]  BY <1>1, <1>2, <2>3
  <2>6. \A id \in 1..Ticks : ~Holds(w, id)' /\ (Holds(w, id) <=> Carries(task, id))
    BY <2>1, <2>2, <2>3, <2>5 DEF Holds
  <2>7. \A id \in 1..Ticks : Has(queue', id) \/ Holds(w, id)' <=> Has(queue, id) \/ Holds(w, id)
    BY <2>4, <2>6
  <2>8. QED  BY <1>10, <2>3, <2>7
<1>12. ASSUME NEW w \in Workers, Count(w) PROVE OrdersFollowed'
  <2>1. pushed[w] /\ worker[w] = "post" /\ toPost[w] \in Seq(Posted) /\ Len(toPost[w]) = 1
        /\ toPost[w] # <<>>
    BY <1>1, <1>2, <1>12 DEF Count, PostsInTurn
  <2>2. /\ toPost' = [toPost EXCEPT ![w] = Tail(toPost[w])]
        /\ pushed' = [pushed EXCEPT ![w] = FALSE]
        /\ UNCHANGED <<queue, worker, job, sent, early, accounted>>
    BY <1>12 DEF Count, riskVars
  <2>3. toPost'[w] = <<>>
    <3>1. Tail(toPost[w]) \in Seq(Posted) /\ Len(Tail(toPost[w])) = 0  BY <2>1
    <3>2. Tail(toPost[w]) = <<>>  BY <3>1, EmptySeq
    <3>3. QED  BY <1>1, <1>2, <2>2, <3>2
  <2>4. \A id \in 1..Ticks : ~Holds(w, id)' /\ ~Holds(w, id)
    BY <2>1, <2>2, <2>3 DEF Holds
  <2>5. \A id \in 1..Ticks : Has(queue', id) \/ Holds(w, id)' <=> Has(queue, id) \/ Holds(w, id)
    BY <2>2, <2>4
  <2>6. QED  BY <1>10, <2>2, <2>5
<1>13. ASSUME NEW w \in Workers, TakeTask(w) PROVE OrdersFollowed'
  <2>1. worker[w] = "wait" /\ toPost[w] = <<>> /\ queue # <<>>
    BY <1>9, <1>13 DEF TakeTask, Move
  <2> DEFINE task == Head(queue)
  <2>2. task \in Posted  BY <1>1, <2>1
  <2>3. /\ queue' = Tail(queue) /\ job' = [job EXCEPT ![w] = task]
        /\ worker' = [worker EXCEPT ![w] = "run"]
        /\ UNCHANGED <<toPost, pushed, sent, early, accounted>>
    BY <1>13 DEF TakeTask, Move, riskVars
  <2>4. \A id : Has(queue, id) <=> Carries(task, id) \/ Has(queue', id)
    BY <1>1, <2>1, <2>2, <2>3, QueueHas
  <2> HIDE DEF task
  <2>5. worker'[w] = "run" /\ job'[w] = task  BY <1>1, <2>3
  <2>6. \A id \in 1..Ticks : ~Holds(w, id) /\ (Holds(w, id)' <=> Carries(task, id))
    BY <2>1, <2>3, <2>5 DEF Holds
  <2>7. \A id \in 1..Ticks : Has(queue', id) \/ Holds(w, id)' <=> Has(queue, id) \/ Holds(w, id)
    BY <2>4, <2>6
  <2>8. QED  BY <1>10, <2>3, <2>7
<1>14. ASSUME NEW w \in Workers, Uncount(w) \/ CheckIdle(w) \/ Exit(w) PROVE OrdersFollowed'
  <2>1. /\ worker[w] \in {"post", "check", "wait"} /\ toPost[w] = <<>>
        /\ \E to \in {"check", "wait", "exited"} : worker' = [worker EXCEPT ![w] = to]
        /\ job' = [job EXCEPT ![w] = None] \/ job' = job
        /\ UNCHANGED <<queue, toPost, pushed, sent, early, accounted>>
    BY <1>9, <1>14 DEF Uncount, CheckIdle, Exit, Move, riskVars
  <2>2. worker'[w] \notin {"run", "position"}  BY <1>1, <2>1
  <2>3. \A id \in 1..Ticks : ~Holds(w, id) /\ ~Holds(w, id)'  BY <2>1, <2>2 DEF Holds
  <2>4. \A id \in 1..Ticks : Has(queue', id) \/ Holds(w, id)' <=> Has(queue, id) \/ Holds(w, id)
    BY <2>1, <2>3
  <2>5. QED  BY <1>10, <2>1, <2>4
<1>15. ASSUME NEW w \in Workers, RunTask(w) PROVE OrdersFollowed'
  <2>1. /\ UNCHANGED <<queue, pushed>> /\ worker[w] \in {"run", "position"} /\ toPost[w] = <<>>
        /\ worker[w] = "run" => job[w] \in Posted
        /\ worker[w] = "position" => job[w] \in Booked
    BY <1>9, <1>15, RunPosts DEF RunTask, Typed
  <2>2. ~pushed[w] /\ pushed'[w] = pushed[w]  BY <1>2, <2>1 DEF PostsInTurn
  <2>3. \A id : Holds(w, id) <=> Carries(job[w], id)  BY <2>1 DEF Holds
  <2>4. \A id : Has(queue', id) <=> Has(queue, id)  BY <2>1
  <2>5. accounted \subseteq sent  BY DEF OrdersFollowed
  <2>6. ASSUME NEW tasks, toPost' = [toPost EXCEPT ![w] = tasks],
               worker' = [worker EXCEPT ![w] = "post"]
        PROVE  \A id : Holds(w, id)' <=> tasks # <<>> /\ Carries(tasks[1], id)
    <3>1. worker'[w] = "post" /\ toPost'[w] = tasks  BY <1>1, <1>2, <2>6
    <3>2. QED  BY <2>2, <3>1 DEF Holds
  <2>7. ASSUME NEW posted, toPost' = [toPost EXCEPT ![w] = posted] \/ toPost' = toPost,
               worker' = [worker EXCEPT ![w] = "post"], job' = job
        PROVE  Elsewhere(w)
    BY <1>1, <1>2, <1>3, <2>1, <2>7 DEF Elsewhere
  <2>17. \A task : <<task>> # <<>> /\ <<task>>[1] = task  OBVIOUS
  <2>8. CASE (Signal(w) \/ Mark(w)) /\ job' = job /\ UNCHANGED <<toPost, sent, early>>
    <3>1. worker[w] = "run" /\ worker' = [worker EXCEPT ![w] = "post"] /\ UNCHANGED accounted
          /\ job[w].kind \in {"signal", "mark"}
      BY <2>8 DEF Signal, Mark, Move, riskVars
    <3>2. worker'[w] = "post"  BY <1>1, <3>1
    <3>3. \A id \in 1..Ticks : ~Holds(w, id) /\ ~Holds(w, id)'
      BY <2>1, <2>3, <2>8, <3>1, <3>2 DEF Holds, Carries
    <3>4. QED  BY <1>10, <2>1, <2>4, <2>8, <3>1, <3>3
  <2>9. ASSUME job[w].kind = "signal", Move(w, "run", "post"), UNCHANGED riskVars, job' = job,
               NEW side \in {1, -1}, sent' = sent \cup {job[w].id},
               Publish(w, Handled([kind |-> "order", id |-> job[w].id, side |-> side]))
        PROVE  OrdersFollowed'
    <3> DEFINE task == [kind |-> "order", id |-> job[w].id, side |-> side]
               posted == Handled(task)
    <3>1. job[w] \in Posted /\ worker' = [worker EXCEPT ![w] = "post"] /\ accounted' = accounted
      BY <2>1, <2>9 DEF Move, riskVars
    <3>2. job[w].id \in 1..Ticks  BY <3>1, PostedParts
    <3>3. task \in Posted /\ task.kind = "order" /\ task.id = job[w].id  BY <3>2, PostedNext
    <3>4. toPost' = [toPost EXCEPT ![w] = posted]
          /\ early' = (early \/ subscribed < Len(Subscriptions))
      BY <2>9 DEF Publish
    <3> HIDE DEF task
    <3>5. posted = <<>> \/ posted = <<task>>  BY <1>1, <3>3, HandledType
    <3>6. ~early' => posted = <<task>>  BY <1>1, <3>3, <3>4, HandledType
    <3> HIDE DEF posted
    <3>7. \A id : Holds(w, id)' => id = job[w].id
      BY <2>6, <2>17, <3>1, <3>3, <3>4, <3>5 DEF Carries
    <3>8. ~early' => \A id : id = job[w].id => Holds(w, id)'
      <4>1. early' \/ (posted # <<>> /\ posted[1] = task)  BY <2>17, <3>6
      <4>2. Carries(task, job[w].id)  BY <3>3 DEF Carries
      <4>3. \A id : Holds(w, id)' <=> posted # <<>> /\ Carries(posted[1], id)  BY <2>6, <3>1, <3>4
      <4>4. QED  BY <4>1, <4>2, <4>3
    <3>9. \A id : ~Holds(w, id)  BY <2>3, <2>9 DEF Carries
    <3>10. HistoriesGrow
      BY <1>1, <2>5, <2>9, <3>1, <3>2, <3>4 DEF HistoriesGrow
    <3>11. NoneInvented(w)  BY <2>4, <2>9, <3>7 DEF NoneInvented
    <3>12. NoneLost(w)  BY <2>4, <2>9, <3>8, <3>9 DEF NoneLost
    <3>14. Elsewhere(w)  BY <2>7, <2>9, <3>1, <3>4
    <3>13. QED  BY <3>10, <3>11, <3>12, <3>14, FollowedStep
  <2>10. CASE OnOrder(w) /\ job' = job
    <3> DEFINE task == [job[w] EXCEPT !.kind = "fill"]
    <3>1. worker[w] = "run" /\ worker' = [worker EXCEPT ![w] = "post"] /\ job[w].kind = "order"
          /\ toPost' = [toPost EXCEPT ![w] = <<task>>] /\ UNCHANGED <<sent, early, accounted>>
      BY <2>10 DEF OnOrder, Move, riskVars
    <3>2. job[w] = [kind |-> job[w].kind, id |-> job[w].id, side |-> job[w].side]
      BY <2>1, <3>1, PostedParts
    <3>3. task.kind = "fill" /\ task.id = job[w].id  BY <3>2
    <3> HIDE DEF task
    <3>4. \A id : Carries(task, id) <=> Carries(job[w], id)  BY <3>1, <3>3 DEF Carries
    <3>5. <<task>> # <<>> /\ <<task>>[1] = task  OBVIOUS
    <3>6. \A id \in 1..Ticks : Has(queue', id) \/ Holds(w, id)' <=>
                               Has(queue, id) \/ Holds(w, id)
      BY <2>3, <2>4, <2>6, <3>1, <3>4, <3>5
    <3>7. QED  BY <1>10, <2>1, <2>10, <3>1, <3>6
  <2>11. CASE FillOrder(w) /\ job' = job
    <3> DEFINE task == [job[w] EXCEPT !.kind = "execution"]
               posted == Handled(task)
    <3>1. worker[w] = "run" /\ worker' = [worker EXCEPT ![w] = "post"] /\ job[w].kind = "fill"
          /\ toPost' = [toPost EXCEPT ![w] = posted] /\ UNCHANGED <<sent, accounted>>
          /\ early' = (early \/ subscribed < Len(Subscriptions))
      BY <2>11 DEF FillOrder, Publish, Move, riskVars
    <3>2. job[w].id \in 1..Ticks /\ job[w].side \in {1, -1}
          /\ job[w] = [kind |-> job[w].kind, id |-> job[w].id, side |-> job[w].side]
      BY <2>1, <3>1, PostedParts
    <3>3. task = [kind |-> "execution", id |-> job[w].id, side |-> job[w].side]  BY <3>2
    <3> HIDE DEF task
    <3>4. task \in Posted /\ task.kind = "execution" /\ task.id = job[w].id
      BY <3>2, <3>3 DEF Posted
    <3>5. posted = <<>> \/ posted = <<task>>  BY <1>1, <3>4, HandledType
    <3>6. ~early' => posted = <<task>>  BY <1>1, <3>1, <3>4, HandledType
    <3> HIDE DEF posted
    <3>7. \A id : Carries(task, id) <=> Carries(job[w], id)  BY <3>1, <3>4 DEF Carries
    <3>8. \A id : Holds(w, id)' => Holds(w, id)
      BY <2>3, <2>6, <2>17, <3>1, <3>5, <3>7
    <3>9. ~early' => \A id : Holds(w, id) => Holds(w, id)'
      <4>1. early' \/ (posted # <<>> /\ posted[1] = task)  BY <2>17, <3>6
      <4>2. QED  BY <2>3, <2>6, <3>1, <3>7, <4>1
    <3>10. HistoriesGrow /\ sent' \ sent = {}
      BY <1>1, <2>5, <3>1 DEF HistoriesGrow
    <3>11. NoneInvented(w)  BY <2>4, <3>8 DEF NoneInvented
    <3>12. NoneLost(w)  BY <2>4, <3>9, <3>10 DEF NoneLost
    <3>14. Elsewhere(w)  BY <2>7, <2>11, <3>1
    <3>13. QED  BY <3>10, <3>11, <3>12, <3>14, FollowedStep
  <2>12. CASE AccountLots(w)
    <3>1. /\ worker[w] = "run" /\ worker' = [worker EXCEPT ![w] = "position"]
          /\ job[w].kind = "execution"
          /\ job' = [job EXCEPT ![w] = [kind |-> "execution", id |-> job[w].id,
                                        side |-> job[w].side, read |-> position]]
          /\ UNCHANGED <<toPost, sent, early, accounted>>
      BY <2>12 DEF AccountLots, Move
    <3>2. worker'[w] = "position" /\ job'[w].kind = "execution" /\ job'[w].id = job[w].id
      BY <1>1, <3>1
    <3>3. \A id : Holds(w, id)' <=> Carries(job[w], id)
      BY <2>1, <3>1, <3>2 DEF Holds, Carries
    <3>4. \A id \in 1..Ticks : Has(queue', id) \/ Holds(w, id)' <=>
                               Has(queue, id) \/ Holds(w, id)
      BY <2>3, <2>4, <3>3
    <3>5. QED  BY <1>10, <2>1, <3>1, <3>4
  <2>13. CASE AccountPosition(w)
    <3>1. /\ worker[w] = "position" /\ worker' = [worker EXCEPT ![w] = "post"]
          /\ accounted' = accounted \cup {job[w].id} /\ UNCHANGED <<toPost, sent, early, job>>
      BY <2>13 DEF AccountPosition, Move
    <3>2. job[w].id \in 1..Ticks /\ job[w].kind = "execution"  BY <2>1, <3>1 DEF Booked
    <3>3. Holds(w, job[w].id) /\ \A id : Holds(w, id) => id = job[w].id
      BY <2>3, <3>2 DEF Carries
    <3>4. job[w].id \in sent  BY <3>2, <3>3 DEF OrdersFollowed, OnItsWay
    <3>5. worker'[w] = "post"  BY <1>1, <3>1
    <3>6. \A id : ~Holds(w, id)'  BY <2>1, <3>1, <3>5 DEF Holds
    <3>7. HistoriesGrow /\ sent' \ sent = {} /\ job[w].id \in accounted'
      BY <1>1, <2>5, <3>1, <3>4 DEF HistoriesGrow
    <3>8. NoneInvented(w)  BY <2>4, <3>6 DEF NoneInvented
    <3>9. NoneLost(w)  BY <2>4, <3>3, <3>7 DEF NoneLost
    <3>14. Elsewhere(w)  BY <2>7, <3>1
    <3>10. QED  BY <3>7, <3>8, <3>9, <3>14, FollowedStep
  <2>14. CASE Signal(w) /\ job' = job  BY <2>8, <2>9, <2>14 DEF Signal
  <2>15. CASE Mark(w) /\ job' = job  BY <2>8, <2>15 DEF Mark
  <2>16. QED  BY <1>15, <2>10, <2>11, <2>12, <2>13, <2>14, <2>15 DEF RunTask
<1>16. QED
  BY <1>5, <1>6, <1>7, <1>8, <1>11, <1>12, <1>13, <1>14, <1>15
     DEF Next, Market, WorkerLoop, Post

-----------------------------------------------------------------------------
(* Waiting until idle *)

\* With an empty queue and a count of zero, nothing is left to be run: the
\* busy workers are those whose post is still to be counted.
LEMMA IdleIsQuiet ==
  ASSUME Typed, PostsInTurn, Counted, MarketDone, Idle
  PROVE  Quiet
<1>1. queue = <<>> /\ pending = 0 /\ Len(queue) = 0  BY DEF Idle
<1>2. Late \subseteq Busy
  <2> SUFFICES ASSUME NEW t \in Late PROVE t \in Busy  OBVIOUS
  <2>1. t \in Threads /\ toPost[t] # <<>>  BY DEF Late, PostsInTurn
  <2>2. t \in Workers  BY <2>1 DEF MarketDone, Threads
  <2>3. QED  BY <2>1, <2>2 DEF PostsInTurn, Busy
<1>3. Cardinality(Busy) = Cardinality(Late)
  <2> DEFINE a == Cardinality(Busy) - Cardinality(Late)
  <2>1. a \in Int /\ -Wrap < a /\ a < Wrap  BY BusyLate, Constants
  <2>2. Len(queue) + Cardinality(Busy) - Cardinality(Late) = a  BY <1>1, BusyLate
  <2>3. a % Wrap = 0  BY <1>1, <2>2 DEF Counted
  <2>4. Wrap \in Nat \ {0}  BY Constants
  <2> HIDE DEF a
  <2>5. a = 0  BY <2>1, <2>3, <2>4, ModuloSmall
  <2>6. QED  BY <2>5, BusyLate DEF a
<1>4. Busy = Late  BY <1>2, <1>3, BusyLate, FS_Subset
<1>5. ASSUME NEW w \in Workers PROVE worker[w] \notin {"run", "position"}
  <2>1. SUFFICES ASSUME worker[w] \in {"run", "position"} PROVE FALSE  OBVIOUS
  <2>2. w \in Late  BY <1>4, <2>1 DEF Busy
  <2>3. toPost[w] # <<>>  BY <2>2 DEF Late, PostsInTurn
  <2>4. QED  BY <2>1, <2>3 DEF PostsInTurn
<1>6. ASSUME NEW w \in Workers, toPost[w] # <<>> PROVE pushed[w]
  <2>1. w \in Busy  BY <1>6 DEF PostsInTurn, Busy
  <2>2. QED  BY <1>4, <2>1 DEF Late
<1>7. QED  BY <1>1, <1>5, <1>6 DEF Quiet

\* Every step keeps the runner's phases in order.
LEMMA PhasesStep == IdleInv /\ [Next]_vars => Phases'
<1> SUFFICES ASSUME IdleInv, [Next]_vars PROVE Phases'  OBVIOUS
<1> USE Constants DEF IdleInv
<1>1. /\ toPost \in [Threads -> Seq(Posted)] /\ pushed \in [Threads -> BOOLEAN]
      /\ worker \in [Workers -> {"wait", "run", "position", "post", "check", "exited"}]
  BY DEF Typed, TypeOK
<1>2. \A w \in Workers : w \in Threads /\ w # "market"  BY DEF Threads
<1>3. MarketDone => ~pushed["market"] /\ ~EmitTick
  BY DEF MarketDone, PostsInTurn, Threads, EmitTick
<1>4. CASE UNCHANGED vars
  BY <1>4 DEF Phases, MarketDone, Quiet, vars, executorVars
<1>5. CASE Runner
  <2>1. UNCHANGED <<queue, toPost, pushed, worker, ticks>>  BY <1>5 DEF Runner, executorVars
  <2>2. (MarketDone' <=> MarketDone) /\ (Quiet' <=> Quiet)  BY <2>1 DEF MarketDone, Quiet
  <2>3. CASE WaitUntilIdle
    <3>1. MarketDone  BY <2>3 DEF WaitUntilIdle, Phases
    <3>2. runner' = "idle" => Quiet  BY <2>3, <3>1, IdleIsQuiet DEF WaitUntilIdle, IdleNow
    <3>3. runner' \in {"idle", "asleep"}  BY <2>3 DEF WaitUntilIdle
    <3>4. QED  BY <2>2, <3>1, <3>2, <3>3 DEF Phases
  <2>4. CASE StartMarket \/ Subscribe \/ JoinMarket \/ Destroy \/ JoinWorkers
    BY <2>2, <2>4 DEF StartMarket, Subscribe, JoinMarket, Destroy, JoinWorkers, Phases, MarketDone
  <2>5. QED  BY <1>5, <2>3, <2>4 DEF Runner
<1>6. CASE Market
  <2>1. ~MarketDone
    BY <1>3, <1>6 DEF Market, Post, Push, Count, MarketDone
  <2>2. runner' = runner  BY <1>6 DEF Market, EmitTick, Post, Push, Count
  <2>3. QED  BY <2>1, <2>2 DEF Phases
<1>7. ASSUME NEW w \in Workers, WorkerLoop(w) PROVE Phases'
  <2>1. ticks' = ticks /\ toPost'["market"] = toPost["market"]
    <3>1. RunTask(w) => toPost'["market"] = toPost["market"]
      BY <1>1, <1>2, RunPosts DEF Threads
    <3>2. Push(w) \/ Count(w) => toPost'["market"] = toPost["market"]
      BY <1>1, <1>2 DEF Push, Count, Threads
    <3>3. QED
      BY <1>7, <3>1, <3>2 DEF WorkerLoop, Post, Push, Count, RunTask, TakeTask, Uncount, CheckIdle, Exit
  <2>2. MarketDone => MarketDone'  BY <2>1 DEF MarketDone
  <2>3. runner' \in {"woken", "asleep"} \/ runner' = runner
    BY <1>7 DEF WorkerLoop, Post, Push, Count, RunTask, TakeTask, Uncount, CheckIdle, NotifyIfIdle, Exit
  <2>4. runner' # runner => runner \in {"woken", "asleep"}
    BY <1>7 DEF WorkerLoop, Post, Push, Count, RunTask, TakeTask, Uncount, CheckIdle, NotifyIfIdle, Exit
  <2>5. Quiet => Quiet'
    <3> SUFFICES ASSUME Quiet PROVE Quiet'  OBVIOUS
    <3>1. ~TakeTask(w) /\ ~Push(w) /\ ~RunTask(w)
      <4>1. ~TakeTask(w)  BY DEF TakeTask, Quiet
      <4>2. ~Push(w)  BY DEF Push, Quiet
      <4>3. ~RunTask(w)  BY RunPosts DEF Quiet
      <4>4. QED  BY <4>1, <4>2, <4>3
    <3>2. CASE Count(w)
      <4>1. toPost[w] \in Seq(Posted) /\ toPost[w] # <<>> /\ Len(toPost[w]) = 1
        BY <1>1, <1>2, <3>2 DEF Count, PostsInTurn
      <4>2. Tail(toPost[w]) \in Seq(Posted) /\ Len(Tail(toPost[w])) = 0  BY <4>1
      <4>3. Tail(toPost[w]) = <<>>  BY <4>2, EmptySeq
      <4>4. toPost'[w] = <<>> /\ \A v \in Workers \ {w} : toPost'[v] = toPost[v] /\ pushed'[v] = pushed[v]
        BY <1>1, <1>2, <3>2, <4>3 DEF Count
      <4>5. UNCHANGED <<queue, worker>>  BY <3>2 DEF Count
      <4>6. QED  BY <4>4, <4>5 DEF Quiet
    <3>3. CASE Uncount(w) \/ CheckIdle(w) \/ Exit(w)
      BY <1>1, <3>3 DEF Uncount, CheckIdle, Exit, Move, Quiet
    <3>4. QED  BY <1>7, <3>1, <3>2, <3>3 DEF WorkerLoop, Post
  <2>6. QED  BY <2>2, <2>3, <2>4, <2>5 DEF Phases
<1>8. QED  BY <1>4, <1>5, <1>6, <1>7 DEF Next

-----------------------------------------------------------------------------
(* The theorem *)

\* The invariant holds at the start.
LEMMA IdleInit == Init => IdleInv
<1> SUFFICES ASSUME Init PROVE IdleInv  OBVIOUS
<1>1. Typed  BY TypedInit
<1>2. PostsInTurn  BY DEF Init, PostsInTurn, Threads
<1>3. Counted
  <2>1. Busy = {} /\ Late = {}  BY DEF Init, Busy, Late
  <2>2. Cardinality(Busy) = 0 /\ Cardinality(Late) = 0  BY <2>1, FS_EmptySet
  <2>3. Len(queue) = 0 /\ pending = 0  BY DEF Init
  <2>4. Len(queue) + Cardinality(Busy) - Cardinality(Late) = 0  BY <2>2, <2>3
  <2>5. 0 % Wrap = 0  BY Constants
  <2>6. QED  BY <2>3, <2>4, <2>5 DEF Counted
<1>4. OrdersFollowed
  <2>1. \A id : ~OnItsWay(id)  BY DEF Init, OnItsWay, Has, Holds, Threads
  <2>2. QED  BY <2>1 DEF Init, OrdersFollowed, Threads
<1>5. Phases  BY DEF Init, Phases
<1>6. QED  BY <1>1, <1>2, <1>3, <1>4, <1>5 DEF IdleInv

\* The invariant says that idle is idle.
LEMMA IdleImplies == IdleInv => IdleIsIdle
<1> SUFFICES ASSUME IdleInv PROVE IdleIsIdle  OBVIOUS
<1> USE DEF IdleInv
<1>1. TypeOK /\ PendingTracksTasks  BY CountedTracks DEF Typed
<1>2. ASSUME runner \in {"idle", "destroy", "done"}, ~early PROVE sent = accounted
  <2>1. Quiet  BY <1>2 DEF Phases
  <2>2. \A id : ~OnItsWay(id)  BY <2>1 DEF Quiet, OnItsWay, Has, Holds
  <2>3. accounted \subseteq sent /\ \A id \in sent : id \in accounted
    BY <1>2, <2>2 DEF OrdersFollowed
  <2>4. QED  BY <2>3
<1>3. runner \in {"idle", "destroy", "done"} => queue = <<>>  BY DEF Phases, Quiet
<1>4. QED  BY <1>1, <1>2, <1>3 DEF IdleIsIdle, IdleMeansAccounted

\* The counter of pending tasks is the number of tasks queued or running,
\* short of the posts not yet counted, however the threads interleave; and
\* when wait_until_idle returns, every order sent was filled and its
\* execution accounted for, if the handlers were subscribed in time
\* (week8_system_integration.cpp:125-168).
THEOREM IdleMeansDone == Spec => []IdleIsIdle
<1>1. Init => IdleInv  BY IdleInit
<1>2. IdleInv /\ [Next]_vars => IdleInv'
  BY TypedStep, PostsStep, CountedStep, FollowedNext, PhasesStep DEF IdleInv
<1>3. IdleInv => IdleIsIdle  BY IdleImplies
<1>4. QED  BY <1>1, <1>2, <1>3, PTL DEF Spec

=============================================================================
