--------------------------- MODULE BacktesterProofs ---------------------------
(* Theorems about the serial backtester, for every replay, any limits and    *)
(* any strategy.                                                             *)
EXTENDS Backtester, Lemmas

-----------------------------------------------------------------------------
(* Type correctness *)

\* The deque of the limiter of orders stays a deque of times.
LEMMA OrdersType ==
  ASSUME NEW w \in Seq(Nat), NEW t \in Nat
  PROVE  Orders!After(w, t) \in Seq(Nat)
<1> DEFINE T == {j \in 1..Len(w) : Orders!Outlived(w[j], t)}
           P(k) == /\ \A j \in 1..k : Orders!Outlived(w[j], t)
                   /\ k < Len(w) => ~Orders!Outlived(w[k + 1], t)
           k == Orders!Expired(w, t)
<1>1. Len(w) \in Nat  OBVIOUS
<1>2. PICK m \in 0..Len(w) : (\A j \in 1..m : j \in T) /\ (m < Len(w) => m + 1 \notin T)
  <2> HIDE DEF T
  <2>1. QED  BY <1>1, LongestRun
<1>3. P(m)  BY <1>1, <1>2
<1>4. k = CHOOSE i \in 0..Len(w) : P(i)  BY DEF Orders!Expired
<1>5. k \in 0..Len(w)  BY <1>3, <1>4
<1>6. Orders!Pruned(w, t) = SubSeq(w, k + 1, Len(w))  BY DEF Orders!Pruned
<1> HIDE DEF k
<1>7. Orders!Pruned(w, t) \in Seq(Nat)
  <2>1. k + 1 \in 1..(Len(w) + 1)  BY <1>1, <1>5
  <2>2. QED  BY <1>6, <2>1, TailFrom
<1>8. Append(Orders!Pruned(w, t), t) \in Seq(Nat)  BY <1>7
<1>9. QED  BY <1>7, <1>8 DEF Orders!After

\* The deque of the limiter of cancels stays a deque of times.
LEMMA CancelsType ==
  ASSUME NEW w \in Seq(Nat), NEW t \in Nat
  PROVE  Cancels!After(w, t) \in Seq(Nat)
<1> DEFINE T == {j \in 1..Len(w) : Cancels!Outlived(w[j], t)}
           P(k) == /\ \A j \in 1..k : Cancels!Outlived(w[j], t)
                   /\ k < Len(w) => ~Cancels!Outlived(w[k + 1], t)
           k == Cancels!Expired(w, t)
<1>1. Len(w) \in Nat  OBVIOUS
<1>2. PICK m \in 0..Len(w) : (\A j \in 1..m : j \in T) /\ (m < Len(w) => m + 1 \notin T)
  <2> HIDE DEF T
  <2>1. QED  BY <1>1, LongestRun
<1>3. P(m)  BY <1>1, <1>2
<1>4. k = CHOOSE i \in 0..Len(w) : P(i)  BY DEF Cancels!Expired
<1>5. k \in 0..Len(w)  BY <1>3, <1>4
<1>6. Cancels!Pruned(w, t) = SubSeq(w, k + 1, Len(w))  BY DEF Cancels!Pruned
<1> HIDE DEF k
<1>7. Cancels!Pruned(w, t) \in Seq(Nat)
  <2>1. k + 1 \in 1..(Len(w) + 1)  BY <1>1, <1>5
  <2>2. QED  BY <1>6, <2>1, TailFrom
<1>8. Append(Cancels!Pruned(w, t), t) \in Seq(Nat)  BY <1>7
<1>9. QED  BY <1>7, <1>8 DEF Cancels!After

\* The deque of either limiter stays a deque of times.
LEMMA WindowTypes ==
  ASSUME NEW w \in Seq(Nat), NEW t \in Nat
  PROVE  Orders!After(w, t) \in Seq(Nat) /\ Cancels!After(w, t) \in Seq(Nat)
BY OrdersType, CancelsType

\* The clock of the replay (clock_ns) is a time, before and after a step.
LEMMA ClockType ==
  /\ TypeOK => Clock \in Nat
  /\ TypeOK' => Clock' \in Nat
<1>1. TypeOK => Clock \in Nat
  BY BacktesterAssumption DEF TypeOK, Clock, BacktesterAssumption
<1>2. (TypeOK => Clock \in Nat)'  BY <1>1, PTL
<1>3. QED  BY <1>1, <1>2

\* A callback is called, or none is.
LEMMA InvokeType ==
  ASSUME TypeOK, NEW callback \in Callbacks, Invoke(callback)
  PROVE  stack' \in Seq(Callbacks)
BY DEF TypeOK, Invoke

\* The replay starts well typed.
LEMMA TypeInit == Init => TypeOK
<1> SUFFICES ASSUME Init PROVE TypeOK  OBVIOUS
<1>1. <<>> \in Seq(Order) /\ <<>> \in Seq(Callbacks) /\ <<>> \in Seq(Nat) /\ <<>> \in Seq(Timer)
      /\ DOMAIN <<>> = {}
  OBVIOUS
<1>2. 0 \in 0..Len(EventTimes) /\ 0 \in 0..MaxCalls
  BY BacktesterAssumption DEF BacktesterAssumption
<1>3. <<>> \in [1..(1 - 1) -> Int]  OBVIOUS
<1>4. nextId \in Nat \ {0} /\ drift \in [1..(nextId - 1) -> Int]  BY <1>3 DEF Init
<1>5. QED  BY <1>1, <1>2, <1>4 DEF Init, TypeOK

\* What rests for the strategy has a size.
LEMMA RestingType ==
  ASSUME TypeOK, NEW id
  PROVE  RestingSize(id) \in Nat
<1>1. Resting(id) \subseteq Order  BY DEF Resting, TypeOK
<1>2. CASE Resting(id) = {}  BY <1>2 DEF RestingSize
<1>3. CASE Resting(id) # {}
  <2>1. (CHOOSE o \in Resting(id) : TRUE) \in Order  BY <1>1, <1>3
  <2>2. QED  BY <1>3, <2>1 DEF RestingSize, Order
<1>4. QED  BY <1>2, <1>3

\* The history of what the feed does to an order stays one.
LEMMA DriftType ==
  ASSUME TypeOK, NEW id, NEW size \in Int, Drift(id, size)
  PROVE  drift' \in [1..(nextId - 1) -> Int]
BY DEF TypeOK, Drift

\* What the event does to the book and which fills it leaves to process.
LEMMA EventTypes ==
  ASSUME TypeOK, ApplyEvent
  PROVE  /\ book' \subseteq Order /\ pending' \in Seq(Order)
         /\ drift' \in [1..(nextId - 1) -> Int]
<1>1. book \subseteq Order /\ drift \in [1..(nextId - 1) -> Int]  BY DEF TypeOK
<1>2. CASE FeedAdds
  <2>1. PICK id \in FeedIds : book' = book \cup {[id |-> id, own |-> FALSE, size |-> 1]}
    BY <1>2 DEF FeedAdds
  <2>2. id \in Nat  BY BacktesterAssumption DEF BacktesterAssumption
  <2>3. [id |-> id, own |-> FALSE, size |-> 1] \in Order  BY <2>2 DEF Order
  <2>4. pending' = <<>> /\ drift' = drift  BY <1>2 DEF FeedAdds
  <2>5. pending' \in Seq(Order)  BY <2>4
  <2>6. QED  BY <1>1, <2>1, <2>3, <2>4, <2>5
<1>3. CASE FeedDeletes
  <2>1. PICK id \in FeedIds : book' = {o \in book : o.id # id} /\ Drift(id, -RestingSize(id))
    BY <1>3 DEF FeedDeletes
  <2>2. -RestingSize(id) \in Int  BY RestingType
  <2>3. drift' \in [1..(nextId - 1) -> Int]  BY <2>1, <2>2, DriftType
  <2>4. pending' = <<>>  BY <1>3 DEF FeedDeletes
  <2>5. QED  BY <1>1, <2>1, <2>3, <2>4
<1>4. CASE FeedExecutes
  <2> DEFINE Sweeps(n, orders, last) ==
               /\ pending' = Swept(orders, last)
               /\ book' = (book \ Range(orders)) \cup
                    (IF n = 0 \/ last = orders[n].size THEN {}
                     ELSE {[orders[n] EXCEPT !.size = @ - last]})
  <2>a. PICK n \in 0..MaxFills : \E orders \in [1..n -> book] :
          \E last \in IF n = 0 THEN {0} ELSE 1..orders[n].size : Sweeps(n, orders, last)
    BY <1>4 DEF FeedExecutes
  <2>b. PICK orders \in [1..n -> book] :
          \E last \in IF n = 0 THEN {0} ELSE 1..orders[n].size : Sweeps(n, orders, last)
    BY <2>a
  <2>1. PICK last \in IF n = 0 THEN {0} ELSE 1..orders[n].size : Sweeps(n, orders, last)
    BY <2>b
  <2>2. n \in Nat /\ Len(orders) = n /\ DOMAIN orders = 1..n /\ orders \in Seq(Order)
    <3>1. MaxFills \in Nat  BY BacktesterAssumption DEF BacktesterAssumption
    <3>2. n \in Nat  BY <3>1
    <3>3. orders \in [1..n -> Order]  BY <1>1
    <3>4. QED  BY <3>2, <3>3
  <2>3. ASSUME n # 0
        PROVE  /\ orders[n] \in Order /\ orders[n].size \in Nat
               /\ last \in 1..orders[n].size /\ last \in Nat
               /\ [orders[n] EXCEPT !.size = last] \in Order
    <3>1. n \in 1..n  BY <2>2, <2>3
    <3>2. orders[n] \in Order  BY <1>1, <3>1
    <3>3. last \in 1..orders[n].size  BY <2>3
    <3>4. orders[n].size \in Nat  BY <3>2 DEF Order
    <3>5. last \in Nat  BY <3>3, <3>4
    <3>6. [orders[n] EXCEPT !.size = last] \in Order  BY <3>2, <3>5 DEF Order
    <3>7. QED  BY <3>2, <3>3, <3>4, <3>5, <3>6
  <2>4. \A k \in 1..n : Swept(orders, last)[k] \in Order
    <3> TAKE k \in 1..n
    <3>1. orders[k] \in Order  BY <1>1
    <3>2. n # 0  BY <2>2
    <3>3. Swept(orders, last)[k] = IF k = n THEN [orders[k] EXCEPT !.size = last] ELSE orders[k]
      BY <2>2 DEF Swept
    <3>4. QED  BY <2>3, <3>1, <3>2, <3>3
  <2>5. Swept(orders, last) \in [1..n -> Order]
    BY <2>2, <2>4 DEF Swept
  <2>6. pending' \in Seq(Order)  BY <2>1, <2>2, <2>5
  <2>7. ASSUME n # 0, last # orders[n].size
        PROVE  [orders[n] EXCEPT !.size = @ - last] \in Order
    <3>1. orders[n].size - last \in Nat  BY <2>3, <2>7
    <3>2. QED  BY <2>3, <2>7, <3>1 DEF Order
  <2>8. drift' = drift  BY <1>4 DEF FeedExecutes
  <2>9. QED  BY <1>1, <2>1, <2>6, <2>7, <2>8
<1>5. QED  BY <1>2, <1>3, <1>4 DEF ApplyEvent

\* A fill leaves between one unit and the order's size, or no entry.
LEMMA AfterFillType ==
  ASSUME TypeOK, NEW fill \in Order
  PROVE  LET a == AfterFill(active, fill) IN
         /\ DOMAIN a \subseteq DOMAIN active
         /\ \A id \in DOMAIN a : a[id] \in 1..OrderSize
<1>1. OrderSize \in Nat  BY BacktesterAssumption DEF BacktesterAssumption
<1>2. \A id \in DOMAIN active : active[id] \in 1..OrderSize  BY DEF TypeOK
<1>3. fill.size \in Nat  BY DEF Order
<1>4. CASE fill.id \notin DOMAIN active  BY <1>2, <1>4 DEF AfterFill
<1>5. CASE fill.id \in DOMAIN active /\ active[fill.id] <= fill.size
  BY <1>2, <1>5 DEF AfterFill, Restrict
<1>6. CASE fill.id \in DOMAIN active /\ ~(active[fill.id] <= fill.size)
  <2>1. AfterFill(active, fill) = [active EXCEPT ![fill.id] = @ - fill.size]
    BY <1>6 DEF AfterFill
  <2>2. active[fill.id] \in 1..OrderSize /\ active[fill.id] - fill.size \in 1..OrderSize
    BY <1>1, <1>2, <1>3, <1>6
  <2>3. \A id \in DOMAIN active :
          AfterFill(active, fill)[id] = IF id = fill.id THEN active[fill.id] - fill.size
                                        ELSE active[id]
    BY <2>1
  <2>4. QED  BY <1>2, <2>1, <2>2, <2>3
<1>7. QED  BY <1>4, <1>5, <1>6

\* The steps of the event loop keep the types.
LEMMA DriverKeepsType == TypeOK /\ Driver => TypeOK'
<1> SUFFICES ASSUME TypeOK, Driver PROVE TypeOK'  OBVIOUS
<1> USE DEF driverVars, orderVars, timerVars
<1>1. CASE StartStrategy
  BY <1>1, InvokeType DEF StartStrategy, TypeOK, Callbacks
<1>2. CASE NextEvent
  <2>1. event' \in 0..Len(EventTimes)
    BY <1>2, BacktesterAssumption DEF NextEvent, TypeOK, BacktesterAssumption
  <2>2. QED  BY <1>2, <2>1 DEF NextEvent, TypeOK
<1>3. CASE FireTimer
  <2>1. PICK t \in timers :
          /\ timers' = timers \ {t} /\ live' = Disarmed(t)
          /\ \/ fired' = Append(fired, t) /\ Invoke("on_timer")
             \/ UNCHANGED <<fired, stack>>
    BY <1>3 DEF FireTimer
  <2>2. fired' \in Seq(Timer) /\ timers' \subseteq Timer /\ live' \subseteq Nat
    <3>1. t \in Timer /\ fired \in Seq(Timer)  BY DEF TypeOK
    <3>2. fired' \in Seq(Timer)  BY <2>1, <3>1
    <3>3. QED  BY <2>1, <3>2 DEF TypeOK, Disarmed
  <2>3. stack' \in Seq(Callbacks)
    BY <2>1, InvokeType DEF TypeOK, Callbacks
  <2>4. QED  BY <1>3, <2>2, <2>3 DEF FireTimer, TypeOK
<1>4. CASE Dispatch
  <2>1. /\ book' \subseteq Order /\ pending' \in Seq(Order)
        /\ drift' \in [1..(nextId - 1) -> Int]
    BY <1>4, EventTypes DEF Dispatch
  <2>2. QED  BY <1>4, <2>1 DEF Dispatch, TypeOK
<1>5. CASE ProcessFill
  <2>1. pending \in Seq(Order) /\ pending # <<>>  BY <1>5 DEF ProcessFill, TypeOK
  <2>2. Head(pending) \in Order /\ pending' \in Seq(Order)
    BY <1>5, <2>1 DEF ProcessFill
  <2>3. /\ DOMAIN active' \subseteq Nat
        /\ \A id \in DOMAIN active' : active'[id] \in 1..OrderSize
    BY <1>5, <2>2, AfterFillType DEF ProcessFill, Report, TypeOK
  <2>4. stack' \in Seq(Callbacks)
    BY <1>5, InvokeType DEF ProcessFill, Callbacks
  <2>5. halted' \in BOOLEAN  BY <1>5 DEF ProcessFill, RiskCheck, TypeOK
  <2>6. drift' \in [1..(nextId - 1) -> Int]
    <3>1. Head(pending).size \in Int  BY <2>2 DEF Order
    <3>2. CASE Head(pending).own  BY <1>5, <3>2 DEF ProcessFill, Report, TypeOK
    <3>3. CASE ~Head(pending).own
      BY <1>5, <3>1, <3>3, DriftType DEF ProcessFill, Report
    <3>4. QED  BY <3>2, <3>3
  <2>7. QED  BY <1>5, <2>2, <2>3, <2>4, <2>5, <2>6 DEF ProcessFill, TypeOK
<1>6. CASE MarketData
  <2>1. stack' \in Seq(Callbacks)
    BY <1>6, InvokeType DEF MarketData, Callbacks, TypeOK
  <2>2. halted' \in BOOLEAN  BY <1>6 DEF MarketData, RiskCheck, TypeOK
  <2>3. QED  BY <1>6, <2>1, <2>2 DEF MarketData, TypeOK
<1>7. CASE FinaliseRun
  BY <1>7, InvokeType DEF FinaliseRun, TypeOK, Callbacks
<1>8. CASE Return  BY <1>8 DEF Return, TypeOK
<1>9. QED  BY <1>1, <1>2, <1>3, <1>4, <1>5, <1>6, <1>7, <1>8 DEF Driver

\* The strategy's calls keep the types.
LEMMA StrategyKeepsType == TypeOK /\ Strategy => TypeOK'
<1> SUFFICES ASSUME TypeOK, Strategy PROVE TypeOK'  OBVIOUS
<1> USE DEF driverVars, orderVars, timerVars
<1>1. ASSUME stack # <<>> PROVE Front(stack) \in Seq(Callbacks)
  BY <1>1 DEF TypeOK, Front
<1>2. CASE ContextCall
  <2>1. calls' \in 0..MaxCalls
    BY <1>2, BacktesterAssumption DEF ContextCall, Call, TypeOK, BacktesterAssumption
  <2>2. Clock \in Nat  BY ClockType
  <2>3. CASE SubmitOrder
    <3>1. orderWindow' \in Seq(Nat)
      BY <2>2, <2>3, WindowTypes DEF SubmitOrder, TypeOK
    <3>2. CASE Orders!Admits(orderWindow, Clock)
      <4>1. /\ nextId' = nextId + 1 /\ Enqueue([id |-> nextId, own |-> TRUE, size |-> OrderSize])
            /\ active' = [id \in DOMAIN active \cup {nextId} |->
                            IF id = nextId THEN OrderSize ELSE active[id]]
            /\ drift' = [id \in 1..nextId |-> IF id = nextId THEN 0 ELSE drift[id]]
            /\ Invoke("on_order_accepted") /\ UNCHANGED <<halted, cancelled>>
        BY <2>3, <3>2 DEF SubmitOrder
      <4>2. OrderSize \in Nat \ {0} /\ nextId \in Nat /\ nextId' \in Nat
        BY <4>1, BacktesterAssumption DEF TypeOK, BacktesterAssumption
      <4>3. book' \subseteq Order
        <5>1. [id |-> nextId, own |-> TRUE, size |-> OrderSize] \in Order  BY <4>2 DEF Order
        <5>2. book \subseteq Order  BY DEF TypeOK
        <5>3. QED  BY <4>1, <5>1, <5>2 DEF Enqueue
      <4>4. /\ DOMAIN active' \subseteq Nat
            /\ \A id \in DOMAIN active' : active'[id] \in 1..OrderSize
        BY <4>1, <4>2 DEF TypeOK
      <4>5. stack' \in Seq(Callbacks)  BY <4>1, InvokeType DEF Callbacks
      <4>6. cancelled' \subseteq 1..(nextId' - 1)
        BY <4>1, <4>2 DEF TypeOK
      <4>7. drift' \in [1..(nextId' - 1) -> Int]
        <5>1. nextId' - 1 = nextId  BY <4>1, <4>2
        <5>2. \A id \in 1..nextId : id = nextId \/ id \in 1..(nextId - 1)  BY <4>2
        <5>3. QED  BY <4>1, <5>1, <5>2 DEF TypeOK
      <4>8. QED
        BY <2>1, <2>3, <3>1, <4>1, <4>2, <4>3, <4>4, <4>5, <4>6, <4>7 DEF SubmitOrder, TypeOK
    <3>3. CASE ~Orders!Admits(orderWindow, Clock)
      <4>1. /\ halted' = (halted \/ HaltOnViolation)
            /\ UNCHANGED <<nextId, active, drift, book, stack, cancelled>>
        BY <2>3, <3>3 DEF SubmitOrder
      <4>2. halted' \in BOOLEAN
        BY <4>1, BacktesterAssumption DEF TypeOK, BacktesterAssumption
      <4>3. QED  BY <2>1, <2>3, <3>1, <4>1, <4>2 DEF SubmitOrder, TypeOK
    <3>4. QED  BY <3>2, <3>3
  <2>4. ASSUME NEW id \in 1..(nextId - 1), CancelOrder(id) PROVE TypeOK'
    <3>1. cancelWindow' \in Seq(Nat)
      BY <2>2, <2>4, WindowTypes DEF CancelOrder, TypeOK
    <3>2. cancelled' \subseteq 1..(nextId - 1) /\ book' \subseteq Order
      BY <2>4 DEF CancelOrder, TypeOK
    <3>3. halted' \in BOOLEAN
      BY <2>4, BacktesterAssumption DEF CancelOrder, TypeOK, BacktesterAssumption
    <3>4. QED  BY <2>1, <2>4, <3>1, <3>2, <3>3 DEF CancelOrder, TypeOK
  <2>5. ASSUME NEW delay \in TimerDelays, ScheduleTimer(delay) PROVE TypeOK'
    <3>1. delay \in Nat /\ nextTimer \in Nat
      BY BacktesterAssumption DEF TypeOK, BacktesterAssumption
    <3>2. [id |-> nextTimer, due |-> Clock + delay] \in Timer
      BY <2>2, <3>1 DEF Timer
    <3>3. QED  BY <2>1, <2>5, <3>1, <3>2 DEF ScheduleTimer, TypeOK
  <2>6. ASSUME NEW id \in live, CancelTimer(id) PROVE TypeOK'
    BY <2>1, <2>6 DEF CancelTimer, TypeOK
  <2>7. QED  BY <1>2, <2>3, <2>4, <2>5, <2>6 DEF ContextCall
<1>3. CASE CallbackReturns  BY <1>1, <1>3 DEF CallbackReturns, TypeOK
<1>4. CASE CallbackRaises  BY <1>1, <1>4 DEF CallbackRaises, TypeOK
<1>5. QED  BY <1>2, <1>3, <1>4 DEF Strategy

\* Every step keeps the types.
LEMMA TypeStep == TypeOK /\ [Next]_vars => TypeOK'
<1>1. CASE UNCHANGED vars
  BY <1>1 DEF vars, driverVars, orderVars, timerVars, TypeOK
<1>2. QED  BY <1>1, DriverKeepsType, StrategyKeepsType DEF Next

\* Every reachable state of the backtester is well typed.
THEOREM TypeCorrect == Spec => []TypeOK
BY TypeInit, TypeStep, PTL DEF Spec

-----------------------------------------------------------------------------
(* A stopped strategy is left alone *)

\* A callback that is called lies on top of the stack.
LEMMA CalledOnTop ==
  ASSUME TypeOK, NEW callback \in Callbacks, Invoke(callback), Len(stack') > Len(stack)
  PROVE  Last(stack') = callback /\ ~faulted
<1>1. stack \in Seq(Callbacks)  BY DEF TypeOK
<1>2. ~faulted /\ stack' = Append(stack, callback)  BY <1>1 DEF Invoke
<1>3. Len(stack') = Len(stack) + 1 /\ stack'[Len(stack) + 1] = callback  BY <1>1, <1>2
<1>4. QED  BY <1>2, <1>3 DEF Last

\* Only Invoke makes the stack grow, and market data and timers need a
\* strategy that is not halted.
LEMMA StackGrows ==
  ASSUME TypeOK, [Next]_vars, Len(stack') > Len(stack)
  PROVE  /\ ~faulted
         /\ halted => Last(stack') \notin {"on_market_data", "on_timer"}
<1> USE DEF driverVars, orderVars, timerVars
<1>1. stack \in Seq(Callbacks)  BY DEF TypeOK
<1>2. ASSUME NEW callback \in {"on_start", "on_fill", "on_order_accepted", "on_stop"},
             Invoke(callback)
      PROVE  ~faulted /\ Last(stack') \notin {"on_market_data", "on_timer"}
  BY <1>2, CalledOnTop DEF Callbacks
<1>3. ASSUME NEW callback \in {"on_market_data", "on_timer"}, Invoke(callback)
      PROVE  ~faulted
  BY <1>3, CalledOnTop DEF Callbacks
<1>4. CASE UNCHANGED stack  BY <1>1, <1>4
<1>5. CASE Driver
  <2>1. CASE StartStrategy  BY <1>2, <2>1 DEF StartStrategy
  <2>2. CASE NextEvent \/ Dispatch \/ Return
    BY <1>4, <2>2 DEF NextEvent, Dispatch, Return
  <2>3. CASE FireTimer
    <3>1. ~halted /\ (Invoke("on_timer") \/ UNCHANGED stack)
      BY <2>3 DEF FireTimer, NothingDue
    <3>2. QED  BY <1>3, <1>4, <3>1
  <2>4. CASE ProcessFill  BY <1>2, <2>4 DEF ProcessFill
  <2>5. CASE MarketData
    <3>1. halted => halted'  BY <2>5 DEF MarketData, RiskCheck
    <3>2. UNCHANGED stack \/ (~halted' /\ Invoke("on_market_data"))
      BY <2>5 DEF MarketData
    <3>3. QED  BY <1>3, <1>4, <3>1, <3>2
  <2>6. CASE FinaliseRun  BY <1>2, <2>6 DEF FinaliseRun
  <2>7. QED  BY <1>5, <2>1, <2>2, <2>3, <2>4, <2>5, <2>6 DEF Driver
<1>6. CASE ContextCall
  <2>1. CASE SubmitOrder  BY <1>2, <1>4, <2>1 DEF SubmitOrder
  <2>2. CASE UNCHANGED stack  BY <1>4, <2>2
  <2>3. QED
    BY <1>6, <2>1, <2>2 DEF ContextCall, CancelOrder, ScheduleTimer, CancelTimer
<1>7. CASE CallbackReturns \/ CallbackRaises
  <2>1. stack # <<>> /\ stack' = Front(stack)
    BY <1>7 DEF CallbackReturns, CallbackRaises
  <2>2. Len(stack') < Len(stack)  BY <1>1, <2>1 DEF Front
  <2>3. Len(stack) \in Nat /\ Len(stack') \in Nat  BY <1>1, <2>1 DEF Front
  <2>4. QED  BY <2>2, <2>3
<1>8. CASE UNCHANGED vars  BY <1>4, <1>8 DEF vars
<1>9. QED  BY <1>5, <1>6, <1>7, <1>8 DEF Next, Strategy

\* The stack of calls has a depth, before and after a step.
LEMMA StackIsSequence == TypeOK /\ TypeOK' => Len(stack) \in Nat /\ Len(stack') \in Nat
BY DEF TypeOK

\* After a fault no callback starts, and after a halt no market data and no
\* timer, also when the halt or the fault comes in the middle of a round of
\* timers or from a nested callback.
THEOREM StoppedIsSilent == Spec => StoppedStaysSilent
<1>1. TypeOK /\ TypeOK' /\ [Next]_vars =>
        [faulted => Len(stack') <= Len(stack)]_vars
  BY StackGrows, StackIsSequence
<1>2. TypeOK /\ TypeOK' /\ [Next]_vars =>
        [halted /\ Len(stack') > Len(stack) =>
           Last(stack') \notin {"on_market_data", "on_timer"}]_vars
  BY StackGrows
<1>3. QED
  BY <1>1, <1>2, TypeCorrect, PTL
     DEF Spec, StoppedStaysSilent, SilentAfterFault, HaltedNotDriven

-----------------------------------------------------------------------------
(* Timers *)

\* A timer's id is below the next one, and what has fired was due.
TimerIds ==
  /\ \A t \in timers : t.id < nextTimer
  /\ \A i \in DOMAIN fired : fired[i].id < nextTimer /\ fired[i].due <= Clock

\* What has fired comes before what is still in the heap.
FiredBeforeHeap == \A i \in DOMAIN fired : \A t \in timers : Earlier(fired[i], t)

\* No callback runs before the run and after it.
QuietOutside == phase \in {"idle", "done"} => stack = <<>>

TimerInv ==
  TypeOK /\ TimerIds /\ FiredBeforeHeap /\ TimersFireInOrder /\ TimersAccounted /\ QuietOutside

\* What the types say of the timers.
LEMMA TimerFacts ==
  ASSUME TypeOK
  PROVE  /\ timers \subseteq Timer /\ nextTimer \in Nat /\ live \subseteq Nat
         /\ fired \in Seq(Timer) /\ DOMAIN fired = 1..Len(fired) /\ Len(fired) \in Nat
         /\ \A t \in timers : t.id \in Nat /\ t.due \in Nat
         /\ \A i \in DOMAIN fired : fired[i].id \in Nat /\ fired[i].due \in Nat
<1>1. timers \subseteq Timer /\ fired \in Seq(Timer)  BY DEF TypeOK
<1>2. \A t \in Timer : t.id \in Nat /\ t.due \in Nat  BY DEF Timer
<1>3. /\ DOMAIN fired = 1..Len(fired) /\ Len(fired) \in Nat
      /\ \A i \in DOMAIN fired : fired[i] \in Timer
  BY <1>1
<1>4. QED  BY <1>1, <1>2, <1>3 DEF TypeOK

\* The clock does not go back.
LEMMA ClockMoves ==
  ASSUME TypeOK, [Next]_vars
  PROVE  Clock <= Clock' /\ (event' = event \/ NextEvent)
<1> USE DEF driverVars, orderVars, timerVars
<1>1. CASE NextEvent
  <2>1. /\ event' = event + 1 /\ event \in 0..Len(EventTimes) /\ event < Len(EventTimes)
        /\ EventTimes \in Seq(Nat) /\ Len(EventTimes) \in Nat
    BY <1>1, BacktesterAssumption DEF NextEvent, TypeOK, BacktesterAssumption
  <2>2. event' \in DOMAIN EventTimes /\ event' # 0 /\ EventTimes[event'] \in Nat  BY <2>1
  <2>3. CASE event = 0  BY <1>1, <2>2, <2>3 DEF Clock
  <2>4. CASE event # 0
    <3>1. event \in DOMAIN EventTimes /\ event <= event'  BY <2>1, <2>4
    <3>2. EventTimes[event] <= EventTimes[event']
      BY <2>2, <3>1, BacktesterAssumption DEF BacktesterAssumption
    <3>3. QED  BY <1>1, <2>2, <2>4, <3>2 DEF Clock
  <2>5. QED  BY <2>3, <2>4
<1>2. CASE event' = event
  <2>1. Clock' = Clock /\ Clock \in Nat  BY <1>2, ClockType DEF Clock
  <2>2. QED  BY <1>2, <2>1
<1>3. CASE Driver
  BY <1>1, <1>2, <1>3 DEF Driver, StartStrategy, FireTimer, Dispatch, ProcessFill, MarketData,
                          FinaliseRun, Return
<1>4. CASE Strategy
  BY <1>2, <1>4 DEF Strategy, ContextCall, SubmitOrder, CancelOrder, ScheduleTimer, CancelTimer,
                    CallbackReturns, CallbackRaises
<1>5. QED  BY <1>2, <1>3, <1>4 DEF Next, vars

\* Firing takes the earliest timer, so it goes after those fired already and
\* before those left.
LEMMA FireKeepsOrder ==
  ASSUME TimerInv, FireTimer
  PROVE  TimerIds' /\ FiredBeforeHeap' /\ TimersFireInOrder' /\ TimersAccounted'
<1>1. PICK t \in timers :
        /\ \A u \in timers \ {t} : Earlier(t, u)
        /\ timers' = timers \ {t} /\ live' = live \ {t.id}
        /\ \/ fired' = Append(fired, t)
           \/ UNCHANGED fired
  BY DEF FireTimer, Disarmed
<1>2. /\ UNCHANGED <<event, nextTimer>> /\ Clock' = Clock
  BY DEF FireTimer, driverVars, Clock
<1>3. TypeOK  BY DEF TimerInv
<1>4. Due(t)
  <2>1. PICK u \in timers : Due(u)  BY DEF FireTimer, NothingDue
  <2>2. t.due <= u.due /\ t.due \in Nat /\ u.due \in Nat
    <3>1. t.due \in Nat /\ u.due \in Nat /\ t.id \in Nat /\ u.id \in Nat  BY <1>3, TimerFacts
    <3>2. CASE u = t  BY <3>1, <3>2
    <3>3. CASE u # t  BY <1>1, <3>1, <3>3 DEF Earlier
    <3>4. QED  BY <3>2, <3>3
  <2>3. Clock \in Nat  BY <1>3, ClockType
  <2>4. QED  BY <2>1, <2>2, <2>3 DEF Due
<1>5. CASE UNCHANGED fired
  BY <1>1, <1>2, <1>5 DEF TimerInv, TimerIds, FiredBeforeHeap, TimersFireInOrder, TimersAccounted
<1>6. CASE fired' = Append(fired, t)
  <2>1. fired \in Seq(Timer) /\ t \in Timer /\ DOMAIN fired = 1..Len(fired) /\ Len(fired) \in Nat
    BY <1>3, TimerFacts
  <2>2. /\ DOMAIN fired' = 1..(Len(fired) + 1)
        /\ \A i \in DOMAIN fired : fired'[i] = fired[i]
        /\ fired'[Len(fired) + 1] = t
    BY <1>6, <2>1
  <2>3. \A i \in DOMAIN fired' : i \in DOMAIN fired \/ i = Len(fired) + 1
    BY <2>1, <2>2
  <2>4. TimerIds'
    <3>1. t.id < nextTimer /\ t.due <= Clock  BY <1>4 DEF TimerInv, TimerIds, Due
    <3>2. QED  BY <1>1, <1>2, <2>2, <2>3, <3>1 DEF TimerInv, TimerIds
  <2>5. FiredBeforeHeap'
    BY <1>1, <2>2, <2>3 DEF TimerInv, FiredBeforeHeap, Earlier
  <2>6. TimersFireInOrder'
    <3> SUFFICES ASSUME NEW i \in DOMAIN fired', NEW j \in DOMAIN fired', i < j
                 PROVE  Earlier(fired'[i], fired'[j])
      BY DEF TimersFireInOrder, Earlier
    <3>1. i \in DOMAIN fired  BY <2>1, <2>2
    <3>2. CASE j \in DOMAIN fired
      BY <2>2, <3>1, <3>2 DEF TimerInv, TimersFireInOrder, Earlier
    <3>3. CASE j = Len(fired) + 1
      BY <2>2, <3>1, <3>3 DEF TimerInv, FiredBeforeHeap, Earlier
    <3>4. QED  BY <2>3, <3>2, <3>3
  <2>7. TimersAccounted'
    <3>1. ToSet(fired') = ToSet(fired) \cup {t}
      BY <2>2, <2>3 DEF ToSet
    <3>2. live' \subseteq {u.id : u \in timers'}
      BY <1>1 DEF TimerInv, TimersAccounted
    <3>3. live' \cap {u.id : u \in ToSet(fired')} = {}
      BY <1>1, <3>1 DEF TimerInv, TimersAccounted
    <3>4. QED  BY <3>2, <3>3 DEF TimersAccounted
  <2>8. QED  BY <2>4, <2>5, <2>6, <2>7
<1>7. QED  BY <1>1, <1>5, <1>6

\* A new timer is due now or later, and its id is new.
LEMMA ScheduleKeepsOrder ==
  ASSUME TimerInv, NEW delay \in TimerDelays, ScheduleTimer(delay)
  PROVE  TimerIds' /\ FiredBeforeHeap' /\ TimersFireInOrder' /\ TimersAccounted'
<1> DEFINE t == [id |-> nextTimer, due |-> Clock + delay]
<1>1. /\ timers' = timers \cup {t} /\ live' = live \cup {nextTimer}
      /\ nextTimer' = nextTimer + 1 /\ UNCHANGED <<event, fired>> /\ Clock' = Clock
  BY DEF ScheduleTimer, driverVars, Clock
<1>2. /\ TypeOK /\ delay \in Nat /\ Clock \in Nat /\ nextTimer \in Nat
      /\ t.id = nextTimer /\ t.due = Clock + delay
  BY ClockType, BacktesterAssumption DEF TimerInv, TypeOK, BacktesterAssumption
<1> HIDE DEF t
<1>3. /\ \A u \in timers : u.id \in Nat /\ u.id < nextTimer
      /\ \A i \in DOMAIN fired : /\ fired[i].id \in Nat /\ fired[i].due \in Nat
                                 /\ fired[i].id < nextTimer /\ fired[i].due <= Clock
  BY <1>2, TimerFacts DEF TimerInv, TimerIds
<1>4. TimerIds'
  <2>1. \A u \in timers' : u.id < nextTimer + 1
    <3> TAKE u \in timers'
    <3>1. CASE u \in timers  BY <1>2, <1>3, <3>1
    <3>2. CASE u = t  BY <1>2, <3>2
    <3>3. QED  BY <1>1, <3>1, <3>2
  <2>2. \A i \in DOMAIN fired : fired[i].id < nextTimer + 1  BY <1>2, <1>3
  <2>3. QED  BY <1>1, <1>3, <2>1, <2>2 DEF TimerIds
<1>5. FiredBeforeHeap'
  <2> SUFFICES ASSUME NEW i \in DOMAIN fired, NEW u \in timers' PROVE Earlier(fired[i], u)
    BY <1>1 DEF FiredBeforeHeap, Earlier
  <2>1. CASE u \in timers  BY <2>1 DEF TimerInv, FiredBeforeHeap
  <2>2. CASE u = t  BY <1>2, <1>3, <2>2 DEF Earlier
  <2>3. QED  BY <1>1, <2>1, <2>2
<1>6. TimersFireInOrder'  BY <1>1 DEF TimerInv, TimersFireInOrder
<1>7. TimersAccounted'
  <2>1. nextTimer \notin {u.id : u \in ToSet(fired)}
    BY <1>2, <1>3 DEF ToSet
  <2>2. QED  BY <1>1, <1>2, <2>1 DEF TimerInv, TimersAccounted
<1>8. QED  BY <1>4, <1>5, <1>6, <1>7

\* Any other step leaves the timers alone, or forgets an active one.
LEMMA OthersKeepTimers ==
  ASSUME TypeOK, [Next]_vars
  PROVE  \/ FireTimer
         \/ \E delay \in TimerDelays : ScheduleTimer(delay)
         \/ live' \subseteq live /\ UNCHANGED <<timers, nextTimer, fired>>
<1> USE DEF driverVars, orderVars, timerVars
<1>1. CASE Driver
  BY <1>1 DEF Driver, StartStrategy, NextEvent, Dispatch, ProcessFill, MarketData, FinaliseRun,
              Return
<1>2. CASE ContextCall
  <2>1. CASE SubmitOrder  BY <2>1 DEF SubmitOrder
  <2>2. CASE \E id \in 1..(nextId - 1) : CancelOrder(id)  BY <2>2 DEF CancelOrder
  <2>3. CASE \E id \in live : CancelTimer(id)  BY <2>3 DEF CancelTimer
  <2>4. QED  BY <1>2, <2>1, <2>2, <2>3 DEF ContextCall
<1>3. CASE CallbackReturns \/ CallbackRaises
  BY <1>3 DEF CallbackReturns, CallbackRaises
<1>4. CASE UNCHANGED vars  BY <1>4 DEF vars
<1>5. QED  BY <1>1, <1>2, <1>3, <1>4 DEF Next, Strategy

\* After the run nothing happens any more.
LEMMA QuietStep ==
  ASSUME TypeOK, QuietOutside, [Next]_vars
  PROVE  QuietOutside' /\ (phase = "done" => UNCHANGED vars)
<1> USE DEF driverVars, orderVars, timerVars, QuietOutside
<1>1. CASE Driver
  BY <1>1 DEF Driver, StartStrategy, NextEvent, FireTimer, Dispatch, ProcessFill, MarketData,
              FinaliseRun, Return
<1>2. CASE Strategy
  BY <1>2 DEF Strategy, ContextCall, Call, SubmitOrder, CancelOrder, ScheduleTimer, CancelTimer,
              CallbackReturns, CallbackRaises
<1>3. CASE UNCHANGED vars  BY <1>3 DEF vars
<1>4. QED  BY <1>1, <1>2, <1>3 DEF Next

\* Every step keeps the timers in order and none past due.
LEMMA TimerStep == TimerInv /\ [Next]_vars => TimerInv'
<1> SUFFICES ASSUME TimerInv, [Next]_vars PROVE TimerInv'  OBVIOUS
<1>1. TypeOK' /\ QuietOutside'  BY TypeStep, QuietStep DEF TimerInv
<1>2. ASSUME live' \subseteq live, UNCHANGED <<timers, nextTimer, fired>>
      PROVE  TimerIds' /\ FiredBeforeHeap' /\ TimersFireInOrder' /\ TimersAccounted'
  <2>1. Clock \in Nat /\ Clock' \in Nat /\ Clock <= Clock'
    BY <1>1, ClockType, ClockMoves DEF TimerInv
  <2>2. \A i \in DOMAIN fired : fired[i].due \in Nat  BY TimerFacts DEF TimerInv
  <2>3. TimerIds'  BY <1>2, <2>1, <2>2 DEF TimerInv, TimerIds
  <2>4. QED
    BY <1>2, <2>3 DEF TimerInv, FiredBeforeHeap, Earlier, TimersFireInOrder, TimersAccounted
<1>3. QED
  BY <1>1, <1>2, FireKeepsOrder, ScheduleKeepsOrder, OthersKeepTimers DEF TimerInv

\* There are no timers at the start.
LEMMA TimerInit == Init => TimerInv
<1> SUFFICES ASSUME Init PROVE TimerInv  OBVIOUS
<1>1. DOMAIN fired = {} /\ timers = {} /\ live = {} /\ stack = <<>>  BY DEF Init
<1>2. QED
  BY <1>1, TypeInit DEF TimerInv, TimerIds, FiredBeforeHeap, TimersFireInOrder, TimersAccounted,
                        QuietOutside

\* Timers fire in order and once, and before the next event is dispatched or
\* the run ends, whatever callbacks schedule and cancel while others fire.
THEOREM TimersFire == Spec => TimersFireWhenDue
<1>1. TimerInv => TypeOK /\ TimersFireInOrder /\ TimersAccounted  BY DEF TimerInv
<1>2. TimerInv /\ TimerInv' /\ [Next]_vars =>
        [(phase = "head" /\ phase' = "fills") \/ phase' = "done" =>
           halted \/ \A t \in timers : t.id \in live => t.due > Clock]_vars
  <2> SUFFICES ASSUME TimerInv, [Next]_vars, ~UNCHANGED vars,
                      (phase = "head" /\ phase' = "fills") \/ phase' = "done"
               PROVE  halted \/ \A t \in timers : t.id \in live => t.due > Clock
    OBVIOUS
  <2>1. phase # "done"  BY QuietStep DEF TimerInv
  <2>2. NothingDue
    <3>1. CASE Driver
      BY <2>1, <3>1 DEF Driver, StartStrategy, NextEvent, FireTimer, Dispatch, ProcessFill,
                        MarketData, FinaliseRun, Return, driverVars
    <3>2. CASE Strategy
      BY <2>1, <3>2 DEF Strategy, ContextCall, SubmitOrder, CancelOrder, ScheduleTimer,
                        CancelTimer, CallbackReturns, CallbackRaises, driverVars
    <3>3. QED  BY <3>1, <3>2 DEF Next
  <2>3. Clock \in Nat /\ \A t \in timers : t.due \in Nat
    BY ClockType, TimerFacts DEF TimerInv
  <2>4. QED  BY <2>2, <2>3 DEF NothingDue, Due
<1>3. QED
  BY TimerInit, TimerStep, <1>1, <1>2, PTL DEF Spec, TimersFireWhenDue, NoDueTimerSkipped

-----------------------------------------------------------------------------
(* Orders *)

\* Ids of the strategy's orders come from the counter.
IdsKnown ==
  /\ \A o \in book : o.size > 0 /\ (o.own => o.id \in 1..(nextId - 1))
  /\ \A i \in DOMAIN pending : pending[i].own => pending[i].id \in 1..(nextId - 1)

\* No two orders of the strategy rest under one id, and no two of its fills
\* wait for it.
OnceEach ==
  /\ \A o, q \in book : o.own /\ q.own /\ o.id = q.id => o = q
  /\ \A i, j \in DOMAIN pending :
       pending[i].own /\ pending[j].own /\ pending[i].id = pending[j].id => i = j

\* Fills wait only while the event that made them is processed.
FillsInTheirPhase ==
  /\ pending # <<>> => phase = "fills"
  /\ \A i \in DOMAIN pending : pending[i].size > 0

ActiveKnown == DOMAIN active \subseteq 1..(nextId - 1)

\* What the strategy still has of an order, as the book and the fills to
\* report have it.
Working(id) == RestingSize(id) + UnreportedSize(id)

\* The part of ActiveOrdersTrackBook that OnceEach does not give.
SizesAgree ==
  \A id \in 1..(nextId - 1) :
    IF id \in cancelled THEN \A o \in book : o.own => o.id # id
    ELSE ActiveSize(id) = IF Working(id) - drift[id] > 0 THEN Working(id) - drift[id] ELSE 0

OrderInv ==
  TypeOK /\ IdsKnown /\ OnceEach /\ FillsInTheirPhase /\ ActiveKnown /\ SizesAgree

\* The sizes are those of the one order and the one fill with the id.
SizesRead ==
  OnceEach => \A id :
    /\ \A o \in book : o.own /\ o.id = id => RestingSize(id) = o.size
    /\ (\A o \in book : o.own => o.id # id) => RestingSize(id) = 0
    /\ \A i \in DOMAIN pending :
         pending[i].own /\ pending[i].id = id => UnreportedSize(id) = pending[i].size
    /\ (\A i \in DOMAIN pending : pending[i].own => pending[i].id # id)
         => UnreportedSize(id) = 0

\* A sum over the strategy's orders with an id reads the one order's size.
LEMMA ReadSizes == SizesRead /\ SizesRead'
<1>1. SizesRead
  <2> SUFFICES ASSUME OnceEach, NEW id
               PROVE /\ \A o \in book : o.own /\ o.id = id => RestingSize(id) = o.size
                     /\ (\A o \in book : o.own => o.id # id) => RestingSize(id) = 0
                     /\ \A i \in DOMAIN pending : pending[i].own /\ pending[i].id = id =>
                          UnreportedSize(id) = pending[i].size
                     /\ (\A i \in DOMAIN pending : pending[i].own => pending[i].id # id)
                          => UnreportedSize(id) = 0
    BY DEF SizesRead
  <2>1. ASSUME NEW o \in book, o.own, o.id = id PROVE RestingSize(id) = o.size
    <3>1. o \in Resting(id) /\ \A q \in Resting(id) : q = o
      BY <2>1 DEF OnceEach, Resting
    <3>2. (CHOOSE q \in Resting(id) : TRUE) = o  BY <3>1
    <3>3. QED  BY <3>1, <3>2 DEF RestingSize
  <2>2. ASSUME \A o \in book : o.own => o.id # id PROVE RestingSize(id) = 0
    BY <2>2 DEF RestingSize, Resting
  <2>3. ASSUME NEW i \in DOMAIN pending, pending[i].own, pending[i].id = id
        PROVE  UnreportedSize(id) = pending[i].size
    <3>1. i \in Unreported(id) /\ \A j \in Unreported(id) : j = i
      BY <2>3 DEF OnceEach, Unreported
    <3>2. (CHOOSE j \in Unreported(id) : TRUE) = i  BY <3>1
    <3>3. QED  BY <3>1, <3>2 DEF UnreportedSize
  <2>4. ASSUME \A i \in DOMAIN pending : pending[i].own => pending[i].id # id
        PROVE  UnreportedSize(id) = 0
    BY <2>4 DEF UnreportedSize, Unreported
  <2>5. QED  BY <2>1, <2>2, <2>3, <2>4
<1>2. SizesRead'  BY <1>1, PTL
<1>3. QED  BY <1>1, <1>2

\* What an order may look like.
LEMMA OrderFacts ==
  ASSUME TypeOK
  PROVE  /\ book \subseteq Order /\ pending \in Seq(Order)
         /\ DOMAIN pending = 1..Len(pending) /\ Len(pending) \in Nat
         /\ \A o \in book : o.id \in Nat /\ o.own \in BOOLEAN /\ o.size \in Nat
         /\ \A i \in DOMAIN pending :
              pending[i] \in Order /\ pending[i].own \in BOOLEAN /\ pending[i].size \in Nat
         /\ \A id \in DOMAIN active : active[id] \in Nat /\ active[id] > 0
         /\ nextId \in Nat /\ calls \in Nat /\ OrderSize \in Nat \ {0}
         /\ drift \in [1..(nextId - 1) -> Int]
<1>1. book \subseteq Order /\ pending \in Seq(Order)  BY DEF TypeOK
<1>2. \A o \in Order : o.id \in Nat /\ o.own \in BOOLEAN /\ o.size \in Nat  BY DEF Order
<1>3. DOMAIN pending = 1..Len(pending) /\ Len(pending) \in Nat
      /\ \A i \in DOMAIN pending : pending[i] \in Order
  BY <1>1
<1>4. OrderSize \in Nat \ {0}  BY BacktesterAssumption DEF BacktesterAssumption
<1>5. \A id \in DOMAIN active : active[id] \in 1..OrderSize  BY DEF TypeOK
<1>6. \A id \in DOMAIN active : active[id] \in Nat /\ active[id] > 0  BY <1>4, <1>5
<1>7. nextId \in Nat /\ calls \in Nat /\ drift \in [1..(nextId - 1) -> Int]
  BY BacktesterAssumption DEF TypeOK, BacktesterAssumption
<1>8. QED  BY <1>1, <1>2, <1>3, <1>4, <1>6, <1>7

\* The sizes of an order are numbers.
LEMMA WorkingType ==
  ASSUME OrderInv, NEW id
  PROVE  RestingSize(id) \in Nat /\ UnreportedSize(id) \in Nat /\ ActiveSize(id) \in Nat
<1>1. RestingSize(id) \in Nat  BY RestingType DEF OrderInv
<1>2. UnreportedSize(id) \in Nat
  <2>1. SizesRead /\ OnceEach  BY ReadSizes DEF OrderInv
  <2>2. CASE \E i \in DOMAIN pending : pending[i].own /\ pending[i].id = id
    <3>1. PICK i \in DOMAIN pending : pending[i].own /\ pending[i].id = id  BY <2>2
    <3>2. UnreportedSize(id) = pending[i].size  BY <2>1, <3>1 DEF SizesRead
    <3>3. QED  BY <3>1, <3>2, OrderFacts DEF OrderInv
  <2>3. CASE \A i \in DOMAIN pending : pending[i].own => pending[i].id # id
    BY <2>1, <2>3 DEF SizesRead
  <2>4. QED  BY <2>2, <2>3
<1>3. ActiveSize(id) \in Nat  BY OrderFacts DEF OrderInv, ActiveSize
<1>4. QED  BY <1>1, <1>2, <1>3

-----------------------------------------------------------------------------
(* An event of the feed *)

\* Adding an order of the feed leaves the strategy's alone; a deletion takes
\* the strategy's order of its id out of the book, and drift remembers it.
LEMMA FeedLeavesOrders ==
  ASSUME OrderInv, pending = <<>>, FeedAdds \/ FeedDeletes,
         UNCHANGED <<nextId, active, cancelled>>, TypeOK'
  PROVE  OnceEach' /\ SizesAgree' /\ IdsKnown' /\ pending' = <<>>
<1>1. pending' = <<>> /\ DOMAIN pending' = {}  BY DEF FeedAdds, FeedDeletes
<1>2. /\ \A o \in book : o.id \in Nat /\ o.own \in BOOLEAN /\ o.size \in Nat
      /\ drift \in [1..(nextId - 1) -> Int]
  BY OrderFacts DEF OrderInv
<1>3. PICK id \in FeedIds :
        \/ book' = book \cup {[id |-> id, own |-> FALSE, size |-> 1]} /\ drift' = drift
        \/ book' = {o \in book : o.id # id} /\ Drift(id, -RestingSize(id))
  BY DEF FeedAdds, FeedDeletes
<1> DEFINE new == [id |-> id, own |-> FALSE, size |-> 1]
<1>4. ~new.own /\ new.size = 1  OBVIOUS
<1>5. book' \subseteq book \cup {new}  BY <1>3
<1> HIDE DEF new
<1>6. OnceEach' /\ IdsKnown'
  <2>1. \A o \in book' : o.own => o \in book  BY <1>4, <1>5
  <2>2. \A o \in book' : o.size > 0  BY <1>4, <1>5 DEF OrderInv, IdsKnown
  <2>3. QED  BY <1>1, <2>1, <2>2 DEF OrderInv, OnceEach, IdsKnown
<1>7. \A k : UnreportedSize(k) = 0 /\ UnreportedSize(k)' = 0
  BY <1>1 DEF UnreportedSize, Unreported
<1>8. SizesAgree'
  <2> SUFFICES ASSUME NEW k \in 1..(nextId - 1)
               PROVE  IF k \in cancelled THEN \A o \in book' : o.own => o.id # k
                      ELSE ActiveSize(k) = IF Working(k)' - drift'[k] > 0
                                           THEN Working(k)' - drift'[k] ELSE 0
    BY DEF SizesAgree, ActiveSize
  <2>1. CASE k \in cancelled  BY <1>4, <1>5, <2>1 DEF OrderInv, SizesAgree
  <2>2. CASE Resting(k)' = Resting(k) /\ drift'[k] = drift[k]
    <3>1. RestingSize(k)' = RestingSize(k)  BY <2>2 DEF RestingSize
    <3>2. Working(k)' = Working(k)  BY <1>7, <3>1 DEF Working
    <3>3. QED  BY <2>1, <2>2, <3>2 DEF OrderInv, SizesAgree
  <2>3. CASE book' = {o \in book : o.id # id} /\ Drift(id, -RestingSize(id)) /\ k = id
    <3>1. Resting(k)' = {}  BY <2>3 DEF Resting
    <3>2. RestingSize(k)' = 0  BY <3>1 DEF RestingSize
    <3>3. drift'[k] = drift[k] + (-RestingSize(k))  BY <1>2, <2>3 DEF Drift
    <3>4. RestingSize(k) \in Nat /\ drift[k] \in Int  BY <1>2, WorkingType
    <3>5. Working(k)' - drift'[k] = Working(k) - drift[k]
      BY <1>7, <3>2, <3>3, <3>4 DEF Working
    <3>6. QED  BY <2>1, <3>5 DEF OrderInv, SizesAgree
  <2>4. CASE book' = {o \in book : o.id # id} /\ Drift(id, -RestingSize(id)) /\ k # id
    <3>1. Resting(k)' = Resting(k)  BY <2>4 DEF Resting
    <3>2. drift'[k] = drift[k]  BY <1>2, <2>4 DEF Drift
    <3>3. QED  BY <2>2, <3>1, <3>2
  <2>5. CASE book' = book \cup {new} /\ drift' = drift
    <3>1. Resting(k)' = Resting(k)  BY <1>4, <2>5 DEF Resting
    <3>2. QED  BY <2>2, <2>5, <3>1
  <2>6. QED  BY <1>3, <2>3, <2>4, <2>5 DEF new
<1>9. QED  BY <1>1, <1>6, <1>8

\* An execution takes its fills off the orders it sweeps.
LEMMA SweepLeavesSizes ==
  ASSUME OrderInv, pending = <<>>, FeedExecutes,
         UNCHANGED <<nextId, active, cancelled>>, TypeOK'
  PROVE  /\ OnceEach' /\ SizesAgree' /\ IdsKnown'
         /\ \A i \in DOMAIN pending' : pending'[i].size > 0
<1> DEFINE Rest(o, last) == [o EXCEPT !.size = @ - last]
           Sweeps(n, orders, last) ==
             /\ IsInjective(orders)
             /\ pending' = Swept(orders, last)
             /\ book' = (book \ Range(orders)) \cup
                  (IF n = 0 \/ last = orders[n].size THEN {} ELSE {Rest(orders[n], last)})
<1>a. PICK n \in 0..MaxFills : \E orders \in [1..n -> book] :
        \E last \in IF n = 0 THEN {0} ELSE 1..orders[n].size : Sweeps(n, orders, last)
  BY DEF FeedExecutes
<1>b. PICK orders \in [1..n -> book] :
        \E last \in IF n = 0 THEN {0} ELSE 1..orders[n].size : Sweeps(n, orders, last)
  BY <1>a
<1>1. PICK last \in IF n = 0 THEN {0} ELSE 1..orders[n].size : Sweeps(n, orders, last)
  BY <1>b
<1>2. n \in Nat /\ DOMAIN orders = 1..n /\ Len(orders) = n
  <2>1. MaxFills \in Nat  BY BacktesterAssumption DEF BacktesterAssumption
  <2>2. n \in Nat  BY <2>1
  <2>3. QED  BY <2>2
<1>3. \A k \in 1..n : orders[k] \in book /\ orders[k].size \in Nat /\ orders[k].size > 0
  BY OrderFacts DEF OrderInv, IdsKnown
<1>4. n # 0 => last \in Nat /\ last > 0 /\ last <= orders[n].size
  BY <1>1, <1>2, <1>3
\* What the fill of the k-th swept order takes, and what stays of it.
<1> DEFINE Taken(k) == IF k = n THEN last ELSE orders[k].size
<1>5. /\ DOMAIN pending' = 1..n
      /\ \A k \in 1..n : /\ pending'[k].id = orders[k].id /\ pending'[k].own = orders[k].own
                         /\ pending'[k].size = Taken(k) /\ Taken(k) \in Nat /\ Taken(k) > 0
  <2>1. pending' = [i \in 1..n |->
          IF i = n THEN [orders[i] EXCEPT !.size = last] ELSE orders[i]]
    BY <1>1, <1>2 DEF Swept
  <2>2. \A k \in 1..n : orders[k] \in Order  BY <1>3, OrderFacts DEF OrderInv
  <2>3. ASSUME NEW k \in 1..n
        PROVE  /\ pending'[k].id = orders[k].id /\ pending'[k].own = orders[k].own
               /\ pending'[k].size = Taken(k) /\ Taken(k) \in Nat /\ Taken(k) > 0
    <3>1. n # 0  BY <1>2
    <3>2. orders[k] = [id |-> orders[k].id, own |-> orders[k].own, size |-> orders[k].size]
      BY <2>2 DEF Order
    <3>3. [orders[k] EXCEPT !.size = last] = [id |-> orders[k].id, own |-> orders[k].own, size |-> last]
      BY <3>2
    <3>4. pending'[k] = IF k = n THEN [orders[k] EXCEPT !.size = last] ELSE orders[k]
      BY <2>1
    <3>5. QED  BY <1>3, <1>4, <3>1, <3>2, <3>3, <3>4
  <2>4. QED  BY <2>1, <2>3
<1>6. \A j, k \in 1..n :
        orders[j].own /\ orders[k].own /\ orders[j].id = orders[k].id => j = k
  <2>1. \A j, k \in 1..n : orders[j] = orders[k] => j = k
    BY <1>1, <1>2 DEF IsInjective
  <2>2. QED  BY <1>3, <2>1 DEF OrderInv, OnceEach
<1>7. Range(orders) = {orders[k] : k \in 1..n}  BY <1>2 DEF Range
\* The order that is not swept in full.
<1> DEFINE Left == IF n = 0 \/ last = orders[n].size THEN {} ELSE {Rest(orders[n], last)}
<1>8. book' = (book \ {orders[k] : k \in 1..n}) \cup Left  BY <1>1, <1>7
<1>9. \A o \in Left : /\ n # 0 /\ o.id = orders[n].id /\ o.own = orders[n].own
                      /\ o.size = orders[n].size - last /\ o.size \in Nat /\ o.size > 0
  <2>1. SUFFICES ASSUME n # 0, last # orders[n].size
                 PROVE  LET o == Rest(orders[n], last) IN
                        /\ o.id = orders[n].id /\ o.own = orders[n].own
                        /\ o.size = orders[n].size - last /\ o.size \in Nat /\ o.size > 0
    OBVIOUS
  <2>2. n \in 1..n  BY <1>2, <2>1
  <2>3. orders[n] \in Order  BY <1>3, <2>2, OrderFacts DEF OrderInv
  <2>4. Rest(orders[n], last) =
          [id |-> orders[n].id, own |-> orders[n].own, size |-> orders[n].size - last]
    BY <2>3 DEF Order
  <2>5. orders[n].size - last \in Nat /\ orders[n].size - last > 0
    BY <1>3, <1>4, <2>1, <2>2
  <2>6. QED  BY <2>4, <2>5
<1> HIDE DEF Left
<1>10. \A k \in 1..n, o \in book :
         o.own /\ orders[k].own /\ o.id = orders[k].id => o = orders[k]
  BY <1>3 DEF OrderInv, OnceEach
<1>11. OnceEach'
  <2>1. ASSUME NEW o \in book', NEW q \in book', o.own, q.own, o.id = q.id PROVE o = q
    <3>1. CASE o \in Left /\ q \in Left  BY <3>1 DEF Left
    <3>2. ASSUME NEW l \in Left, NEW b \in book, b \notin {orders[k] : k \in 1..n},
                 l.own, b.own
          PROVE  l.id # b.id
      <4>1. n \in 1..n /\ l.id = orders[n].id /\ l.own = orders[n].own  BY <1>2, <1>9
      <4>2. QED  BY <1>10, <3>2, <4>1
    <3>3. CASE o \notin Left /\ q \notin Left  BY <1>8, <2>1, <3>3 DEF OrderInv, OnceEach
    <3>4. QED  BY <1>8, <2>1, <3>1, <3>2, <3>3
  <2>2. \A i, j \in DOMAIN pending' :
          pending'[i].own /\ pending'[j].own /\ pending'[i].id = pending'[j].id => i = j
    BY <1>5, <1>6
  <2>3. QED  BY <2>1, <2>2 DEF OnceEach
<1>12. IdsKnown'
  <2>1. ASSUME NEW o \in book'
        PROVE  o.size > 0 /\ (o.own => o.id \in 1..(nextId - 1))
    <3>1. CASE o \in book  BY <3>1 DEF OrderInv, IdsKnown
    <3>2. CASE o \in Left
      <4>1. n \in 1..n /\ orders[n] \in book  BY <1>2, <1>3, <1>9, <3>2
      <4>2. QED  BY <1>9, <3>2, <4>1 DEF OrderInv, IdsKnown
    <3>3. QED  BY <1>8, <3>1, <3>2
  <2>2. ASSUME NEW k \in DOMAIN pending', pending'[k].own
        PROVE  pending'[k].id \in 1..(nextId - 1)
    <3>1. /\ orders[k] \in book /\ pending'[k].id = orders[k].id
          /\ pending'[k].own = orders[k].own
      BY <1>3, <1>5
    <3>2. QED  BY <2>2, <3>1 DEF OrderInv, IdsKnown
  <2>3. QED  BY <2>1, <2>2 DEF IdsKnown
<1>13. ASSUME NEW id
       PROVE  /\ Working(id)' = Working(id)
              /\ (\A o \in book : o.own => o.id # id) => \A o \in book' : o.own => o.id # id
  <2>1. SizesRead /\ SizesRead' /\ OnceEach  BY ReadSizes DEF OrderInv
  <2>2. UnreportedSize(id) = 0  BY DEF UnreportedSize, Unreported
  <2>3. CASE \A k \in 1..n : orders[k].own => orders[k].id # id
    <3>1. \A o \in book' : o.own /\ o.id = id => o \in book
      <4>1. ASSUME NEW o \in Left, o.own PROVE o.id # id
        <5>1. n \in 1..n  BY <1>2, <1>9
        <5>2. QED  BY <1>9, <2>3, <4>1, <5>1
      <4>2. QED  BY <1>8, <4>1
    <3>2. \A o \in book : o.own /\ o.id = id => o \in book'  BY <1>8, <2>3
    <3>3. Resting(id)' = Resting(id)  BY <3>1, <3>2 DEF Resting
    <3>4. RestingSize(id)' = RestingSize(id)  BY <3>3 DEF RestingSize
    <3>5. UnreportedSize(id)' = 0  BY <1>5, <1>11, <2>1, <2>3 DEF SizesRead
    <3>6. QED  BY <2>2, <3>1, <3>4, <3>5 DEF Working
  <2>4. ASSUME NEW k \in 1..n, orders[k].own, orders[k].id = id
        PROVE  Working(id)' = Working(id) /\ ~ \A o \in book : o.own => o.id # id
    <3>1. orders[k] \in book /\ n # 0  BY <1>2, <1>3
    <3>2. RestingSize(id) = orders[k].size  BY <2>1, <2>4, <3>1 DEF SizesRead
    <3>3. UnreportedSize(id)' = Taken(k)
      <4>1. /\ k \in DOMAIN pending' /\ pending'[k].id = id
            /\ pending'[k].own /\ pending'[k].size = Taken(k)
        BY <1>5, <2>4
      <4>2. QED  BY <1>11, <2>1, <4>1 DEF SizesRead
    <3>4. RestingSize(id)' \in Int /\ RestingSize(id)' + Taken(k) = orders[k].size
      <4>1. CASE k = n /\ last # orders[n].size
        <5>1. PICK o \in Left : TRUE  BY <3>1, <4>1 DEF Left
        <5>2. o \in book' /\ o.own /\ o.id = id /\ o.size = orders[n].size - last
          BY <1>8, <1>9, <2>4, <4>1, <5>1
        <5>3. RestingSize(id)' = orders[n].size - last
          BY <1>11, <2>1, <5>2 DEF SizesRead
        <5>4. Taken(k) = last  BY <4>1
        <5>5. orders[n].size \in Nat /\ last \in Nat  BY <1>3, <1>4, <3>1, <4>1
        <5>6. QED  BY <4>1, <5>3, <5>4, <5>5
      <4>2. CASE ~(k = n /\ last # orders[n].size)
        <5>1. Taken(k) = orders[k].size  BY <4>2
        <5>2. ASSUME NEW o \in Left, o.own, o.id = id PROVE FALSE
          <6>1. /\ orders[n].own /\ orders[n].id = id /\ n \in 1..n /\ last # orders[n].size
            BY <1>2, <1>9, <5>2 DEF Left
          <6>2. k = n  BY <1>6, <2>4, <6>1
          <6>3. QED  BY <4>2, <6>1, <6>2
        <5>3. \A o \in book : o.own /\ o.id = id => o = orders[k]  BY <1>10, <2>4
        <5>4. \A o \in book' : o.own => o.id # id  BY <1>8, <5>2, <5>3
        <5>5. RestingSize(id)' = 0  BY <1>11, <2>1, <5>4 DEF SizesRead
        <5>6. QED  BY <1>3, <5>1, <5>5
      <4>3. QED  BY <4>1, <4>2
    <3>5. Taken(k) \in Nat  BY <1>5
    <3>6. QED  BY <1>3, <2>2, <2>4, <3>1, <3>2, <3>3, <3>4, <3>5 DEF Working
  <2>5. QED  BY <2>3, <2>4
<1>14. SizesAgree'
  <2>1. drift' = drift  BY DEF FeedExecutes
  <2>2. \A id : ActiveSize(id)' = ActiveSize(id)  BY DEF ActiveSize
  <2>3. QED  BY <1>13, <2>1, <2>2 DEF OrderInv, SizesAgree
<1>15. QED  BY <1>5, <1>11, <1>12, <1>14

-----------------------------------------------------------------------------
(* A fill, and what the strategy does *)

\* Processing a fill of the strategy's moves its size from the fills to report
\* to the entry of active_orders; a fill of a feed order of the same id takes
\* its size off the entry too, and drift remembers it.
LEMMA FillKeepsSizes ==
  ASSUME OrderInv, ProcessFill, TypeOK'
  PROVE  OrderInv'
<1>1. /\ pending \in Seq(Order) /\ pending # <<>> /\ pending' = Tail(pending)
      /\ phase' = phase /\ phase = "fills" /\ Report(Head(pending))
      /\ UNCHANGED <<book, nextId, cancelled>>
  BY DEF ProcessFill, OrderInv, TypeOK
<1>2. /\ Len(pending) \in Nat /\ Len(pending) > 0 /\ DOMAIN pending = 1..Len(pending)
      /\ DOMAIN pending' = 1..(Len(pending) - 1)
      /\ \A i \in DOMAIN pending' : i + 1 \in DOMAIN pending /\ pending'[i] = pending[i + 1]
  BY <1>1
<1>a. PICK f : f = pending[1]  OBVIOUS
<1>3. 1 \in DOMAIN pending /\ f = Head(pending) /\ f.size \in Nat /\ f.size > 0
  <2>1. 1 \in DOMAIN pending /\ f = Head(pending)  BY <1>1, <1>2, <1>a
  <2>2. QED  BY <1>a, <2>1, OrderFacts DEF OrderInv, FillsInTheirPhase
<1>4. OnceEach'
  <2>1. ASSUME NEW i \in DOMAIN pending', NEW j \in DOMAIN pending',
               pending'[i].own, pending'[j].own, pending'[i].id = pending'[j].id
        PROVE  i = j
    <3>1. i + 1 = j + 1  BY <1>2, <2>1 DEF OrderInv, OnceEach
    <3>2. QED  BY <1>2, <3>1
  <2>2. QED  BY <1>1, <2>1 DEF OrderInv, OnceEach
<1>5. IdsKnown' /\ FillsInTheirPhase'
  BY <1>1, <1>2 DEF OrderInv, IdsKnown, FillsInTheirPhase
<1>6. /\ DOMAIN active' \subseteq DOMAIN active
      /\ \A id : id # f.id => ActiveSize(id)' = ActiveSize(id)
      /\ ActiveSize(f.id)' = IF ActiveSize(f.id) <= f.size THEN 0 ELSE ActiveSize(f.id) - f.size
  <2>1. active' = AfterFill(active, f)  BY <1>1, <1>3 DEF Report
  <2>2. CASE f.id \notin DOMAIN active
    <3>1. 0 <= f.size  BY <1>3
    <3>2. QED  BY <2>1, <2>2, <3>1 DEF AfterFill, ActiveSize
  <2>3. CASE f.id \in DOMAIN active /\ active[f.id] <= f.size
    BY <2>1, <2>3 DEF AfterFill, ActiveSize, Restrict
  <2>4. CASE f.id \in DOMAIN active /\ ~(active[f.id] <= f.size)
    <3>1. active' = [active EXCEPT ![f.id] = @ - f.size]  BY <2>1, <2>4 DEF AfterFill
    <3>2. DOMAIN active' = DOMAIN active
          /\ \A id \in DOMAIN active : active'[id] = IF id = f.id THEN active[id] - f.size
                                                   ELSE active[id]
      BY <3>1
    <3>3. QED  BY <2>4, <3>2 DEF ActiveSize
  <2>5. QED  BY <2>2, <2>3, <2>4
<1>7. ActiveKnown'  BY <1>1, <1>6 DEF OrderInv, ActiveKnown
<1>8. SizesAgree'
  <2> SUFFICES ASSUME NEW id \in 1..(nextId - 1), id \notin cancelled
               PROVE  ActiveSize(id)' = IF Working(id)' - drift'[id] > 0
                                        THEN Working(id)' - drift'[id] ELSE 0
    BY <1>1 DEF OrderInv, SizesAgree
  <2>1. SizesRead /\ SizesRead' /\ OnceEach  BY ReadSizes DEF OrderInv
  <2>2. RestingSize(id)' = RestingSize(id)  BY <1>1 DEF RestingSize, Resting
  <2>3. ActiveSize(id) = IF Working(id) - drift[id] > 0 THEN Working(id) - drift[id] ELSE 0
    BY DEF OrderInv, SizesAgree
  <2>4. /\ RestingSize(id) \in Nat /\ UnreportedSize(id) \in Nat /\ drift[id] \in Int
        /\ drift \in [1..(nextId - 1) -> Int] /\ f.own \in BOOLEAN
    BY <1>3, <1>a, WorkingType, OrderFacts DEF OrderInv
  <2>5. CASE id # f.id \/ ~f.own
    <3>1. UnreportedSize(id)' = UnreportedSize(id)
      <4>1. CASE \E i \in DOMAIN pending : pending[i].own /\ pending[i].id = id
        <5>1. PICK i \in DOMAIN pending : pending[i].own /\ pending[i].id = id  BY <4>1
        <5>2. i # 1  BY <1>a, <2>5, <5>1
        <5>3. i - 1 \in DOMAIN pending' /\ (i - 1) + 1 = i  BY <1>2, <5>2
        <5>4. pending'[i - 1] = pending[i]  BY <1>2, <5>3
        <5>5. UnreportedSize(id) = pending[i].size  BY <2>1, <5>1 DEF SizesRead
        <5>6. UnreportedSize(id)' = pending'[i - 1].size
          BY <1>4, <2>1, <5>1, <5>3, <5>4 DEF SizesRead
        <5>7. QED  BY <5>4, <5>5, <5>6
      <4>2. CASE \A i \in DOMAIN pending : pending[i].own => pending[i].id # id
        <5>1. \A i \in DOMAIN pending' : pending'[i].own => pending'[i].id # id
          BY <1>2, <4>2
        <5>2. QED  BY <1>4, <2>1, <4>2, <5>1 DEF SizesRead
      <4>3. QED  BY <4>1, <4>2
    <3>2. Working(id)' = Working(id) /\ Working(id) \in Nat  BY <2>2, <2>4, <3>1 DEF Working
    <3>3. CASE id # f.id
      <4>1. drift'[id] = drift[id]  BY <1>1, <1>3, <2>4, <3>3 DEF Report, Drift
      <4>2. QED  BY <1>6, <2>3, <3>2, <3>3, <4>1
    <3>4. CASE id = f.id /\ ~f.own
      <4>1. drift'[id] = drift[id] + f.size  BY <1>1, <1>3, <2>4, <3>4 DEF Report, Drift
      <4>2. ActiveSize(id)' = IF ActiveSize(id) <= f.size THEN 0 ELSE ActiveSize(id) - f.size
        BY <1>6, <3>4
      <4>3. QED  BY <1>3, <2>3, <2>4, <3>2, <4>1, <4>2
    <3>5. QED  BY <2>5, <3>3, <3>4
  <2>6. CASE id = f.id /\ f.own
    <3>1. UnreportedSize(id) = f.size  BY <1>3, <1>a, <2>1, <2>6 DEF SizesRead
    <3>2. UnreportedSize(id)' = 0
      <4>1. ASSUME NEW i \in DOMAIN pending', pending'[i].own, pending'[i].id = id PROVE FALSE
        <5>1. i + 1 = 1  BY <1>2, <1>3, <1>a, <2>6, <4>1 DEF OrderInv, OnceEach
        <5>2. QED  BY <1>2, <5>1
      <4>2. QED  BY <1>4, <2>1, <4>1 DEF SizesRead
    <3>3. drift'[id] = drift[id]  BY <1>1, <1>3, <2>6 DEF Report
    <3>4. Working(id) = RestingSize(id) + f.size /\ Working(id)' = RestingSize(id)
      BY <2>2, <2>4, <3>1, <3>2 DEF Working
    <3>5. ActiveSize(id)' = IF ActiveSize(id) <= f.size THEN 0 ELSE ActiveSize(id) - f.size
      BY <1>6, <2>6
    <3>6. QED  BY <1>3, <2>3, <2>4, <3>3, <3>4, <3>5
  <2>7. QED  BY <2>4, <2>5, <2>6
<1>9. QED  BY <1>4, <1>5, <1>7, <1>8 DEF OrderInv

\* A submitted order rests whole, under an id the strategy has not used.
LEMMA SubmitKeepsSizes ==
  ASSUME OrderInv, SubmitOrder, TypeOK'
  PROVE  OrderInv'
<1>1. UNCHANGED <<pending, phase, cancelled>>
  BY DEF SubmitOrder, driverVars
<1>2. nextId \in Nat /\ OrderSize \in Nat \ {0} /\ drift \in [1..(nextId - 1) -> Int]
  BY OrderFacts DEF OrderInv
<1>3. CASE UNCHANGED <<nextId, active, drift, book>>
  <2>1. SizesAgree'
    BY <1>1, <1>3 DEF OrderInv, SizesAgree, ActiveSize, Working, RestingSize, Resting,
                      UnreportedSize, Unreported
  <2>2. QED
    BY <1>1, <1>3, <2>1 DEF OrderInv, IdsKnown, OnceEach, FillsInTheirPhase, ActiveKnown
<1> DEFINE new == [id |-> nextId, own |-> TRUE, size |-> OrderSize]
<1>4. CASE /\ nextId' = nextId + 1 /\ book' = book \cup {new}
           /\ active' = [id \in DOMAIN active \cup {nextId} |->
                           IF id = nextId THEN OrderSize ELSE active[id]]
           /\ drift' = [id \in 1..nextId |-> IF id = nextId THEN 0 ELSE drift[id]]
  <2>1. nextId # 0 /\ nextId \notin 1..(nextId - 1)
    BY <1>2 DEF OrderInv, TypeOK
  <2>2. /\ \A o \in book : o.own => o.id # nextId
        /\ \A i \in DOMAIN pending : pending[i].own => pending[i].id # nextId
    BY <2>1 DEF OrderInv, IdsKnown
  <2>3. new.id = nextId /\ new.size = OrderSize /\ new.own  OBVIOUS
  <2> HIDE DEF new
  <2>4. OnceEach'
    <3>1. \A o, q \in book' : o.own /\ q.own /\ o.id = q.id => o = q
      BY <1>4, <2>2, <2>3 DEF OrderInv, OnceEach
    <3>2. QED  BY <1>1, <3>1 DEF OrderInv, OnceEach
  <2>5. \A id : id \in 1..(nextId' - 1) <=> id \in 1..(nextId - 1) \/ id = nextId
    BY <1>2, <1>4, <2>1
  <2>6. IdsKnown'
    <3>1. ASSUME NEW o \in book'
          PROVE  o.size > 0 /\ (o.own => o.id \in 1..(nextId' - 1))
      <4>1. CASE o \in book  BY <2>5, <4>1 DEF OrderInv, IdsKnown
      <4>2. CASE o = new  BY <1>2, <2>3, <2>5, <4>2
      <4>3. QED  BY <1>4, <4>1, <4>2
    <3>2. \A i \in DOMAIN pending' : pending'[i].own => pending'[i].id \in 1..(nextId' - 1)
      BY <1>1, <2>5 DEF OrderInv, IdsKnown
    <3>3. QED  BY <3>1, <3>2 DEF IdsKnown
  <2>7. ActiveKnown' /\ FillsInTheirPhase'
    BY <1>1, <1>2, <1>4, <2>5 DEF OrderInv, ActiveKnown, FillsInTheirPhase
  <2>8. SizesAgree'
    <3>1. SizesRead /\ SizesRead' /\ OnceEach  BY ReadSizes DEF OrderInv
    <3>2. ASSUME NEW id \in 1..(nextId - 1)
          PROVE  IF id \in cancelled THEN \A o \in book' : o.own => o.id # id
                 ELSE ActiveSize(id)' = IF Working(id)' - drift'[id] > 0
                                        THEN Working(id)' - drift'[id] ELSE 0
      <4>1. id # nextId /\ id \in 1..nextId  BY <1>2, <2>1
      <4>2. Resting(id)' = Resting(id)  BY <1>4, <2>3, <4>1 DEF Resting
      <4>3. RestingSize(id)' = RestingSize(id)  BY <4>2 DEF RestingSize
      <4>4. UnreportedSize(id)' = UnreportedSize(id)
        BY <1>1 DEF UnreportedSize, Unreported
      <4>5. ActiveSize(id)' = ActiveSize(id)  BY <1>4, <4>1 DEF ActiveSize
      <4>6. Working(id)' = Working(id) /\ drift'[id] = drift[id]
        BY <1>4, <4>1, <4>3, <4>4 DEF Working
      <4>7. QED  BY <1>4, <2>3, <4>1, <4>5, <4>6 DEF OrderInv, SizesAgree
    <3>3. ASSUME NEW id, id = nextId
          PROVE  /\ id \notin cancelled
                 /\ ActiveSize(id)' = IF Working(id)' - drift'[id] > 0
                                      THEN Working(id)' - drift'[id] ELSE 0
      <4>1. id \notin cancelled  BY <2>1, <3>3 DEF OrderInv, TypeOK
      <4>2. ActiveSize(id)' = OrderSize  BY <1>4, <3>3 DEF ActiveSize
      <4>3. RestingSize(id)' = OrderSize
        BY <1>4, <2>3, <2>4, <3>1, <3>3 DEF SizesRead
      <4>4. UnreportedSize(id)' = 0  BY <1>1, <2>2, <2>4, <3>1, <3>3 DEF SizesRead
      <4>5. id \in 1..nextId  BY <1>2, <2>1, <3>3
      <4>6. drift'[id] = 0  BY <1>4, <3>3, <4>5
      <4>7. QED  BY <1>2, <4>1, <4>2, <4>3, <4>4, <4>6 DEF Working
    <3>4. ASSUME NEW id \in 1..(nextId' - 1)
          PROVE  IF id \in cancelled' THEN \A o \in book' : o.own => o.id # id
                 ELSE ActiveSize(id)' = IF Working(id)' - drift'[id] > 0
                                        THEN Working(id)' - drift'[id] ELSE 0
      <4>1. CASE id = nextId  BY <1>1, <3>3, <4>1
      <4>2. CASE id \in 1..(nextId - 1)  BY <1>1, <3>2, <4>2
      <4>3. QED  BY <2>5, <4>1, <4>2
    <3>5. QED  BY <3>4 DEF SizesAgree
  <2>9. QED  BY <2>4, <2>6, <2>7, <2>8 DEF OrderInv
<1>5. QED  BY <1>3, <1>4 DEF SubmitOrder, Enqueue

\* A cancelled order leaves the book for good, and stays in active_orders.
LEMMA CancelKeepsSizes ==
  ASSUME OrderInv, NEW id \in 1..(nextId - 1), CancelOrder(id), TypeOK'
  PROVE  OrderInv'
<1>1. /\ UNCHANGED <<pending, phase, nextId, active, drift>>
      /\ \/ UNCHANGED <<book, cancelled>>
         \/ book' = {o \in book : o.id # id} /\ cancelled' = cancelled \cup {id}
  BY DEF CancelOrder, driverVars
<1>2. IdsKnown' /\ OnceEach'
  BY <1>1 DEF OrderInv, IdsKnown, OnceEach
<1>3. FillsInTheirPhase' /\ ActiveKnown'
  BY <1>1 DEF OrderInv, FillsInTheirPhase, ActiveKnown
<1>4. SizesAgree'
  <2> SUFFICES ASSUME NEW k \in 1..(nextId - 1)
               PROVE  IF k \in cancelled' THEN \A o \in book' : o.own => o.id # k
                      ELSE ActiveSize(k)' = IF Working(k)' - drift'[k] > 0
                                            THEN Working(k)' - drift'[k] ELSE 0
    BY <1>1 DEF SizesAgree
  <2>1. UnreportedSize(k)' = UnreportedSize(k) /\ ActiveSize(k)' = ActiveSize(k)
    BY <1>1 DEF UnreportedSize, Unreported, ActiveSize
  <2>2. CASE k \in cancelled'
    BY <1>1, <2>2 DEF OrderInv, SizesAgree
  <2>3. CASE k \notin cancelled'
    <3>1. Resting(k)' = Resting(k)  BY <1>1, <2>3 DEF Resting
    <3>2. RestingSize(k)' = RestingSize(k)  BY <3>1 DEF RestingSize
    <3>3. Working(k)' = Working(k)  BY <2>1, <3>2 DEF Working
    <3>4. QED  BY <1>1, <2>1, <2>3, <3>3 DEF OrderInv, SizesAgree
  <2>4. QED  BY <2>2, <2>3
<1>5. QED  BY <1>2, <1>3, <1>4 DEF OrderInv

\* Everything else leaves the orders alone; fills to report keep run() where
\* it is.
LEMMA OthersKeepOrders ==
  ASSUME OrderInv, TypeOK', UNCHANGED <<book, pending, active, cancelled, drift, nextId>>,
         pending # <<>> => phase' = phase
  PROVE  OrderInv'
<1>1. IdsKnown' /\ OnceEach' /\ FillsInTheirPhase' /\ ActiveKnown'
  BY DEF OrderInv, IdsKnown, OnceEach, FillsInTheirPhase, ActiveKnown
<1>2. SizesAgree'
  <2>1. \A id : ActiveSize(id)' = ActiveSize(id)  BY DEF ActiveSize
  <2>2. \A id : Working(id)' = Working(id)
    BY DEF Working, RestingSize, Resting, UnreportedSize, Unreported
  <2>3. QED  BY <2>1, <2>2 DEF OrderInv, SizesAgree
<1>3. QED  BY <1>1, <1>2 DEF OrderInv

\* Every step keeps the strategy's view of its orders and the book together.
LEMMA OrderStep == OrderInv /\ [Next]_vars => OrderInv'
<1> SUFFICES ASSUME OrderInv, [Next]_vars PROVE OrderInv'  OBVIOUS
<1> USE DEF driverVars, orderVars, timerVars
<1>1. TypeOK /\ TypeOK'  BY TypeStep DEF OrderInv
<1>2. CASE Dispatch
  <2>1. pending = <<>> /\ phase' = "fills" /\ UNCHANGED <<nextId, active, cancelled>>
    BY <1>2 DEF Dispatch, OrderInv, FillsInTheirPhase
  <2>2. OnceEach' /\ SizesAgree' /\ IdsKnown' /\ \A i \in DOMAIN pending' : pending'[i].size > 0
    <3>1. CASE FeedExecutes  BY <1>1, <2>1, <3>1, SweepLeavesSizes
    <3>2. CASE FeedAdds \/ FeedDeletes
      <4>1. OnceEach' /\ SizesAgree' /\ IdsKnown' /\ pending' = <<>>
        BY <1>1, <2>1, <3>2, FeedLeavesOrders
      <4>2. DOMAIN pending' = {}  BY <4>1
      <4>3. QED  BY <4>1, <4>2
    <3>3. QED  BY <1>2, <3>1, <3>2 DEF Dispatch, ApplyEvent
  <2>3. ActiveKnown' /\ FillsInTheirPhase'
    BY <2>1, <2>2 DEF OrderInv, ActiveKnown, FillsInTheirPhase
  <2>4. QED  BY <1>1, <2>2, <2>3 DEF OrderInv
<1>3. CASE ProcessFill  BY <1>1, <1>3, FillKeepsSizes
<1>4. CASE Driver /\ ~Dispatch /\ ~ProcessFill
  <2>1. /\ UNCHANGED <<book, pending, active, cancelled, drift, nextId>>
        /\ pending # <<>> => phase' = phase
    BY <1>4 DEF Driver, StartStrategy, NextEvent, FireTimer, MarketData, FinaliseRun, Return,
                OrderInv, FillsInTheirPhase
  <2>2. QED  BY <1>1, <2>1, OthersKeepOrders
<1>5. CASE ContextCall
  <2>1. CASE SubmitOrder  BY <1>1, <2>1, SubmitKeepsSizes
  <2>2. ASSUME NEW id \in 1..(nextId - 1), CancelOrder(id) PROVE OrderInv'
    BY <1>1, <2>2, CancelKeepsSizes
  <2>3. ASSUME NEW delay, ScheduleTimer(delay) PROVE OrderInv'
    BY <1>1, <2>3, OthersKeepOrders DEF ScheduleTimer
  <2>4. ASSUME NEW id, CancelTimer(id) PROVE OrderInv'
    BY <1>1, <2>4, OthersKeepOrders DEF CancelTimer
  <2>5. QED  BY <1>5, <2>1, <2>2, <2>3, <2>4 DEF ContextCall
<1>6. CASE CallbackReturns \/ CallbackRaises
  BY <1>1, <1>6, OthersKeepOrders DEF CallbackReturns, CallbackRaises
<1>7. CASE UNCHANGED vars  BY <1>1, <1>7, OthersKeepOrders DEF vars
<1>8. QED  BY <1>2, <1>3, <1>4, <1>5, <1>6, <1>7 DEF Next, Strategy

\* At the start the strategy and the book know no order.
LEMMA OrderInit == Init => OrderInv
<1> SUFFICES ASSUME Init PROVE OrderInv  OBVIOUS
<1>1. DOMAIN pending = {} /\ DOMAIN active = {} /\ book = {} /\ 1..(nextId - 1) = {}
  BY DEF Init
<1>2. TypeOK  BY TypeInit
<1>3. IdsKnown /\ OnceEach /\ FillsInTheirPhase /\ ActiveKnown /\ SizesAgree
  BY <1>1 DEF Init, IdsKnown, OnceEach, FillsInTheirPhase, ActiveKnown, SizesAgree
<1>4. QED  BY <1>2, <1>3 DEF OrderInv

\* For any strategy and any feed, whichever ids the feed uses: what
\* active_orders says of an order is what rests of it in the book plus the
\* fill not reported yet, but for what the feed's orders of the same id did
\* in its name, and nothing of a cancelled order rests (backtester.py:
\* submit_order, cancel_order, process_fill).
THEOREM ActiveOrdersAgree == Spec => []ActiveOrdersTrackBook
<1>1. OrderInv => ActiveOrdersTrackBook
  <2> SUFFICES ASSUME OrderInv, NEW id \in 1..(nextId - 1)
               PROVE  /\ \A o, q \in Resting(id) : o = q
                      /\ \A i, j \in Unreported(id) : i = j
                      /\ IF id \in cancelled THEN Resting(id) = {}
                         ELSE LET left == (RestingSize(id) + UnreportedSize(id)) - drift[id]
                              IN ActiveSize(id) = IF left > 0 THEN left ELSE 0
    BY DEF ActiveOrdersTrackBook
  <2>1. (\A o, q \in Resting(id) : o = q) /\ (\A i, j \in Unreported(id) : i = j)
    BY DEF OrderInv, OnceEach, Resting, Unreported
  <2>2. id \in cancelled => Resting(id) = {}  BY DEF OrderInv, SizesAgree, Resting
  <2>3. QED  BY <2>1, <2>2 DEF OrderInv, SizesAgree, Working
<1>2. QED  BY OrderInit, OrderStep, <1>1, PTL DEF Spec
=============================================================================
