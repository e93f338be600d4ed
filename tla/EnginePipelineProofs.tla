----------------------- MODULE EnginePipelineProofs -----------------------
(* Theorems about the threaded engine, for every value of its constants. *)
EXTENDS EnginePipeline, FiniteSetTheorems, SequenceTheorems, TLAPS

\* The smaller of two naturals, as FiniteSetsExt defines it.
LEMMA MinOfTwo ==
  ASSUME NEW a \in Nat, NEW b \in Nat
  PROVE  Min({a, b}) \in {a, b} /\ Min({a, b}) <= a /\ Min({a, b}) <= b
<1> DEFINE P(x) == x \in {a, b} /\ \A y \in {a, b} : x =< y
<1>1. \E x : P(x)
  <2>1. CASE a <= b  BY <2>1
  <2>2. CASE b <= a  BY <2>2
  <2>3. QED  BY <2>1, <2>2
<1>2. P(CHOOSE x : P(x))  BY <1>1
<1>3. Min({a, b}) = CHOOSE x : P(x)  BY DEF Min
<1>4. QED  BY <1>2, <1>3

\* Matching executes at least one unit: an empty side is seeded first.
LEMMA MatchTrades ==
  ASSUME NEW rest \in [Side -> Nat], NEW opp \in Side, EngineAssumption
  PROVE  LET r == Replenished(rest, opp)
             done == Executed(r, opp)
         IN /\ r \in [Side -> Nat]
            /\ done \in 1..OrderSize
            /\ [r EXCEPT ![opp] = @ - done] \in [Side -> Nat]
<1> DEFINE r == Replenished(rest, opp)
<1> DEFINE done == Executed(r, opp)
<1>1. r \in [Side -> Nat] /\ r[opp] >= 1
  BY DEF Replenished, Seed, EngineAssumption
<1>2. done \in {OrderSize, r[opp]} /\ done <= OrderSize /\ done <= r[opp]
  BY <1>1, MinOfTwo DEF Executed, EngineAssumption
<1>3. QED  BY <1>1, <1>2 DEF EngineAssumption

-----------------------------------------------------------------------------
(* Type correctness *)

\* The event that ends a queue is an event.
LEMMA SentinelIsEvent == Sentinel \in Event
BY DEF Sentinel, Event, Side

\* The engine starts well typed.
LEMMA TypeInit == Init => TypeOK
<1> SUFFICES ASSUME Init PROVE TypeOK  OBVIOUS
<1>1. eventQueue \in Seq(Event) /\ matchQueue \in Seq(Nat) /\ logged \in Seq(Nat)
  BY DEF Init
<1>2. matched \in Seq([id : Nat, time : Nat, ready : Nat, filled : Nat])
  BY DEF Init
<1>3. liquidity \in [Side -> Nat]
  BY DEF Init
<1>4. QED  BY <1>1, <1>2, <1>3, SentinelIsEvent DEF Init, TypeOK

\* What Emitted may change, kept in type.
LEMMA EmittedType ==
  ASSUME TypeOK, Emitted
  PROVE  /\ processed' \in Nat /\ limitReached' \in BOOLEAN
         /\ batch' \subseteq Entry /\ matchPc' \in {"finish", "flush"}
<1>1. processed \in Nat /\ limitReached \in BOOLEAN /\ batch \subseteq Entry
  BY DEF TypeOK
<1>2. processed' \in Nat /\ batch' \subseteq Entry /\ matchPc' \in {"finish", "flush"}
  BY <1>1 DEF Emitted
<1>3. limitReached' \in BOOLEAN
  BY <1>1 DEF Emitted
<1>4. QED  BY <1>2, <1>3

\* Every step of a thread keeps the types.
LEMMA TypeStep == TypeOK /\ [Next]_vars => TypeOK'
<1> USE DEF EventFrame, MatchFrame, LogFrame, flags, eventVars, matchVars, logVars
<1>1. ASSUME TypeOK, Runtime PROVE TypeOK'
  <2>1. ASSUME Start PROVE TypeOK'
    BY <1>1, <2>1 DEF Start, TypeOK
  <2>2. ASSUME JoinEvent PROVE TypeOK'
    BY <1>1, <2>2 DEF JoinEvent, TypeOK
  <2>3. ASSUME JoinMatch PROVE TypeOK'
    BY <1>1, <2>3 DEF JoinMatch, TypeOK
  <2>4. ASSUME JoinLog PROVE TypeOK'
    BY <1>1, <2>4 DEF JoinLog, TypeOK
  <2>5. QED  BY <1>1, <2>1, <2>2, <2>3, <2>4 DEF Runtime
<1>2. ASSUME TypeOK, RequestShutdown PROVE TypeOK'
  BY <1>2 DEF RequestShutdown, TypeOK
<1>3. ASSUME TypeOK, EventThread PROVE TypeOK'
  <2>1. ASSUME Sample PROVE TypeOK'
    <3>1. clock' \in Nat /\ inHand' \in Event
      BY <1>3, <2>1, EngineAssumption DEF Sample, Event, EngineAssumption, TypeOK
    <3>2. QED  BY <1>3, <2>1, <3>1 DEF Sample, TypeOK
  <2>2. ASSUME PushEvent PROVE TypeOK'
    <3>1. eventQueue \in Seq(Event) /\ inHand \in Event  BY <1>3 DEF TypeOK
    <3>2. eventQueue' \in Seq(Event)  BY <2>2, <3>1 DEF PushEvent, Push
    <3>3. produced' \in Nat /\ eventPc' \in {"loop", "sentinel", "pushFailed"}
      BY <1>3, <2>2 DEF PushEvent, EventCounted, TypeOK
    <3>4. QED  BY <1>3, <2>2, <3>2, <3>3 DEF PushEvent, EventCounted, TypeOK
  <2>3. ASSUME PushEventFailed PROVE TypeOK'
    <3>1. produced' \in Nat /\ eventPc' \in {"loop", "sentinel", "push"}
      BY <1>3, <2>3 DEF PushEventFailed, EventCounted, TypeOK
    <3>2. QED  BY <1>3, <2>3, <3>1 DEF PushEventFailed, EventCounted, TypeOK
  <2>4. ASSUME PushSentinel PROVE TypeOK'
    <3>1. eventQueue \in Seq(Event)  BY <1>3 DEF TypeOK
    <3>2. eventQueue' \in Seq(Event)
      BY <2>4, <3>1, SentinelIsEvent DEF PushSentinel, Push
    <3>3. eventPc' \in {"finish", "sentinelFailed"}  BY <2>4 DEF PushSentinel
    <3>4. QED  BY <1>3, <2>4, <3>2, <3>3 DEF PushSentinel, TypeOK
  <2>5. ASSUME PushSentinelFailed PROVE TypeOK'
    BY <1>3, <2>5 DEF PushSentinelFailed, TypeOK
  <2>6. ASSUME EventFinish PROVE TypeOK'
    BY <1>3, <2>6 DEF EventFinish, TypeOK
  <2>7. QED  BY <1>3, <2>1, <2>2, <2>3, <2>4, <2>5, <2>6 DEF EventThread
<1>4. ASSUME TypeOK, MatchThread PROVE TypeOK'
  <2>1. ASSUME SeedBook PROVE TypeOK'
    <3>1. liquidity' \in [Side -> Nat]
      BY <1>4, <2>1, EngineAssumption DEF SeedBook, Seed, EngineAssumption, TypeOK
    <3>2. QED  BY <1>4, <2>1, <3>1 DEF SeedBook, TypeOK
  <2>2. ASSUME LoopHead PROVE TypeOK'
    BY <1>4, <2>2 DEF LoopHead, TypeOK
  <2>3. ASSUME Pop PROVE TypeOK'
    <3>1. eventQueue \in Seq(Event) /\ latency \subseteq Entry /\ batch \subseteq Entry
      BY <1>4 DEF TypeOK
    <3>2. eventQueue' \in Seq(Event)  BY <2>3, <3>1 DEF Pop
    <3>3. ASSUME eventQueue # <<>> PROVE Head(eventQueue) \in Event
      BY <3>1, <3>3
    <3>4. lastEventTime' \in Nat
      BY <1>4, <2>3, <3>3 DEF Pop, Event, TypeOK
    <3>5. latency' \subseteq Entry /\ batch' \subseteq Entry
      BY <2>3, <3>1, <3>3, EngineAssumption DEF Pop, Flush, Event, Entry, EngineAssumption
    <3>6. /\ matchPc' \in {"tail", "flush", "empty"}
          /\ afterFlush' \in {"loop", "sentinel"}
          /\ streamComplete' \in BOOLEAN
      BY <1>4, <2>3 DEF Pop, Flush, TypeOK
    <3>7. UNCHANGED <<runtime, flags, eventVars, logVars, matchQueue, limitReached,
                      processed, liquidity, outbound, matched, dropped>>
      BY <2>3 DEF Pop
    <3>8. QED  BY <1>4, <3>2, <3>4, <3>5, <3>6, <3>7 DEF TypeOK
  <2>4. ASSUME PopFailed PROVE TypeOK'
    <3>1. latency' \subseteq Entry /\ batch' \subseteq Entry
      BY <1>4, <2>4 DEF PopFailed, Flush, TypeOK
    <3>2. /\ matchPc' \in {"tail", "flush", "loop"}
          /\ afterFlush' \in {"loop", "sentinel"}
          /\ streamComplete' \in BOOLEAN
      BY <1>4, <2>4 DEF PopFailed, Flush, TypeOK
    <3>3. UNCHANGED <<runtime, flags, eventVars, logVars, eventQueue, matchQueue,
                      lastEventTime, limitReached, processed, liquidity, outbound,
                      matched, dropped>>
      BY <2>4 DEF PopFailed
    <3>4. QED  BY <1>4, <3>1, <3>2, <3>3 DEF TypeOK
  <2>5. ASSUME SkipEntry PROVE TypeOK'
    <3>1. batch' \subseteq Entry /\ dropped' \subseteq Nat
      BY <1>4, <2>5 DEF SkipEntry, FirstReady, Entry, TypeOK
    <3>2. QED  BY <1>4, <2>5, <3>1 DEF SkipEntry, TypeOK
  <2>6. ASSUME MatchEntry PROVE TypeOK'
    <3>1. PICK e \in batch :
            /\ LET opp  == Opposite(e.side)
                   rest == Replenished(liquidity, opp)
                   done == Executed(rest, opp)
               IN /\ liquidity' = [rest EXCEPT ![opp] = @ - done]
                  /\ matched' = Append(matched, [id |-> e.id, time |-> e.time,
                                                 ready |-> e.ready, filled |-> done])
            /\ batch' = batch \ {e}
            /\ outbound' = e.id
      BY <2>6 DEF MatchEntry
    <3>2. e \in Entry /\ liquidity \in [Side -> Nat]  BY <1>4, <3>1 DEF TypeOK
    <3>3. Opposite(e.side) \in Side  BY DEF Opposite, Side
    <3>4. liquidity' \in [Side -> Nat]
      BY <3>1, <3>2, <3>3, MatchTrades, EngineAssumption
    <3>5. Executed(Replenished(liquidity, Opposite(e.side)), Opposite(e.side)) \in Nat
      BY <3>2, <3>3, MatchTrades, EngineAssumption
    <3>6. matched' \in Seq([id : Nat, time : Nat, ready : Nat, filled : Nat])
      <4>1. matched \in Seq([id : Nat, time : Nat, ready : Nat, filled : Nat])
        BY <1>4 DEF TypeOK
      <4>2. QED  BY <3>1, <3>2, <3>5, <4>1 DEF Entry
    <3>7. batch' \subseteq Entry /\ outbound' \in Nat
      BY <1>4, <3>1, <3>2 DEF Entry, TypeOK
    <3>8. QED  BY <1>4, <2>6, <3>4, <3>6, <3>7 DEF MatchEntry, TypeOK
  <2>7. ASSUME PushOutput PROVE TypeOK'
    <3>1. matchQueue \in Seq(Nat) /\ outbound \in Nat  BY <1>4 DEF TypeOK
    <3>2. matchQueue' \in Seq(Nat)  BY <2>7, <3>1 DEF PushOutput
    <3>3. \/ Emitted
          \/ UNCHANGED <<processed, limitReached, batch>> /\ matchPc' = "emitFailed"
      BY <2>7 DEF PushOutput
    <3>4. UNCHANGED <<runtime, flags, eventVars, logVars, eventQueue, lastEventTime,
                      latency, afterFlush, streamComplete, liquidity, outbound,
                      matched, dropped>>
      BY <2>7 DEF PushOutput
    <3>5. QED  BY <1>4, <3>2, <3>3, <3>4, EmittedType DEF TypeOK
  <2>8. ASSUME PushOutputFailed PROVE TypeOK'
    <3>1. \/ Emitted
          \/ UNCHANGED <<processed, limitReached, batch>> /\ matchPc' = "emit"
      BY <2>8 DEF PushOutputFailed
    <3>2. UNCHANGED <<runtime, flags, eventVars, logVars, eventQueue, matchQueue,
                      lastEventTime, latency, afterFlush, streamComplete, liquidity,
                      outbound, matched, dropped>>
      BY <2>8 DEF PushOutputFailed
    <3>3. QED  BY <1>4, <3>1, <3>2, EmittedType DEF TypeOK
  <2>9. ASSUME FlushDone PROVE TypeOK'
    <3>1. outbound' \in Nat /\ matchPc' \in {"loop", "emit"}
      BY <1>4, <2>9 DEF FlushDone, Sentinel, TypeOK
    <3>2. QED  BY <1>4, <2>9, <3>1 DEF FlushDone, TypeOK
  <2>10. ASSUME TailFlush PROVE TypeOK'
    <3>1. latency' \subseteq Entry /\ batch' \subseteq Entry /\ outbound' \in Nat
      BY <1>4, <2>10 DEF TailFlush, Flush, Sentinel, TypeOK
    <3>2. matchPc' \in {"flush", "emit"} /\ afterFlush' \in {afterFlush, "sentinel"}
      BY <2>10 DEF TailFlush, Flush
    <3>3. QED  BY <1>4, <2>10, <3>1, <3>2 DEF TailFlush, TypeOK
  <2>11. ASSUME MatchFinish PROVE TypeOK'
    BY <1>4, <2>11 DEF MatchFinish, TypeOK
  <2>12. QED
    BY <1>4, <2>1, <2>2, <2>3, <2>4, <2>5, <2>6, <2>7, <2>8, <2>9, <2>10, <2>11
    DEF MatchThread
<1>5. ASSUME TypeOK, Logger PROVE TypeOK'
  <2>1. ASSUME Log PROVE TypeOK'
    <3>1. matchQueue \in Seq(Nat) /\ logged \in Seq(Nat)  BY <1>5 DEF TypeOK
    <3>2. matchQueue' \in Seq(Nat) /\ logged' \in Seq(Nat)
      <4>1. matchQueue # <<>> /\ matchQueue' = Tail(matchQueue)  BY <2>1 DEF Log
      <4>2. Head(matchQueue) \in Nat /\ Tail(matchQueue) \in Seq(Nat)  BY <3>1, <4>1
      <4>3. logged' = logged \/ logged' = Append(logged, Head(matchQueue))
        BY <2>1 DEF Log
      <4>4. Append(logged, Head(matchQueue)) \in Seq(Nat)  BY <3>1, <4>2
      <4>5. logged' \in Seq(Nat)  BY <3>1, <4>3, <4>4
      <4>6. QED  BY <4>1, <4>2, <4>5
    <3>3. logPc' \in {"off", "loop", "done"}  BY <1>5, <2>1 DEF Log, TypeOK
    <3>4. UNCHANGED <<runtime, flags, eventVars, eventQueue, matchVars>>
      BY <2>1 DEF Log
    <3>5. QED  BY <1>5, <3>2, <3>3, <3>4 DEF TypeOK
  <2>2. ASSUME LogStop PROVE TypeOK'
    BY <1>5, <2>2 DEF LogStop, TypeOK
  <2>3. QED  BY <1>5, <2>1, <2>2 DEF Logger
<1>6. ASSUME TypeOK, UNCHANGED vars PROVE TypeOK'
  BY <1>6 DEF vars, TypeOK
<1>7. QED  BY <1>1, <1>2, <1>3, <1>4, <1>5, <1>6 DEF Next

\* Every reachable state is well typed.
THEOREM TypeCorrect == Spec => []TypeOK
BY TypeInit, TypeStep, PTL DEF Spec

-----------------------------------------------------------------------------
(* Matching in ready order                                                   *)
(* MatchedInReadyOrder is not inductive: that a flush never yields an entry  *)
(* ready before one already matched needs two facts about what is on its     *)
(* way.  Events reach the matcher with times that never decrease, and every  *)
(* flush of the loop has taken all that was ready by last_event_time.        *)

\* Event times never decrease from the clock through the queue to the matcher.
TimesOrdered ==
  /\ inHand.time = clock
  /\ lastEventTime <= clock
  /\ \A i \in DOMAIN eventQueue : eventQueue[i] # Sentinel =>
       lastEventTime <= eventQueue[i].time /\ eventQueue[i].time <= clock
  /\ \A i, j \in DOMAIN eventQueue :
       i < j /\ eventQueue[i] # Sentinel /\ eventQueue[j] # Sentinel
         => eventQueue[i].time <= eventQueue[j].time

\* What is matched was ready before what is being flushed, and that before
\* what is still delayed; the loop's flushes stop at last_event_time.
ReadyTimesOrdered ==
  /\ \A i \in DOMAIN matched : \A e \in batch \cup latency : matched[i].ready <= e.ready
  /\ \A e \in batch, f \in latency : e.ready <= f.ready
  /\ afterFlush = "loop" =>
       /\ \A i \in DOMAIN matched : matched[i].ready <= lastEventTime
       /\ \A e \in batch : e.ready <= lastEventTime
  /\ matchPc \in {"off", "seed", "loop", "pop", "empty", "tail"} =>
       batch = {} /\ afterFlush = "loop"

NotStarted == runtime = "idle" => matchPc = "off"

ReadyInv ==
  TypeOK /\ NotStarted /\ TimesOrdered /\ ReadyTimesOrdered /\ MatchedInReadyOrder

\* An envelope no older than the queue and no newer than the clock keeps order.
LEMMA PushKeepsTimes ==
  ASSUME TypeOK, TimesOrdered, NEW envelope \in Event, Push(envelope),
         envelope = Sentinel \/ envelope.time = clock,
         UNCHANGED <<inHand, clock, lastEventTime>>
  PROVE  TimesOrdered'
<1>1. eventQueue \in Seq(Event) /\ clock \in Nat  BY DEF TypeOK
<1>2. eventQueue' = Append(eventQueue, envelope)  BY DEF Push
<1>3. DOMAIN eventQueue' = 1..Len(eventQueue) + 1  BY <1>1, <1>2
<1>4. \A i \in 1..Len(eventQueue) : eventQueue'[i] = eventQueue[i]  BY <1>1, <1>2
<1>5. eventQueue'[Len(eventQueue) + 1] = envelope  BY <1>1, <1>2
<1>6. Len(eventQueue) \in Nat /\ DOMAIN eventQueue = 1..Len(eventQueue)  BY <1>1
<1>7. inHand'.time = clock' /\ lastEventTime' <= clock'  BY DEF TimesOrdered
<1>8. ASSUME NEW i \in DOMAIN eventQueue', eventQueue'[i] # Sentinel
      PROVE  lastEventTime' <= eventQueue'[i].time /\ eventQueue'[i].time <= clock'
  <2>1. CASE i \in 1..Len(eventQueue)  BY <1>4, <1>6, <1>8, <2>1 DEF TimesOrdered
  <2>2. CASE i = Len(eventQueue) + 1
    BY <1>1, <1>5, <1>7, <1>8, <2>2
  <2>3. QED  BY <1>3, <1>6, <2>1, <2>2
<1>9. ASSUME NEW i \in DOMAIN eventQueue', NEW j \in DOMAIN eventQueue', i < j,
             eventQueue'[i] # Sentinel, eventQueue'[j] # Sentinel
      PROVE  eventQueue'[i].time <= eventQueue'[j].time
  <2>1. i \in 1..Len(eventQueue)  BY <1>3, <1>6, <1>9
  <2>2. CASE j \in 1..Len(eventQueue)
    BY <1>4, <1>6, <1>9, <2>1, <2>2 DEF TimesOrdered
  <2>3. CASE j = Len(eventQueue) + 1
    <3>1. eventQueue[i].time <= clock  BY <1>4, <1>6, <1>9, <2>1 DEF TimesOrdered
    <3>2. QED  BY <1>4, <1>5, <1>9, <2>1, <2>3, <3>1
  <2>4. QED  BY <1>3, <1>6, <2>2, <2>3
<1>10. QED  BY <1>7, <1>8, <1>9 DEF TimesOrdered

\* Taking the oldest event moves last_event_time on, never past a queued one.
LEMMA PopKeepsTimes ==
  ASSUME TypeOK, TimesOrdered, eventQueue # <<>>, eventQueue' = Tail(eventQueue),
         \/ lastEventTime' = lastEventTime
         \/ Head(eventQueue) # Sentinel /\ lastEventTime' = Head(eventQueue).time,
         UNCHANGED <<inHand, clock>>
  PROVE  TimesOrdered'
<1>1. eventQueue \in Seq(Event) /\ clock \in Nat /\ lastEventTime \in Nat  BY DEF TypeOK
<1>2. /\ Len(eventQueue) \in Nat \ {0} /\ DOMAIN eventQueue = 1..Len(eventQueue)
      /\ Head(eventQueue) = eventQueue[1]
  BY <1>1
<1>3. /\ DOMAIN eventQueue' = 1..Len(eventQueue) - 1
      /\ \A i \in 1..Len(eventQueue) - 1 : eventQueue'[i] = eventQueue[i + 1]
  BY <1>1, <1>2
<1>4. \A i \in 1..Len(eventQueue) - 1 : i + 1 \in DOMAIN eventQueue  BY <1>2
<1>5. lastEventTime' <= clock'  BY <1>2 DEF TimesOrdered
<1>6. ASSUME NEW i \in DOMAIN eventQueue', eventQueue'[i] # Sentinel
      PROVE  lastEventTime' <= eventQueue'[i].time /\ eventQueue'[i].time <= clock'
  <2>1. /\ i + 1 \in DOMAIN eventQueue /\ 1 \in DOMAIN eventQueue /\ 1 < i + 1
        /\ eventQueue'[i] = eventQueue[i + 1]
    BY <1>2, <1>3, <1>4, <1>6
  <2>2. lastEventTime <= eventQueue[i + 1].time /\ eventQueue[i + 1].time <= clock
    BY <1>6, <2>1 DEF TimesOrdered
  <2>3. eventQueue[1] # Sentinel => eventQueue[1].time <= eventQueue[i + 1].time
    BY <1>6, <2>1 DEF TimesOrdered
  <2>4. QED  BY <1>2, <2>1, <2>2, <2>3
<1>7. ASSUME NEW i \in DOMAIN eventQueue', NEW j \in DOMAIN eventQueue', i < j,
             eventQueue'[i] # Sentinel, eventQueue'[j] # Sentinel
      PROVE  eventQueue'[i].time <= eventQueue'[j].time
  <2>1. /\ i + 1 \in DOMAIN eventQueue /\ j + 1 \in DOMAIN eventQueue /\ i + 1 < j + 1
        /\ eventQueue'[i] = eventQueue[i + 1] /\ eventQueue'[j] = eventQueue[j + 1]
    BY <1>2, <1>3, <1>4, <1>7
  <2>2. QED  BY <1>7, <2>1 DEF TimesOrdered
<1>8. QED  BY <1>5, <1>6, <1>7 DEF TimesOrdered

\* Every step keeps the times of the events in order.
LEMMA TimesStep == TypeOK /\ TimesOrdered /\ [Next]_vars => TimesOrdered'
<1> SUFFICES ASSUME TypeOK, TimesOrdered, [Next]_vars PROVE TimesOrdered'  OBVIOUS
<1> USE DEF EventFrame, MatchFrame, LogFrame, flags, eventVars, matchVars, logVars
<1>1. CASE Sample
  <2>1. CASE UNCHANGED <<clock, inHand>>
    BY <1>1, <2>1 DEF Sample, TimesOrdered
  <2>2. CASE ~UNCHANGED <<clock, inHand>>
    <3>1. PICK gap \in Gaps : \E s \in Side :
            inHand' = [id |-> produced + 1, time |-> clock + gap, side |-> s]
      BY <1>1, <2>2 DEF Sample
    <3>2. inHand'.time = clock' /\ clock' = clock + gap  BY <1>1, <2>2, <3>1 DEF Sample
    <3>3. clock \in Nat /\ gap \in Nat /\ clock <= clock'
      BY <3>2, EngineAssumption DEF EngineAssumption, TypeOK
    <3>4. lastEventTime \in Nat /\ eventQueue \in Seq(Event)  BY DEF TypeOK
    <3>5. \A i \in DOMAIN eventQueue : eventQueue[i].time \in Nat
      <4>1. \A i \in DOMAIN eventQueue : eventQueue[i] \in Event  BY <3>4
      <4>2. QED  BY <4>1 DEF Event
    <3>6. UNCHANGED <<lastEventTime, eventQueue>>  BY <1>1 DEF Sample
    <3>7. QED  BY <3>2, <3>3, <3>4, <3>5, <3>6 DEF TimesOrdered
  <2>3. QED  BY <2>1, <2>2
<1>2. CASE PushEvent
  <2>1. CASE Push(inHand)
    <3>1. inHand \in Event /\ inHand.time = clock  BY DEF TypeOK, TimesOrdered
    <3>2. UNCHANGED <<inHand, clock, lastEventTime>>
      BY <1>2 DEF PushEvent, EventCounted
    <3>3. QED  BY <2>1, <3>1, <3>2, PushKeepsTimes
  <2>2. CASE UNCHANGED eventQueue
    BY <1>2, <2>2 DEF PushEvent, EventCounted, TimesOrdered
  <2>3. QED  BY <1>2, <2>1, <2>2 DEF PushEvent
<1>3. CASE PushSentinel
  <2>1. CASE Push(Sentinel)
    BY <1>3, <2>1, SentinelIsEvent, PushKeepsTimes DEF PushSentinel
  <2>2. CASE UNCHANGED eventQueue
    BY <1>3, <2>2 DEF PushSentinel, TimesOrdered
  <2>3. QED  BY <1>3, <2>1, <2>2 DEF PushSentinel
<1>4. CASE Pop
  <2>1. UNCHANGED <<inHand, clock>>  BY <1>4 DEF Pop
  <2>2. \/ UNCHANGED <<eventQueue, lastEventTime>>
        \/ /\ eventQueue # <<>> /\ eventQueue' = Tail(eventQueue)
           /\ \/ lastEventTime' = lastEventTime
              \/ Head(eventQueue) # Sentinel /\ lastEventTime' = Head(eventQueue).time
    BY <1>4 DEF Pop
  <2>3. CASE UNCHANGED <<eventQueue, lastEventTime>>
    BY <2>1, <2>3 DEF TimesOrdered
  <2>4. QED  BY <2>1, <2>2, <2>3, PopKeepsTimes
<1>5. ASSUME ~Sample, ~PushEvent, ~PushSentinel, ~Pop
      PROVE  UNCHANGED <<inHand, clock, lastEventTime, eventQueue>>
  <2>1. CASE EventThread
    BY <1>5, <2>1 DEF EventThread, PushEventFailed, PushSentinelFailed, EventFinish,
                      EventCounted
  <2>2. CASE MatchThread
    BY <1>5, <2>2 DEF MatchThread, SeedBook, LoopHead, PopFailed, SkipEntry, MatchEntry,
                      PushOutput, PushOutputFailed, FlushDone, TailFlush, MatchFinish
  <2>3. CASE Runtime \/ RequestShutdown
    BY <2>3 DEF Runtime, Start, JoinEvent, JoinMatch, JoinLog, RequestShutdown
  <2>4. CASE Logger \/ UNCHANGED vars
    BY <2>4 DEF Logger, Log, LogStop, vars
  <2>5. QED  BY <2>1, <2>2, <2>3, <2>4 DEF Next
<1>6. CASE UNCHANGED <<inHand, clock, lastEventTime, eventQueue>>
  BY <1>6 DEF TimesOrdered
<1>7. QED  BY <1>1, <1>2, <1>3, <1>4, <1>5, <1>6

\* A flush that drains up to `limit` keeps the order when everything pending
\* follows what was matched, and what was matched was ready by `limit`.
LEMMA FlushKeepsReady ==
  ASSUME NEW pending \in SUBSET Entry, NEW limit \in Nat, NEW return,
         TypeOK, Flush(pending, limit, return), UNCHANGED matched,
         \A i \in DOMAIN matched : \A e \in pending : matched[i].ready <= e.ready,
         return = "loop" =>
           limit = lastEventTime' /\ \A i \in DOMAIN matched : matched[i].ready <= limit
  PROVE  ReadyTimesOrdered'
<1>1. /\ batch' = {e \in pending : e.ready <= limit}
      /\ latency' = {e \in pending : e.ready > limit}
      /\ afterFlush' = return /\ matchPc' = "flush"
  BY DEF Flush
<1>2. \A e \in pending : e.ready \in Nat  BY DEF Entry
<1>3. \A e \in batch', f \in latency' : e.ready <= f.ready  BY <1>1, <1>2
<1>4. \A i \in DOMAIN matched' : \A e \in (batch \cup latency)' : matched'[i].ready <= e.ready
  BY <1>1
<1>5. afterFlush' = "loop" =>
        /\ \A i \in DOMAIN matched' : matched'[i].ready <= lastEventTime'
        /\ \A e \in batch' : e.ready <= lastEventTime'
  BY <1>1
<1>6. QED  BY <1>1, <1>3, <1>4, <1>5 DEF ReadyTimesOrdered

\* Removing entries, and reporting where flush_ready is, keeps the order.
LEMMA FewerEntriesKeepReady ==
  ASSUME ReadyTimesOrdered, batch' \subseteq batch, matchPc' \in {"flush", "finish", "emit",
           "emitFailed", "done"},
         UNCHANGED <<matched, latency, afterFlush, lastEventTime>>
  PROVE  ReadyTimesOrdered'
BY DEF ReadyTimesOrdered

\* The events left to emit only get fewer.
LEMMA EmittedShrinks ==
  ASSUME Emitted
  PROVE  batch' \subseteq batch /\ matchPc' \in {"flush", "finish"}
BY DEF Emitted

\* No step but that of the match changes what was matched.
LEMMA MatchedChangesOnlyInMatchEntry ==
  ASSUME [Next]_vars, ~MatchEntry
  PROVE  UNCHANGED matched
<1> USE DEF EventFrame, MatchFrame, LogFrame, flags, eventVars, matchVars, logVars
<1>1. CASE Runtime
  BY <1>1 DEF Runtime, Start, JoinEvent, JoinMatch, JoinLog
<1>2. CASE RequestShutdown \/ Logger
  BY <1>2 DEF RequestShutdown, Logger, Log, LogStop
<1>3. CASE EventThread
  BY <1>3 DEF EventThread, Sample, PushEvent, PushEventFailed, PushSentinel,
              PushSentinelFailed, EventFinish
<1>4. CASE MatchThread
  BY <1>4 DEF MatchThread, SeedBook, LoopHead, Pop, PopFailed, SkipEntry, PushOutput,
              PushOutputFailed, FlushDone, TailFlush, MatchFinish
<1>5. CASE UNCHANGED vars  BY <1>5 DEF vars
<1>6. QED  BY <1>1, <1>2, <1>3, <1>4, <1>5 DEF Next

\* The ready times of what was matched are times.
LEMMA MatchedReadyType ==
  ASSUME TypeOK
  PROVE  \A i \in DOMAIN matched : matched[i].ready \in Nat
<1> DEFINE Done == [id : Nat, time : Nat, ready : Nat, filled : Nat]
<1>1. matched \in Seq(Done)  BY DEF TypeOK
<1>2. \A d \in Done : d.ready \in Nat  OBVIOUS
<1> HIDE DEF Done
<1>3. \A i \in DOMAIN matched : matched[i] \in Done  BY <1>1
<1>4. QED  BY <1>2, <1>3

\* Taking an event from the input queue keeps the ready times in order.
LEMMA PopKeepsReady ==
  ASSUME TypeOK, TimesOrdered, ReadyTimesOrdered, Pop
  PROVE  ReadyTimesOrdered'
<1>1. matchPc = "pop" /\ batch = {} /\ afterFlush = "loop" /\ UNCHANGED matched
  BY DEF Pop, ReadyTimesOrdered
<1>2. CASE /\ matchPc' \in {"tail", "empty"}
           /\ UNCHANGED <<lastEventTime, latency, batch, afterFlush>>
  BY <1>1, <1>2 DEF ReadyTimesOrdered
<1>3. ASSUME NEW event, event = Head(eventQueue), eventQueue # <<>>, event # Sentinel,
             NEW delay \in Delays, lastEventTime' = event.time,
             Flush(latency \cup {[id |-> event.id, time |-> event.time, side |-> event.side,
                                 ready |-> event.time + delay]}, event.time, "loop")
      PROVE  ReadyTimesOrdered'
  <2> DEFINE entry == [id |-> event.id, time |-> event.time, side |-> event.side,
                       ready |-> event.time + delay]
  <2>1. eventQueue \in Seq(Event) /\ latency \subseteq Entry /\ lastEventTime \in Nat
    BY DEF TypeOK
  <2>2. event \in Event /\ 1 \in DOMAIN eventQueue /\ event = eventQueue[1]
    BY <1>3, <2>1
  <2>3. event.time \in Nat /\ delay \in Nat
    BY <2>2, EngineAssumption DEF Event, EngineAssumption
  <2>4. entry \in Entry /\ entry.ready >= event.time
    BY <2>2, <2>3 DEF Event, Entry
  <2>5. lastEventTime <= event.time  BY <1>3, <2>2 DEF TimesOrdered
  <2>6. \A i \in DOMAIN matched : matched[i].ready \in Nat  BY MatchedReadyType
  <2>7. \A i \in DOMAIN matched : matched[i].ready <= lastEventTime
    BY <1>1 DEF ReadyTimesOrdered
  <2>8. \A i \in DOMAIN matched : matched[i].ready <= event.time
    BY <2>1, <2>3, <2>5, <2>6, <2>7
  <2>9. \A i \in DOMAIN matched : \A e \in latency \cup {entry} : matched[i].ready <= e.ready
    <3>1. \A i \in DOMAIN matched : \A e \in latency : matched[i].ready <= e.ready
      BY DEF ReadyTimesOrdered
    <3>2. \A i \in DOMAIN matched : matched[i].ready <= entry.ready
      BY <2>3, <2>6, <2>8
    <3>3. QED  BY <3>1, <3>2
  <2>10. latency \cup {entry} \in SUBSET Entry  BY <2>1, <2>4
  <2> HIDE DEF entry
  <2>11. Flush(latency \cup {entry}, event.time, "loop")  BY <1>3 DEF entry
  <2>12. QED  BY <1>1, <1>3, <2>3, <2>8, <2>9, <2>10, <2>11, FlushKeepsReady
<1>4. QED
  <2>1. CASE eventQueue # <<>> /\ Head(eventQueue) # Sentinel
    <3>1. PICK delay \in Delays :
            Flush(latency \cup {[id |-> Head(eventQueue).id, time |-> Head(eventQueue).time,
                                side |-> Head(eventQueue).side,
                                ready |-> Head(eventQueue).time + delay]},
                  Head(eventQueue).time, "loop")
      BY <2>1 DEF Pop
    <3>2. lastEventTime' = Head(eventQueue).time  BY <2>1 DEF Pop
    <3>3. QED  BY <1>3, <2>1, <3>1, <3>2
  <2>2. CASE ~(eventQueue # <<>> /\ Head(eventQueue) # Sentinel)
    BY <1>2, <2>2 DEF Pop
  <2>3. QED  BY <2>1, <2>2

\* The entry that is matched next is ready no later than any that remains.
LEMMA MatchKeepsReady ==
  ASSUME TypeOK, ReadyTimesOrdered, MatchedInReadyOrder, MatchEntry
  PROVE  ReadyTimesOrdered' /\ MatchedInReadyOrder'
<1>1. PICK e \in batch : \E done :
        /\ \A f \in batch : e.ready <= f.ready
        /\ matched' = Append(matched, [id |-> e.id, time |-> e.time,
                                       ready |-> e.ready, filled |-> done])
        /\ batch' = batch \ {e}
  BY DEF MatchEntry, FirstReady
<1>2. PICK new : /\ new.ready = e.ready /\ matched' = Append(matched, new)
  BY <1>1
<1>3. matched \in Seq([id : Nat, time : Nat, ready : Nat, filled : Nat])  BY DEF TypeOK
<1>4. /\ Len(matched) \in Nat /\ DOMAIN matched = 1..Len(matched)
      /\ DOMAIN matched' = 1..Len(matched) + 1
      /\ \A i \in 1..Len(matched) : matched'[i] = matched[i]
      /\ matched'[Len(matched) + 1] = new
  BY <1>2, <1>3
<1>5. UNCHANGED <<latency, afterFlush, lastEventTime>> /\ matchPc' = "emit"
  BY DEF MatchEntry, MatchFrame
<1>6. \A i \in DOMAIN matched : matched[i].ready <= e.ready
  BY DEF ReadyTimesOrdered
<1>7. \A i \in DOMAIN matched' : matched'[i].ready <= e.ready
  <2>1. batch \subseteq Entry /\ e.ready \in Nat  BY DEF TypeOK, Entry
  <2>2. e.ready <= e.ready  BY <2>1
  <2>3. QED  BY <1>2, <1>4, <1>6, <2>2
<1>8. MatchedInReadyOrder'
  <2> SUFFICES ASSUME NEW i \in DOMAIN matched', NEW j \in DOMAIN matched', i < j
               PROVE  matched'[i].ready <= matched'[j].ready
    BY DEF MatchedInReadyOrder
  <2>1. i \in 1..Len(matched)  BY <1>4
  <2>2. CASE j \in 1..Len(matched)
    BY <1>4, <2>1, <2>2 DEF MatchedInReadyOrder
  <2>3. CASE j = Len(matched) + 1
    BY <1>2, <1>4, <1>7, <2>3
  <2>4. QED  BY <1>4, <2>2, <2>3
<1>9. \A i \in DOMAIN matched' : \A f \in (batch \cup latency)' : matched'[i].ready <= f.ready
  <2>1. \A f \in (batch \cup latency)' : f \in batch \cup latency /\ e.ready <= f.ready
    BY <1>1, <1>5 DEF ReadyTimesOrdered
  <2>2. \A f \in (batch \cup latency)' : f.ready \in Nat
    BY <2>1 DEF TypeOK, Entry
  <2>3. e.ready \in Nat  BY DEF TypeOK, Entry
  <2>4. \A i \in DOMAIN matched' : matched'[i].ready \in Nat
    <3>1. \A i \in DOMAIN matched : matched[i].ready \in Nat  BY MatchedReadyType
    <3>2. QED  BY <1>2, <1>4, <2>3, <3>1
  <2>5. QED  BY <1>7, <2>1, <2>2, <2>3, <2>4
<1>10. afterFlush' = "loop" =>
         /\ \A i \in DOMAIN matched' : matched'[i].ready <= lastEventTime'
         /\ \A f \in batch' : f.ready <= lastEventTime'
  <2> SUFFICES ASSUME afterFlush = "loop"
               PROVE  /\ \A i \in DOMAIN matched' : matched'[i].ready <= lastEventTime
                      /\ \A f \in batch' : f.ready <= lastEventTime
    BY <1>5
  <2>1. e.ready <= lastEventTime  BY DEF ReadyTimesOrdered
  <2>2. \A i \in DOMAIN matched : matched[i].ready <= lastEventTime  BY DEF ReadyTimesOrdered
  <2>3. \A f \in batch' : f.ready <= lastEventTime  BY <1>1 DEF ReadyTimesOrdered
  <2>4. QED  BY <1>2, <1>4, <2>1, <2>2, <2>3
<1>11. \A f \in batch', g \in latency' : f.ready <= g.ready
  BY <1>1, <1>5 DEF ReadyTimesOrdered
<1>12. QED  BY <1>5, <1>8, <1>9, <1>10, <1>11 DEF ReadyTimesOrdered

\* Before its thread starts, the matcher does nothing.
LEMMA NotStartedStep == NotStarted /\ [Next]_vars => NotStarted'
<1> SUFFICES ASSUME NotStarted, [Next]_vars PROVE NotStarted'  OBVIOUS
<1> USE DEF EventFrame, MatchFrame, LogFrame, flags, eventVars, matchVars, logVars
<1>1. CASE Runtime
  BY <1>1 DEF Runtime, Start, JoinEvent, JoinMatch, JoinLog, NotStarted
<1>2. CASE RequestShutdown \/ Logger
  BY <1>2 DEF RequestShutdown, Logger, Log, LogStop, NotStarted
<1>3. CASE EventThread
  BY <1>3 DEF EventThread, Sample, PushEvent, PushEventFailed, PushSentinel,
              PushSentinelFailed, EventFinish, NotStarted
<1>4. CASE MatchThread
  <2>1. runtime' = runtime /\ matchPc # "off"
    BY <1>4 DEF MatchThread, SeedBook, LoopHead, Pop, PopFailed, SkipEntry, MatchEntry,
                PushOutput, PushOutputFailed, FlushDone, TailFlush, MatchFinish
  <2>2. QED  BY <2>1 DEF NotStarted
<1>5. CASE UNCHANGED vars  BY <1>5 DEF vars, NotStarted
<1>6. QED  BY <1>1, <1>2, <1>3, <1>4, <1>5 DEF Next

\* Every step keeps the ready times in order.
LEMMA ReadyStep ==
  ReadyInv /\ [Next]_vars => ReadyTimesOrdered' /\ MatchedInReadyOrder'
<1> SUFFICES ASSUME ReadyInv, [Next]_vars
             PROVE  ReadyTimesOrdered' /\ MatchedInReadyOrder'
  OBVIOUS
<1> USE DEF EventFrame, MatchFrame, LogFrame, flags, eventVars, matchVars, logVars
<1>1. TypeOK /\ TimesOrdered /\ ReadyTimesOrdered /\ MatchedInReadyOrder  BY DEF ReadyInv
<1>2. CASE MatchEntry  BY <1>1, <1>2, MatchKeepsReady
<1>3. ASSUME ~MatchEntry PROVE MatchedInReadyOrder'
  BY <1>1, <1>3, MatchedChangesOnlyInMatchEntry DEF MatchedInReadyOrder
<1>4. ASSUME UNCHANGED <<matched, latency, batch, afterFlush, lastEventTime, matchPc>>
      PROVE  ReadyTimesOrdered'
  BY <1>1, <1>4 DEF ReadyTimesOrdered
<1>5. ASSUME Start PROVE ReadyTimesOrdered'
  <2>1. matchPc = "off"  BY <1>5 DEF Start, ReadyInv, NotStarted
  <2>2. QED  BY <1>1, <1>5, <2>1 DEF Start, ReadyTimesOrdered
<1>6. ASSUME MatchThread, ~MatchEntry PROVE ReadyTimesOrdered'
  <2>1. CASE SeedBook \/ LoopHead
    BY <1>1, <2>1 DEF SeedBook, LoopHead, ReadyTimesOrdered
  <2>2. CASE Pop  BY <1>1, <2>2, PopKeepsReady
  <2>3. CASE PopFailed
    <3>1. CASE Flush(latency, lastEventTime, "loop")
      <4>1. latency \in SUBSET Entry /\ lastEventTime \in Nat /\ lastEventTime' = lastEventTime
        BY <1>1, <2>3 DEF PopFailed, TypeOK
      <4>2. \A i \in DOMAIN matched : \A e \in latency : matched[i].ready <= e.ready
        BY <1>1 DEF ReadyTimesOrdered
      <4>3. \A i \in DOMAIN matched : matched[i].ready <= lastEventTime
        BY <1>1, <2>3 DEF PopFailed, ReadyTimesOrdered
      <4>4. UNCHANGED matched  BY <2>3 DEF PopFailed
      <4>5. QED  BY <1>1, <3>1, <4>1, <4>2, <4>3, <4>4, FlushKeepsReady
    <3>2. CASE UNCHANGED <<latency, batch, afterFlush>> /\ matchPc' \in {"tail", "loop"}
      BY <1>1, <2>3, <3>2 DEF PopFailed, ReadyTimesOrdered
    <3>3. QED  BY <2>3, <3>1, <3>2 DEF PopFailed
  <2>4. CASE SkipEntry
    <3>1. batch' \subseteq batch /\ matchPc' = "flush"  BY <2>4 DEF SkipEntry
    <3>2. QED  BY <1>1, <2>4, <3>1, FewerEntriesKeepReady DEF SkipEntry
  <2>5. CASE PushOutput
    <3>1. batch' \subseteq batch /\ matchPc' \in {"flush", "finish", "emitFailed"}
      BY <2>5, EmittedShrinks DEF PushOutput
    <3>2. QED  BY <1>1, <2>5, <3>1, FewerEntriesKeepReady DEF PushOutput
  <2>6. CASE PushOutputFailed
    <3>1. batch' \subseteq batch /\ matchPc' \in {"flush", "finish", "emit"}
      BY <2>6, EmittedShrinks DEF PushOutputFailed
    <3>2. QED  BY <1>1, <2>6, <3>1, FewerEntriesKeepReady DEF PushOutputFailed
  <2>7. CASE FlushDone
    BY <1>1, <2>7 DEF FlushDone, ReadyTimesOrdered
  <2>8. CASE TailFlush
    <3>1. CASE Flush(latency, SessionLength, "sentinel")
      <4>1. latency \in SUBSET Entry /\ SessionLength \in Nat
        BY <1>1, EngineAssumption DEF EngineAssumption, TypeOK
      <4>2. \A i \in DOMAIN matched : \A e \in latency : matched[i].ready <= e.ready
        BY <1>1 DEF ReadyTimesOrdered
      <4>3. UNCHANGED matched  BY <2>8 DEF TailFlush
      <4>4. QED  BY <1>1, <3>1, <4>1, <4>2, <4>3, FlushKeepsReady
    <3>2. CASE UNCHANGED <<batch, latency, afterFlush>> /\ matchPc' = "emit"
      BY <1>1, <2>8, <3>2, FewerEntriesKeepReady DEF TailFlush
    <3>3. QED  BY <2>8, <3>1, <3>2 DEF TailFlush
  <2>9. CASE MatchFinish
    BY <1>1, <2>9, FewerEntriesKeepReady DEF MatchFinish
  <2>10. QED
    BY <1>6, <2>1, <2>2, <2>3, <2>4, <2>5, <2>6, <2>7, <2>8, <2>9 DEF MatchThread
<1>7. ASSUME ~MatchThread, ~Start
      PROVE  UNCHANGED <<matched, latency, batch, afterFlush, lastEventTime, matchPc>>
  <2>1. CASE Runtime
    BY <1>7, <2>1 DEF Runtime, JoinEvent, JoinMatch, JoinLog
  <2>2. CASE RequestShutdown \/ Logger
    BY <2>2 DEF RequestShutdown, Logger, Log, LogStop
  <2>3. CASE EventThread
    BY <2>3 DEF EventThread, Sample, PushEvent, PushEventFailed, PushSentinel,
                PushSentinelFailed, EventFinish
  <2>4. CASE UNCHANGED vars  BY <2>4 DEF vars
  <2>5. QED  BY <1>7, <2>1, <2>2, <2>3, <2>4 DEF Next
<1>8. ReadyTimesOrdered'
  <2>1. CASE MatchThread /\ ~MatchEntry  BY <1>6, <2>1
  <2>2. CASE ~MatchThread /\ ~Start  BY <1>4, <1>7, <2>2
  <2>3. QED  BY <1>2, <1>5, <2>1, <2>2
<1>9. QED  BY <1>2, <1>3, <1>8

\* At the start nothing is matched.
LEMMA ReadyInit == Init => ReadyInv
<1> SUFFICES ASSUME Init PROVE ReadyInv  OBVIOUS
<1>1. TypeOK  BY TypeInit
<1>2. TimesOrdered  BY DEF Init, Sentinel, TimesOrdered
<1>3. ReadyTimesOrdered /\ MatchedInReadyOrder
  BY DEF Init, ReadyTimesOrdered, MatchedInReadyOrder
<1>4. NotStarted  BY DEF Init, NotStarted
<1>5. QED  BY <1>1, <1>2, <1>3, <1>4 DEF ReadyInv

\* Orders are matched in the order of their latency-adjusted times, whatever
\* the queue capacity, the delays and the arrival times.
THEOREM ReadyOrder == Spec => []MatchedInReadyOrder
<1>1. ReadyInv /\ [Next]_vars => ReadyInv'
  BY TypeStep, NotStartedStep, TimesStep, ReadyStep DEF ReadyInv
<1>2. ReadyInv => MatchedInReadyOrder  BY DEF ReadyInv
<1>3. QED  BY ReadyInit, <1>1, <1>2, PTL DEF Spec

-----------------------------------------------------------------------------
(* Every match trades, inside the session *)

\* A step of the match adds an execution within bounds.
LEMMA MatchEntryTrades ==
  ASSUME TypeOK, EveryMatchTradesInSession, MatchEntry
  PROVE  EveryMatchTradesInSession'
<1>1. PICK e \in batch :
        /\ e.ready <= SessionLength
        /\ LET opp  == Opposite(e.side)
               rest == Replenished(liquidity, opp)
               done == Executed(rest, opp)
           IN matched' = Append(matched, [id |-> e.id, time |-> e.time,
                                          ready |-> e.ready, filled |-> done])
  BY DEF MatchEntry
<1>2. liquidity \in [Side -> Nat] /\ Opposite(e.side) \in Side
  BY DEF TypeOK, Opposite, Side
<1>3. PICK new : /\ new.ready = e.ready /\ new.filled \in 1..OrderSize
                 /\ matched' = Append(matched, new)
  BY <1>1, <1>2, MatchTrades, EngineAssumption
<1>4. matched \in Seq([id : Nat, time : Nat, ready : Nat, filled : Nat])  BY DEF TypeOK
<1>5. /\ DOMAIN matched = 1..Len(matched) /\ DOMAIN matched' = 1..Len(matched) + 1
      /\ \A i \in 1..Len(matched) : matched'[i] = matched[i]
      /\ matched'[Len(matched) + 1] = new /\ Len(matched) \in Nat
  BY <1>3, <1>4
<1>6. QED  BY <1>1, <1>3, <1>5 DEF EveryMatchTradesInSession

\* No order is executed past the session, and each executes at least one unit
\* and never more than the configured size: the book is seeded when empty.
THEOREM MatchesTrade == Spec => []EveryMatchTradesInSession
<1>1. Init => EveryMatchTradesInSession  BY DEF Init, EveryMatchTradesInSession
<1>2. TypeOK /\ EveryMatchTradesInSession /\ [Next]_vars => EveryMatchTradesInSession'
  <2> SUFFICES ASSUME TypeOK, EveryMatchTradesInSession, [Next]_vars
               PROVE  EveryMatchTradesInSession'
    OBVIOUS
  <2>1. CASE MatchEntry  BY <2>1, MatchEntryTrades
  <2>2. CASE UNCHANGED matched  BY <2>2 DEF EveryMatchTradesInSession
  <2>3. QED  BY <2>1, <2>2, MatchedChangesOnlyInMatchEntry
<1>3. QED  BY <1>1, <1>2, TypeCorrect, PTL DEF Spec

-----------------------------------------------------------------------------
(* Every event is accounted for.  The ids of the events queued, delayed, in  *)
(* the batch, matched and dropped are kept as five sets apart; that the      *)
(* limit never discards an event is a matter of counting: when it is reached *)
(* every event there can be has been matched.                                *)

\* Distinct numbers up to n are at most n, and if they are n, they are all.
LEMMA Pigeonhole ==
  ASSUME NEW s \in Seq(Nat), NEW n \in Nat, IsInjective(s), ToSet(s) \subseteq 1..n
  PROVE  Len(s) <= n /\ (Len(s) >= n => ToSet(s) = 1..n)
<1>1. DOMAIN s = 1..Len(s) /\ Len(s) \in Nat  OBVIOUS
<1>2. s \in Injection(1..Len(s), 1..n)
  <2>1. \A i \in 1..Len(s) : s[i] \in 1..n  BY <1>1 DEF ToSet
  <2>2. s \in [1..Len(s) -> 1..n]  BY <1>1, <2>1
  <2>3. QED  BY <2>2 DEF Injection
<1>3. IsFiniteSet(1..n) /\ Cardinality(1..n) = n /\ Cardinality(1..Len(s)) = Len(s)
  <2>1. \A k \in Nat : IsFiniteSet(1..k) /\ Cardinality(1..k) = IF 1 > k THEN 0 ELSE k - 1 + 1
    BY FS_Interval
  <2>2. \A k \in Nat : (IF 1 > k THEN 0 ELSE k - 1 + 1) = k  OBVIOUS
  <2>3. QED  BY <1>1, <2>1, <2>2
<1>4. /\ Len(s) <= n
      /\ Len(s) = n => s \in Surjection(1..Len(s), 1..n)
  <2> DEFINE S == 1..Len(s)
             T == 1..n
  <2>1. s \in Injection(S, T) /\ IsFiniteSet(T)  BY <1>2, <1>3
  <2> HIDE DEF S, T
  <2>2. /\ Cardinality(S) <= Cardinality(T)
        /\ Cardinality(S) = Cardinality(T) <=> s \in Surjection(S, T)
    BY <2>1, FS_Injection
  <2>3. QED  BY <1>3, <2>2 DEF S, T
<1>5. ASSUME Len(s) >= n PROVE 1..n \subseteq ToSet(s)
  <2>a. Len(s) = n
    <3>1. \A m \in Nat : m <= n /\ m >= n => m = n  OBVIOUS
    <3>2. Len(s) <= n /\ Len(s) >= n  BY <1>4, <1>5
    <3>3. QED  BY <1>1, <3>1, <3>2
  <2>1. s \in Surjection(1..Len(s), 1..n)  BY <1>4, <2>a
  <2>2. \A t \in 1..n : \E i \in 1..Len(s) : s[i] = t  BY <2>1 DEF Surjection
  <2>3. QED  BY <1>1, <2>2 DEF ToSet
<1>6. QED  BY <1>4, <1>5

\* Before run() nothing has happened.
NotStartedYet ==
  runtime = "idle" =>
    /\ eventPc = "off" /\ matchPc = "off" /\ produced = 0
    /\ eventQueue = <<>> /\ matched = <<>> /\ matchQueue = <<>> /\ logged = <<>>

\* Events are numbered as they are counted, and no more are sampled than the
\* limit allows.
SourceInv ==
  /\ eventPc \in {"push", "pushFailed"} => inHand.id = produced + 1
  /\ MaxEvents > 0 => produced <= MaxEvents
  /\ MaxEvents > 0 /\ eventPc \in {"off", "loop", "push", "pushFailed"} => produced < MaxEvents
  /\ \A i \in DOMAIN eventQueue : eventQueue[i] = Sentinel \/ eventQueue[i].id \in 1..produced
  /\ \A i, j \in DOMAIN eventQueue :
       eventQueue[i].id = eventQueue[j].id => i = j \/ eventQueue[i] = Sentinel

AllApart(Q, L, B, M, D) ==
  /\ Q \cap (L \cup B \cup M \cup D) = {}
  /\ L \cap (B \cup M \cup D) = {}
  /\ B \cap (M \cup D) = {}
  /\ M \cap D = {}

Everywhere == ((QueuedIds \cup Ids(latency)) \cup Ids(batch)) \cup (ToSet(MatchedIds) \cup dropped)

AccountInv ==
  /\ AllApart(QueuedIds, Ids(latency), Ids(batch), ToSet(MatchedIds), dropped)
  /\ Everywhere \subseteq 1..produced
  /\ ~shutdown /\ runtime # "idle" => 1..produced \subseteq Everywhere
  /\ \A e, f \in latency \cup batch : e.id = f.id => e = f
  /\ IsInjective(MatchedIds)

\* What the matcher has sent on, counted and offered to the logger.
OutInv ==
  /\ Len(matched) = processed + Len(Pushing)
  /\ ToSet(Pushing) \cup ToSet(logged) \subseteq ToSet(MatchedIds)
  /\ ToSet(matchQueue) \subseteq ToSet(MatchedIds) \cup {Sentinel.id}
  /\ matchPc \notin {"finish", "done"} => Sentinel.id \notin ToSet(matchQueue)
  /\ ~shutdown => (logged \o Queued) \o Pushing = MatchedIds

DeliveryInv == ReadyInv /\ NotStartedYet /\ SourceInv /\ AccountInv /\ OutInv

\* The limit is reached only when every event has been matched.
LEMMA LimitMeansAll ==
  ASSUME TypeOK, SourceInv, AccountInv, MaxEvents > 0
  PROVE  /\ Len(matched) <= MaxEvents
         /\ Len(matched) >= MaxEvents => batch = {} /\ latency = {} /\ QueuedIds = {}
<1> DEFINE Done == [id : Nat, time : Nat, ready : Nat, filled : Nat]
<1>1. matched \in Seq(Done) /\ produced \in Nat /\ MaxEvents \in Nat
  BY EngineAssumption DEF TypeOK, EngineAssumption
<1>2. MatchedIds \in Seq(Nat) /\ Len(MatchedIds) = Len(matched)
  <2>1. \A d \in Done : d.id \in Nat  OBVIOUS
  <2> HIDE DEF Done
  <2>2. DOMAIN matched = 1..Len(matched) /\ Len(matched) \in Nat
        /\ \A i \in DOMAIN matched : matched[i].id \in Nat
    BY <1>1, <2>1
  <2>3. MatchedIds \in [1..Len(matched) -> Nat]  BY <2>2 DEF MatchedIds
  <2>4. QED  BY <2>2, <2>3
<1>3. ToSet(MatchedIds) \subseteq 1..produced  BY DEF AccountInv, Everywhere
<1>4. produced <= MaxEvents  BY DEF SourceInv
<1>5. /\ Len(matched) <= produced
      /\ Len(matched) >= produced => ToSet(MatchedIds) = 1..produced
  BY <1>1, <1>2, <1>3, Pigeonhole DEF AccountInv
<1>6. ASSUME Len(matched) >= MaxEvents PROVE batch = {} /\ latency = {} /\ QueuedIds = {}
  <2>1. ToSet(MatchedIds) = 1..produced  BY <1>1, <1>2, <1>4, <1>5, <1>6
  <2>2. Ids(batch) = {} /\ Ids(latency) = {} /\ QueuedIds = {}
    BY <2>1 DEF AccountInv, AllApart, Everywhere
  <2>3. QED  BY <2>2 DEF Ids
<1>7. Len(matched) \in Nat  BY <1>1
<1>8. QED  BY <1>1, <1>4, <1>5, <1>6, <1>7

\* What a push and a pop do to the ids queued.
LEMMA QueuedAfterPush ==
  ASSUME TypeOK, NEW envelope \in Event, Push(envelope)
  PROVE  /\ QueuedIds' = QueuedIds \cup ({envelope.id} \ {Sentinel.id})
         /\ Len(eventQueue) \in Nat /\ DOMAIN eventQueue = 1..Len(eventQueue)
         /\ DOMAIN eventQueue' = 1..(Len(eventQueue) + 1)
         /\ \A i \in DOMAIN eventQueue : eventQueue'[i] = eventQueue[i]
         /\ eventQueue'[Len(eventQueue) + 1] = envelope
<1>1. eventQueue \in Seq(Event) /\ eventQueue' = Append(eventQueue, envelope)
  BY DEF TypeOK, Push
<1>2. /\ Len(eventQueue) \in Nat /\ DOMAIN eventQueue = 1..Len(eventQueue)
      /\ DOMAIN eventQueue' = 1..(Len(eventQueue) + 1)
      /\ \A i \in DOMAIN eventQueue : eventQueue'[i] = eventQueue[i]
      /\ eventQueue'[Len(eventQueue) + 1] = envelope
  BY <1>1
<1>3. ToSet(eventQueue') = ToSet(eventQueue) \cup {envelope}
  BY <1>2 DEF ToSet
<1>4. Ids(ToSet(eventQueue')) = Ids(ToSet(eventQueue)) \cup {envelope.id}
  BY <1>3 DEF Ids
<1>5. QED  BY <1>2, <1>4 DEF QueuedIds, Sentinel

\* Taking the first event leaves the others queued.
LEMMA QueuedAfterPop ==
  ASSUME TypeOK, SourceInv, eventQueue # <<>>, eventQueue' = Tail(eventQueue)
  PROVE  /\ Head(eventQueue) \in Event /\ 1 \in DOMAIN eventQueue
         /\ Head(eventQueue) = eventQueue[1]
         /\ QueuedIds' = QueuedIds \ {Head(eventQueue).id}
         /\ Head(eventQueue) # Sentinel => Head(eventQueue).id \in QueuedIds
         /\ Len(eventQueue) \in Nat /\ DOMAIN eventQueue' = 1..(Len(eventQueue) - 1)
         /\ \A i \in DOMAIN eventQueue' : i + 1 \in DOMAIN eventQueue /\ eventQueue'[i] = eventQueue[i + 1]
<1>1. eventQueue \in Seq(Event) /\ produced \in Nat  BY DEF TypeOK
<1>2. /\ Head(eventQueue) \in Event /\ 1 \in DOMAIN eventQueue
      /\ Head(eventQueue) = eventQueue[1]
      /\ Len(eventQueue) \in Nat /\ DOMAIN eventQueue = 1..Len(eventQueue)
      /\ DOMAIN eventQueue' = 1..(Len(eventQueue) - 1)
      /\ \A i \in DOMAIN eventQueue' : i + 1 \in DOMAIN eventQueue /\ eventQueue'[i] = eventQueue[i + 1]
  BY <1>1
<1>3. \A id : id \in QueuedIds <=> id # 0 /\ \E i \in DOMAIN eventQueue : eventQueue[i].id = id
  BY DEF QueuedIds, Ids, ToSet, Sentinel
<1>4. \A id : id \in QueuedIds' <=> id # 0 /\ \E i \in DOMAIN eventQueue' : eventQueue'[i].id = id
  BY DEF QueuedIds, Ids, ToSet, Sentinel
<1>5. Sentinel.id = 0  BY DEF Sentinel
<1>6. ASSUME NEW id \in QueuedIds' PROVE id \in QueuedIds /\ id # Head(eventQueue).id
  <2>1. PICK i \in DOMAIN eventQueue' : eventQueue'[i].id = id /\ id # 0  BY <1>4, <1>6
  <2>2. i + 1 \in DOMAIN eventQueue /\ eventQueue[i + 1].id = id /\ i + 1 # 1
    BY <1>2, <2>1
  <2>3. id # eventQueue[1].id  BY <1>2, <1>5, <2>1, <2>2 DEF SourceInv
  <2>4. QED  BY <1>2, <1>3, <2>1, <2>2, <2>3
<1>7. ASSUME NEW id \in QueuedIds, id # Head(eventQueue).id PROVE id \in QueuedIds'
  <2>1. PICK i \in DOMAIN eventQueue : eventQueue[i].id = id /\ id # 0  BY <1>3
  <2>2. i # 1  BY <1>2, <1>7, <2>1
  <2>3. i - 1 \in DOMAIN eventQueue' /\ (i - 1) + 1 = i  BY <1>2, <2>1, <2>2
  <2>4. eventQueue'[i - 1].id = id  BY <1>2, <2>1, <2>3
  <2>5. QED  BY <1>4, <2>1, <2>3, <2>4
<1>8. Head(eventQueue) # Sentinel => Head(eventQueue).id \in QueuedIds
  <2>1. SUFFICES ASSUME Head(eventQueue) # Sentinel PROVE Head(eventQueue).id \in QueuedIds
    OBVIOUS
  <2>2. eventQueue[1].id \in 1..produced  BY <1>2, <2>1 DEF SourceInv
  <2>3. eventQueue[1].id # 0  BY <1>1, <2>2
  <2>4. QED  BY <1>2, <1>3, <2>3
<1>9. QED  BY <1>2, <1>6, <1>7, <1>8

\* The matcher's ids after one more match.
LEMMA MatchedAppended ==
  ASSUME TypeOK, NEW new, new.id \in Nat, matched' = Append(matched, new)
  PROVE  /\ MatchedIds \in Seq(Nat) /\ MatchedIds' = Append(MatchedIds, new.id)
         /\ Len(matched') = Len(matched) + 1 /\ Len(MatchedIds) = Len(matched)
         /\ ToSet(MatchedIds') = ToSet(MatchedIds) \cup {new.id}
         /\ IsInjective(MatchedIds) /\ new.id \notin ToSet(MatchedIds) => IsInjective(MatchedIds')
<1> DEFINE Done == [id : Nat, time : Nat, ready : Nat, filled : Nat]
<1>1. matched \in Seq(Done)  BY DEF TypeOK
<1>2. \A d \in Done : d.id \in Nat  OBVIOUS
<1> HIDE DEF Done
<1>3. /\ Len(matched) \in Nat /\ DOMAIN matched = 1..Len(matched)
      /\ Len(matched') = Len(matched) + 1 /\ DOMAIN matched' = 1..(Len(matched) + 1)
      /\ \A i \in 1..Len(matched) : matched'[i] = matched[i] /\ matched[i].id \in Nat
      /\ matched'[Len(matched) + 1] = new
  BY <1>1, <1>2
<1>4. /\ MatchedIds \in [1..Len(matched) -> Nat]
      /\ MatchedIds' \in [1..(Len(matched) + 1) -> Nat]
      /\ \A i \in 1..Len(matched) : MatchedIds'[i] = MatchedIds[i]
      /\ MatchedIds'[Len(matched) + 1] = new.id
  BY <1>3 DEF MatchedIds
<1>5. MatchedIds \in Seq(Nat) /\ MatchedIds' \in Seq(Nat)
      /\ Len(MatchedIds) = Len(matched) /\ Len(MatchedIds') = Len(matched) + 1
  <2>1. \A k \in Nat : \A f \in [1..k -> Nat] : f \in Seq(Nat) /\ Len(f) = k  OBVIOUS
  <2>2. Len(matched) + 1 \in Nat  BY <1>3
  <2>3. QED  BY <1>3, <1>4, <2>1, <2>2
<1>6. MatchedIds' = Append(MatchedIds, new.id)
  <2>1. Append(MatchedIds, new.id) \in Seq(Nat) /\ Len(Append(MatchedIds, new.id)) = Len(matched) + 1
        /\ \A i \in 1..(Len(matched) + 1) : Append(MatchedIds, new.id)[i] = MatchedIds'[i]
    BY <1>3, <1>4, <1>5
  <2>2. QED  BY <1>5, <2>1, SeqEqual
<1>7. ToSet(MatchedIds') = ToSet(MatchedIds) \cup {new.id}
  BY <1>3, <1>4 DEF ToSet
<1>8. IsInjective(MatchedIds) /\ new.id \notin ToSet(MatchedIds) => IsInjective(MatchedIds')
  BY <1>3, <1>4 DEF IsInjective, ToSet
<1>9. QED  BY <1>3, <1>5, <1>6, <1>7, <1>8

-----------------------------------------------------------------------------
(* The accounts, step by step *)

\* A step that moves no event keeps the accounts.
LEMMA NothingMoves ==
  ASSUME AccountInv, UNCHANGED <<eventQueue, latency, batch, matched, dropped, produced>>,
         ~shutdown' /\ runtime' # "idle" => (~shutdown /\ runtime # "idle") \/ produced = 0
  PROVE  AccountInv'
<1>1. /\ QueuedIds' = QueuedIds /\ Ids(latency)' = Ids(latency) /\ Ids(batch)' = Ids(batch)
      /\ MatchedIds' = MatchedIds
  BY DEF QueuedIds, Ids, ToSet, MatchedIds
<1>2. Everywhere' = Everywhere /\ ToSet(MatchedIds)' = ToSet(MatchedIds)
  BY <1>1 DEF Everywhere, ToSet
<1>3. produced = 0 => 1..produced = {}  OBVIOUS
<1>4. QED  BY <1>1, <1>2, <1>3 DEF AccountInv

\* Without what the queue holds, the accounts are those of the matcher.
LEMMA MatcherIds ==
  ASSUME UNCHANGED <<latency, batch, matched, dropped>>
  PROVE  /\ Ids(latency)' = Ids(latency) /\ Ids(batch)' = Ids(batch)
         /\ MatchedIds' = MatchedIds /\ ToSet(MatchedIds)' = ToSet(MatchedIds)
BY DEF Ids, MatchedIds, ToSet

\* Counting a match keeps the accounts of the events.
LEMMA CountingKeepsAccounts ==
  ASSUME TypeOK, SourceInv, AccountInv, UNCHANGED <<latency, batch, matched, dropped>>,
         UNCHANGED <<runtime, shutdown>>, eventPc \in {"push", "pushFailed"},
         produced' = produced + 1,
         Push(inHand) \/ (shutdown /\ UNCHANGED eventQueue)
  PROVE  AccountInv'
<1>1. produced \in Nat /\ inHand \in Event /\ inHand.id = produced + 1
  BY DEF TypeOK, SourceInv
<1>2. produced + 1 \notin Everywhere /\ 1..(produced + 1) = 1..produced \cup {produced + 1}
  BY <1>1 DEF AccountInv
<1>3. \/ QueuedIds' = QueuedIds \cup {produced + 1}
      \/ shutdown /\ QueuedIds' = QueuedIds
  <2>1. CASE Push(inHand)
    <3>1. inHand.id # 0  BY <1>1
    <3>2. QueuedIds' = QueuedIds \cup ({inHand.id} \ {Sentinel.id})
      BY <1>1, <2>1, QueuedAfterPush
    <3>3. QED  BY <1>1, <3>1, <3>2 DEF Sentinel
  <2>2. CASE shutdown /\ UNCHANGED eventQueue
    BY <2>2 DEF QueuedIds, Ids, ToSet
  <2>3. QED  BY <2>1, <2>2
<1>4. /\ Ids(latency)' = Ids(latency) /\ Ids(batch)' = Ids(batch)
      /\ MatchedIds' = MatchedIds /\ ToSet(MatchedIds)' = ToSet(MatchedIds)
  BY MatcherIds
<1>5. /\ AllApart(QueuedIds, Ids(latency), Ids(batch), ToSet(MatchedIds), dropped)'
      /\ Everywhere' \subseteq 1..produced'
      /\ ~shutdown' /\ runtime' # "idle" => 1..produced' \subseteq Everywhere'
  BY <1>2, <1>3, <1>4 DEF AccountInv, AllApart, Everywhere
<1>6. QED  BY <1>4, <1>5 DEF AccountInv

\* flush_ready divides what is delayed into what is due and what is not.
LEMMA FlushDivides ==
  ASSUME NEW pending \in SUBSET Entry, NEW limit \in Nat, NEW return,
         Flush(pending, limit, return), \A e, f \in pending : e.id = f.id => e = f
  PROVE  /\ latency' \cup batch' = pending
         /\ Ids(latency)' \cup Ids(batch)' = Ids(pending)
         /\ Ids(latency)' \cap Ids(batch)' = {}
<1>1. batch' = {e \in pending : e.ready <= limit} /\ latency' = {e \in pending : e.ready > limit}
  BY DEF Flush
<1>2. \A e \in pending : e.ready \in Nat  BY DEF Entry
<1>3. \A e \in pending : e.ready <= limit \/ e.ready > limit  BY <1>2
<1>4. \A e \in pending : ~(e.ready <= limit /\ e.ready > limit)  BY <1>2
<1>5. latency' \cup batch' = pending /\ latency' \cap batch' = {}
  BY <1>1, <1>3, <1>4
<1>6. QED  BY <1>5 DEF Ids

\* A flush of everything delayed, when no batch is left, moves no id away.
LEMMA FlushKeepsAccounts ==
  ASSUME TypeOK, AccountInv, batch = {}, NEW limit \in Nat, NEW return,
         Flush(latency, limit, return),
         UNCHANGED <<runtime, shutdown, produced, eventQueue, matched, dropped>>
  PROVE  AccountInv'
<1>1. latency \in SUBSET Entry  BY DEF TypeOK
<1>2. /\ latency' \cup batch' = latency
      /\ Ids(latency)' \cup Ids(batch)' = Ids(latency)
      /\ Ids(latency)' \cap Ids(batch)' = {}
  <2>1. \A e, f \in latency : e.id = f.id => e = f  BY DEF AccountInv
  <2>2. QED  BY <1>1, <2>1, FlushDivides
<1>3. Ids(batch) = {}  BY DEF Ids
<1>4. QueuedIds' = QueuedIds /\ MatchedIds' = MatchedIds
      /\ ToSet(MatchedIds)' = ToSet(MatchedIds)
  BY DEF QueuedIds, Ids, ToSet, MatchedIds
<1>5. /\ AllApart(QueuedIds, Ids(latency), Ids(batch), ToSet(MatchedIds), dropped)'
      /\ Everywhere' = Everywhere
  BY <1>2, <1>3, <1>4 DEF AccountInv, AllApart, Everywhere
<1>6. QED  BY <1>2, <1>4, <1>5 DEF AccountInv

\* An event leaves the queue for the latency queue, or at once for the batch.
LEMMA PopKeepsAccounts ==
  ASSUME TypeOK, SourceInv, AccountInv, batch = {}, Pop
  PROVE  AccountInv'
<1> USE DEF MatchFrame, eventVars, logVars
<1>1. UNCHANGED <<runtime, shutdown, produced, matched, dropped>>  BY DEF Pop
<1>2. CASE eventQueue = <<>>
  BY <1>1, <1>2, NothingMoves DEF Pop
<1>3. ASSUME eventQueue # <<>>, Head(eventQueue) = Sentinel PROVE AccountInv'
  <2>1. eventQueue' = Tail(eventQueue) /\ UNCHANGED <<latency, batch>>  BY <1>3 DEF Pop
  <2>2. QueuedIds' = QueuedIds
    <3>1. QueuedIds' = QueuedIds \ {Sentinel.id}  BY <1>3, <2>1, QueuedAfterPop
    <3>2. QED  BY <3>1 DEF QueuedIds
  <2>3. /\ Ids(latency)' = Ids(latency) /\ Ids(batch)' = Ids(batch)
        /\ MatchedIds' = MatchedIds /\ ToSet(MatchedIds)' = ToSet(MatchedIds)
    BY <1>1, <2>1, MatcherIds
  <2>4. QED  BY <1>1, <2>1, <2>2, <2>3 DEF AccountInv, AllApart, Everywhere
<1>4. ASSUME eventQueue # <<>>, Head(eventQueue) # Sentinel PROVE AccountInv'
  <2>1. PICK delay \in Delays :
          Flush(latency \cup {[id |-> Head(eventQueue).id, time |-> Head(eventQueue).time,
                              side |-> Head(eventQueue).side,
                              ready |-> Head(eventQueue).time + delay]},
                Head(eventQueue).time, "loop")
    BY <1>4 DEF Pop
  <2>2. eventQueue' = Tail(eventQueue)  BY <1>4 DEF Pop
  <2>3. PICK event : event = Head(eventQueue)  OBVIOUS
  <2>4. /\ event \in Event /\ QueuedIds' = QueuedIds \ {event.id} /\ event.id \in QueuedIds
    BY <1>4, <2>2, <2>3, QueuedAfterPop
  <2>5. PICK entry : entry = [id |-> event.id, time |-> event.time, side |-> event.side,
                              ready |-> event.time + delay]
    OBVIOUS
  <2>6. entry \in Entry /\ entry.id = event.id /\ event.time \in Nat
    BY <2>4, <2>5, EngineAssumption DEF Event, Entry, EngineAssumption
  <2>7. Flush(latency \cup {entry}, event.time, "loop")  BY <2>1, <2>3, <2>5
  <2>8. event.id \notin Ids(latency)  BY <2>4 DEF AccountInv, AllApart
  <2>9. \A e, f \in latency \cup {entry} : e.id = f.id => e = f
    BY <2>6, <2>8 DEF AccountInv, Ids
  <2>10. Ids(latency \cup {entry}) = Ids(latency) \cup {event.id}  BY <2>6 DEF Ids
  <2>11. /\ latency' \cup batch' = latency \cup {entry}
         /\ Ids(latency)' \cup Ids(batch)' = Ids(latency) \cup {event.id}
         /\ Ids(latency)' \cap Ids(batch)' = {}
    <3>1. latency \cup {entry} \in SUBSET Entry  BY <2>6 DEF TypeOK
    <3>2. QED  BY <2>6, <2>7, <2>9, <2>10, <3>1, FlushDivides
  <2>12. MatchedIds' = MatchedIds /\ ToSet(MatchedIds)' = ToSet(MatchedIds)
    BY <1>1 DEF MatchedIds, ToSet
  <2>13. Ids(batch) = {}  BY DEF Ids
  <2>14. AllApart(QueuedIds, Ids(latency), Ids(batch), ToSet(MatchedIds), dropped)'
    BY <1>1, <2>4, <2>11, <2>12, <2>13 DEF AccountInv, AllApart
  <2>15. Everywhere' = Everywhere
    BY <1>1, <2>4, <2>11, <2>12, <2>13 DEF Everywhere
  <2>16. QED  BY <1>1, <2>9, <2>11, <2>12, <2>14, <2>15 DEF AccountInv
<1>5. QED  BY <1>2, <1>3, <1>4

\* An entry leaves the batch, dropped as late or matched.
LEMMA EntryLeaves ==
  ASSUME AccountInv, NEW e \in batch, batch' = batch \ {e},
         UNCHANGED <<runtime, shutdown, produced, eventQueue, latency>>,
         \/ dropped' = dropped \cup {e.id} /\ UNCHANGED matched
         \/ /\ UNCHANGED dropped
            /\ ToSet(MatchedIds)' = ToSet(MatchedIds) \cup {e.id} /\ IsInjective(MatchedIds)'
  PROVE  AccountInv'
<1>1. \A f \in latency \cup batch : f.id = e.id => f = e  BY DEF AccountInv
<1>2. Ids(batch)' = Ids(batch) \ {e.id} /\ e.id \in Ids(batch)  BY <1>1 DEF Ids
<1>3. QueuedIds' = QueuedIds /\ Ids(latency)' = Ids(latency)
  BY DEF QueuedIds, Ids, ToSet
<1>4. \/ /\ dropped' = dropped \cup {e.id} /\ ToSet(MatchedIds)' = ToSet(MatchedIds)
         /\ MatchedIds' = MatchedIds
      \/ /\ UNCHANGED dropped
         /\ ToSet(MatchedIds)' = ToSet(MatchedIds) \cup {e.id} /\ IsInjective(MatchedIds)'
  BY DEF MatchedIds, ToSet
<1>5. AllApart(QueuedIds, Ids(latency), Ids(batch), ToSet(MatchedIds), dropped)'
  <2> DEFINE Q == QueuedIds
             L == Ids(latency)
             B == Ids(batch)
             M == ToSet(MatchedIds)
  <2>1. AllApart(Q, L, B, M, dropped)  BY DEF AccountInv
  <2>2. e.id \in B /\ B' = B \ {e.id} /\ Q' = Q /\ L' = L  BY <1>2, <1>3
  <2>3. \/ dropped' = dropped \cup {e.id} /\ M' = M
        \/ dropped' = dropped /\ M' = M \cup {e.id}
    BY <1>4
  <2> HIDE DEF Q, L, B, M
  <2>4. AllApart(Q', L', B', M', dropped')  BY <2>1, <2>2, <2>3 DEF AllApart
  <2>5. QED  BY <2>4 DEF AllApart, Q, L, B, M
<1>6. Everywhere' = Everywhere
  BY <1>2, <1>3, <1>4 DEF Everywhere
<1>7. IsInjective(MatchedIds)'  BY <1>4 DEF AccountInv
<1>8. QED  BY <1>5, <1>6, <1>7 DEF AccountInv

\* The batch thrown away at the limit is empty.
LEMMA EmittedMovesNothing ==
  ASSUME TypeOK, SourceInv, AccountInv, OutInv, matchPc \in {"emit", "emitFailed"}, Emitted
  PROVE  UNCHANGED batch
<1>1. CASE MaxEvents > 0 /\ processed + 1 >= MaxEvents /\ outbound # Sentinel.id
  <2>1. Len(matched) = processed + 1
    <3>1. Pushing = <<outbound>>  BY <1>1 DEF Pushing
    <3>2. QED  BY <3>1 DEF OutInv
  <2>2. batch = {}  BY <1>1, <2>1, LimitMeansAll
  <2>3. QED  BY <1>1, <2>2 DEF Emitted
<1>2. CASE ~(MaxEvents > 0 /\ processed + 1 >= MaxEvents /\ outbound # Sentinel.id)
  BY <1>2 DEF Emitted
<1>3. QED  BY <1>1, <1>2

\* Every step keeps the accounts of the events.
LEMMA AccountStep == DeliveryInv /\ [Next]_vars => AccountInv'
<1> SUFFICES ASSUME DeliveryInv, [Next]_vars PROVE AccountInv'  OBVIOUS
<1> USE DEF EventFrame, MatchFrame, LogFrame, flags, eventVars, matchVars, logVars
<1>1. /\ TypeOK /\ NotStarted /\ ReadyTimesOrdered
      /\ NotStartedYet /\ SourceInv /\ AccountInv /\ OutInv
  BY DEF DeliveryInv, ReadyInv
<1>2. CASE Runtime
  <2>1. runtime = "idle" \/ (runtime # "idle" /\ UNCHANGED shutdown)
    BY <1>2 DEF Runtime, Start, JoinEvent, JoinMatch, JoinLog
  <2>2. runtime = "idle" => produced = 0  BY <1>1 DEF NotStartedYet
  <2>3. UNCHANGED <<eventQueue, latency, batch, matched, dropped, produced>>
    BY <1>2 DEF Runtime, Start, JoinEvent, JoinMatch, JoinLog
  <2>4. QED  BY <1>1, <2>1, <2>2, <2>3, NothingMoves
<1>3. CASE RequestShutdown \/ Logger \/ UNCHANGED vars
  BY <1>1, <1>3, NothingMoves DEF RequestShutdown, Logger, Log, LogStop, vars
<1>4. CASE EventThread
  <2>1. CASE Sample \/ PushSentinelFailed \/ EventFinish
    BY <1>1, <2>1, NothingMoves DEF Sample, PushSentinelFailed, EventFinish
  <2>2. CASE PushEvent /\ UNCHANGED produced
    <3>1. UNCHANGED eventQueue
      <4>1. produced \in Nat  BY <1>1 DEF TypeOK
      <4>2. produced + 1 # produced  BY <4>1
      <4>3. QED  BY <2>2, <4>2 DEF PushEvent, EventCounted
    <3>2. QED  BY <1>1, <2>2, <3>1, NothingMoves DEF PushEvent
  <2>3. CASE PushEvent /\ ~UNCHANGED produced
    BY <1>1, <2>3, CountingKeepsAccounts DEF PushEvent, EventCounted
  <2>4. CASE PushEventFailed
    <3>1. CASE shutdown /\ EventCounted
      BY <1>1, <2>4, <3>1, CountingKeepsAccounts DEF PushEventFailed, EventCounted
    <3>2. CASE UNCHANGED produced
      BY <1>1, <2>4, <3>2, NothingMoves DEF PushEventFailed
    <3>3. QED  BY <2>4, <3>1, <3>2 DEF PushEventFailed
  <2>5. CASE PushSentinel
    <3>1. CASE UNCHANGED eventQueue
      BY <1>1, <2>5, <3>1, NothingMoves DEF PushSentinel
    <3>2. CASE Push(Sentinel)
      <4>1. QueuedIds' = QueuedIds
        BY <1>1, <3>2, QueuedAfterPush, SentinelIsEvent
      <4>2. UNCHANGED <<runtime, shutdown, produced, latency, batch, matched, dropped>>
        BY <2>5 DEF PushSentinel
      <4>3. /\ Ids(latency)' = Ids(latency) /\ Ids(batch)' = Ids(batch)
            /\ MatchedIds' = MatchedIds /\ ToSet(MatchedIds)' = ToSet(MatchedIds)
        BY <4>2, MatcherIds
      <4>4. QED  BY <1>1, <4>1, <4>2, <4>3 DEF AccountInv, AllApart, Everywhere
    <3>3. QED  BY <2>5, <3>1, <3>2 DEF PushSentinel
  <2>6. QED  BY <1>4, <2>1, <2>2, <2>3, <2>4, <2>5 DEF EventThread
<1>5. CASE MatchThread
  <2>1. CASE SeedBook \/ LoopHead \/ FlushDone \/ MatchFinish
    BY <1>1, <2>1, NothingMoves DEF SeedBook, LoopHead, FlushDone, MatchFinish
  <2>2. CASE Pop
    <3>1. batch = {}  BY <1>1, <2>2 DEF Pop, ReadyTimesOrdered
    <3>2. QED  BY <1>1, <2>2, <3>1, PopKeepsAccounts
  <2>3. CASE PopFailed
    <3>1. batch = {} /\ lastEventTime \in Nat
      BY <1>1, <2>3 DEF PopFailed, ReadyTimesOrdered, TypeOK
    <3>2. CASE Flush(latency, lastEventTime, "loop")
      BY <1>1, <2>3, <3>1, <3>2, FlushKeepsAccounts DEF PopFailed
    <3>3. CASE UNCHANGED <<latency, batch>>
      BY <1>1, <2>3, <3>3, NothingMoves DEF PopFailed
    <3>4. QED  BY <2>3, <3>2, <3>3 DEF PopFailed
  <2>4. CASE SkipEntry
    BY <1>1, <2>4, EntryLeaves DEF SkipEntry
  <2>5. CASE MatchEntry
    <3>1. PICK e \in batch : \E done :
            /\ matched' = Append(matched, [id |-> e.id, time |-> e.time,
                                           ready |-> e.ready, filled |-> done])
            /\ batch' = batch \ {e}
      BY <2>5 DEF MatchEntry
    <3>2. PICK new : new.id = e.id /\ matched' = Append(matched, new)  BY <3>1
    <3>3. e.id \in Nat  BY <1>1 DEF TypeOK, Entry
    <3>4. e.id \notin ToSet(MatchedIds)
      <4>1. e.id \in Ids(batch)  BY DEF Ids
      <4>2. QED  BY <1>1, <4>1 DEF AccountInv, AllApart
    <3>5. ToSet(MatchedIds)' = ToSet(MatchedIds) \cup {e.id} /\ IsInjective(MatchedIds)'
      <4>1. IsInjective(MatchedIds)  BY <1>1 DEF AccountInv
      <4>2. QED  BY <1>1, <3>2, <3>3, <3>4, <4>1, MatchedAppended
    <3>6. QED  BY <1>1, <2>5, <3>1, <3>5, EntryLeaves DEF MatchEntry
  <2>6. CASE PushOutput \/ PushOutputFailed
    <3>1. UNCHANGED batch
      BY <1>1, <2>6, EmittedMovesNothing DEF PushOutput, PushOutputFailed
    <3>2. QED  BY <1>1, <2>6, <3>1, NothingMoves DEF PushOutput, PushOutputFailed
  <2>7. CASE TailFlush
    <3>1. batch = {} /\ SessionLength \in Nat
      BY <1>1, <2>7, EngineAssumption DEF TailFlush, ReadyTimesOrdered, EngineAssumption
    <3>2. CASE Flush(latency, SessionLength, "sentinel")
      BY <1>1, <2>7, <3>1, <3>2, FlushKeepsAccounts DEF TailFlush
    <3>3. CASE UNCHANGED <<latency, batch>>
      BY <1>1, <2>7, <3>3, NothingMoves DEF TailFlush
    <3>4. QED  BY <2>7, <3>2, <3>3 DEF TailFlush
  <2>8. QED  BY <1>5, <2>1, <2>2, <2>3, <2>4, <2>5, <2>6, <2>7 DEF MatchThread
<1>6. QED  BY <1>2, <1>3, <1>4, <1>5 DEF Next

-----------------------------------------------------------------------------
(* The source and the start *)

\* Before the threads start, nothing is emitted, queued or matched.
LEMMA NotStartedYetStep == NotStartedYet /\ NotStarted /\ [Next]_vars => NotStartedYet'
<1> SUFFICES ASSUME NotStartedYet, [Next]_vars PROVE NotStartedYet'  OBVIOUS
<1> USE DEF EventFrame, MatchFrame, LogFrame, flags, eventVars, matchVars, logVars
<1>1. CASE Runtime
  BY <1>1 DEF Runtime, Start, JoinEvent, JoinMatch, JoinLog, NotStartedYet
<1>2. CASE RequestShutdown \/ Logger \/ UNCHANGED vars
  BY <1>2 DEF RequestShutdown, Logger, Log, LogStop, NotStartedYet, vars
<1>3. CASE EventThread
  <2>1. runtime' = runtime /\ eventPc # "off"
    BY <1>3 DEF EventThread, Sample, PushEvent, PushEventFailed, PushSentinel,
                PushSentinelFailed, EventFinish
  <2>2. QED  BY <2>1 DEF NotStartedYet
<1>4. CASE MatchThread
  <2>1. runtime' = runtime /\ matchPc # "off"
    BY <1>4 DEF MatchThread, SeedBook, LoopHead, Pop, PopFailed, SkipEntry, MatchEntry,
                PushOutput, PushOutputFailed, FlushDone, TailFlush, MatchFinish
  <2>2. QED  BY <2>1 DEF NotStartedYet
<1>5. QED  BY <1>1, <1>2, <1>3, <1>4 DEF Next

\* Pushing an event keeps the source's account.
LEMMA PushKeepsSource ==
  ASSUME TypeOK, SourceInv, NEW envelope \in Event, Push(envelope),
         \/ envelope = Sentinel /\ produced' = produced
         \/ envelope.id = produced + 1 /\ produced' = produced + 1
  PROVE  /\ \A i \in DOMAIN eventQueue' :
              eventQueue'[i] = Sentinel \/ eventQueue'[i].id \in 1..produced'
         /\ \A i, j \in DOMAIN eventQueue' :
              eventQueue'[i].id = eventQueue'[j].id => i = j \/ eventQueue'[i] = Sentinel
<1> DEFINE n == Len(eventQueue)
<1>1. produced \in Nat  BY DEF TypeOK
<1>2. /\ n \in Nat /\ DOMAIN eventQueue = 1..n
      /\ DOMAIN eventQueue' = 1..(n + 1)
      /\ \A i \in DOMAIN eventQueue : eventQueue'[i] = eventQueue[i]
      /\ eventQueue'[n + 1] = envelope
  BY QueuedAfterPush
<1> HIDE DEF n
<1>3. \A i \in DOMAIN eventQueue' : i \in DOMAIN eventQueue \/ i = n + 1  BY <1>2
<1>4. \A i \in DOMAIN eventQueue : /\ eventQueue[i] = Sentinel \/ eventQueue[i].id \in 1..produced
                                   /\ eventQueue[i] # Sentinel => eventQueue[i].id # 0
  BY <1>1 DEF SourceInv
<1>5. \A i \in DOMAIN eventQueue' : eventQueue'[i] = Sentinel \/ eventQueue'[i].id \in 1..produced'
  BY <1>1, <1>2, <1>3, <1>4
<1>6. Sentinel.id = 0  BY DEF Sentinel
<1>7. ASSUME NEW i \in DOMAIN eventQueue', NEW j \in DOMAIN eventQueue',
             eventQueue'[i].id = eventQueue'[j].id
      PROVE  i = j \/ eventQueue'[i] = Sentinel
  <2>1. CASE i \in DOMAIN eventQueue /\ j \in DOMAIN eventQueue
    BY <1>2, <1>7, <2>1 DEF SourceInv
  <2>2. CASE i \in DOMAIN eventQueue /\ j = n + 1
    BY <1>1, <1>2, <1>4, <1>6, <1>7, <2>2
  <2>3. CASE i = n + 1 /\ j \in DOMAIN eventQueue
    BY <1>1, <1>2, <1>4, <1>6, <1>7, <2>3
  <2>4. QED  BY <1>3, <2>1, <2>2, <2>3
<1>8. QED  BY <1>5, <1>7

\* Every step keeps the source's account.
LEMMA SourceStep == TypeOK /\ SourceInv /\ NotStartedYet /\ [Next]_vars => SourceInv'
<1> SUFFICES ASSUME TypeOK, SourceInv, NotStartedYet, [Next]_vars PROVE SourceInv'  OBVIOUS
<1> USE DEF EventFrame, MatchFrame, LogFrame, flags, eventVars, matchVars, logVars
<1>1. produced \in Nat /\ MaxEvents \in Nat
  BY EngineAssumption DEF TypeOK, EngineAssumption
<1>2. CASE Runtime
  <2>1. eventPc' = eventPc \/ (eventPc = "off" /\ eventPc' = "loop")
    BY <1>2 DEF Runtime, Start, JoinEvent, JoinMatch, JoinLog, NotStartedYet
  <2>2. UNCHANGED <<inHand, produced, eventQueue>>
    BY <1>2 DEF Runtime, Start, JoinEvent, JoinMatch, JoinLog
  <2>3. QED  BY <2>1, <2>2 DEF SourceInv
<1>3. CASE RequestShutdown \/ Logger \/ UNCHANGED vars
  BY <1>3 DEF RequestShutdown, Logger, Log, LogStop, vars, SourceInv
<1>4. CASE Sample \/ PushSentinelFailed \/ EventFinish
  BY <1>4 DEF Sample, PushSentinelFailed, EventFinish, SourceInv
<1>5. ASSUME EventCounted, eventPc \in {"push", "pushFailed"}
      PROVE  /\ produced' = produced + 1 /\ eventPc' \in {"sentinel", "loop"}
             /\ MaxEvents > 0 => produced' <= MaxEvents
             /\ MaxEvents > 0 /\ eventPc' = "loop" => produced' < MaxEvents
  BY <1>1, <1>5 DEF EventCounted, ShouldStop, SourceInv
<1>6. CASE PushEvent \/ PushEventFailed
  <2>1. CASE Push(inHand) /\ EventCounted
    <3>1. inHand \in Event /\ inHand.id = produced + 1 /\ eventPc \in {"push", "pushFailed"}
      BY <1>6 DEF PushEvent, PushEventFailed, TypeOK, SourceInv
    <3>2. QED  BY <1>5, <2>1, <3>1, PushKeepsSource DEF SourceInv
  <2>2. CASE UNCHANGED eventQueue /\ EventCounted
    <3>1. eventPc \in {"push", "pushFailed"}
      BY <1>6 DEF PushEvent, PushEventFailed
    <3>2. 1..produced \subseteq 1..(produced + 1)  BY <1>1
    <3>3. QED  BY <1>5, <2>2, <3>1, <3>2 DEF SourceInv
  <2>3. CASE /\ UNCHANGED <<eventQueue, inHand, produced>>
             /\ eventPc \in {"push", "pushFailed"} /\ eventPc' \in {"push", "pushFailed"}
    BY <2>3 DEF SourceInv
  <2>4. QED  BY <1>6, <2>1, <2>2, <2>3 DEF PushEvent, PushEventFailed
<1>7. CASE PushSentinel
  <2>1. CASE Push(Sentinel)
    <3>1. eventPc' = "finish" \/ eventPc' = "sentinelFailed"  BY <1>7 DEF PushSentinel
    <3>2. UNCHANGED <<inHand, produced>>  BY <1>7 DEF PushSentinel
    <3>3. QED  BY <2>1, <3>1, <3>2, PushKeepsSource, SentinelIsEvent DEF SourceInv
  <2>2. CASE UNCHANGED eventQueue
    BY <1>7, <2>2 DEF PushSentinel, SourceInv
  <2>3. QED  BY <1>7, <2>1, <2>2 DEF PushSentinel
<1>8. CASE MatchThread
  <2>1. UNCHANGED <<eventPc, inHand, produced>>
    BY <1>8 DEF MatchThread, SeedBook, LoopHead, Pop, PopFailed, SkipEntry, MatchEntry,
                PushOutput, PushOutputFailed, FlushDone, TailFlush, MatchFinish
  <2>2. CASE UNCHANGED eventQueue  BY <2>1, <2>2 DEF SourceInv
  <2>3. CASE eventQueue # <<>> /\ eventQueue' = Tail(eventQueue)
    <3>1. /\ Len(eventQueue) \in Nat /\ DOMAIN eventQueue' = 1..(Len(eventQueue) - 1)
          /\ \A i \in DOMAIN eventQueue' : i + 1 \in DOMAIN eventQueue /\ eventQueue'[i] = eventQueue[i + 1]
      BY <2>3, QueuedAfterPop
    <3>2. ASSUME NEW i \in DOMAIN eventQueue', NEW j \in DOMAIN eventQueue',
                 eventQueue'[i].id = eventQueue'[j].id
          PROVE  i = j \/ eventQueue'[i] = Sentinel
      <4>1. i + 1 = j + 1 \/ eventQueue'[i] = Sentinel  BY <3>1, <3>2 DEF SourceInv
      <4>2. QED  BY <3>1, <4>1
    <3>3. \A i \in DOMAIN eventQueue' :
            eventQueue'[i] = Sentinel \/ eventQueue'[i].id \in 1..produced
      BY <3>1 DEF SourceInv
    <3>4. QED  BY <2>1, <3>2, <3>3 DEF SourceInv
  <2>4. UNCHANGED eventQueue \/ (eventQueue # <<>> /\ eventQueue' = Tail(eventQueue))
    BY <1>8 DEF MatchThread, SeedBook, LoopHead, Pop, PopFailed, SkipEntry, MatchEntry,
                PushOutput, PushOutputFailed, FlushDone, TailFlush, MatchFinish
  <2>5. QED  BY <2>2, <2>3, <2>4
<1>9. QED  BY <1>2, <1>3, <1>4, <1>6, <1>7, <1>8 DEF Next, EventThread

-----------------------------------------------------------------------------
(* The logger gets what was matched, in order *)

\* What the output side holds are events.
LEMMA OutTypes ==
  ASSUME TypeOK
  PROVE  /\ matchQueue \in Seq(Nat) /\ logged \in Seq(Nat) /\ outbound \in Nat
         /\ Queued \in Seq(Nat) /\ Pushing \in Seq(Nat)
<1>1. matchQueue \in Seq(Nat) /\ logged \in Seq(Nat) /\ outbound \in Nat  BY DEF TypeOK
<1>2. <<>> \in Seq(Nat) /\ <<outbound>> \in Seq(Nat)  BY <1>1
<1>3. matchQueue # <<>> => Front(matchQueue) \in Seq(Nat)  BY <1>1 DEF Front
<1>4. QED  BY <1>1, <1>2, <1>3 DEF Queued, Pushing

\* Without its last element, a queue is what it was before.
LEMMA FrontOfAppend ==
  ASSUME NEW q \in Seq(Nat), NEW x \in Nat
  PROVE  Front(Append(q, x)) = q
<1>1. /\ Append(q, x) \in Seq(Nat) /\ Len(Append(q, x)) = Len(q) + 1 /\ Len(q) \in Nat
      /\ \A i \in 1..Len(q) : Append(q, x)[i] = q[i]
  OBVIOUS
<1>2. Front(Append(q, x)) = SubSeq(Append(q, x), 1, Len(q))  BY <1>1 DEF Front
<1>3. /\ SubSeq(Append(q, x), 1, Len(q)) \in Seq(Nat)
      /\ Len(SubSeq(Append(q, x), 1, Len(q))) = Len(q)
      /\ \A i \in 1..Len(q) : SubSeq(Append(q, x), 1, Len(q))[i] = q[i]
  BY <1>1
<1>4. QED  BY <1>2, <1>3, SeqEqual

\* A step that sends, counts and logs nothing.
LEMMA NothingSent ==
  ASSUME OutInv, UNCHANGED <<matched, processed, matchQueue, logged>>, Pushing' = Pushing,
         matchPc \in {"finish", "done"} => matchPc' \in {"finish", "done"},
         ~shutdown' => ~shutdown
  PROVE  OutInv'
<1>1. MatchedIds' = MatchedIds /\ Queued' = Queued  BY DEF MatchedIds, Queued
<1>2. /\ ToSet(Pushing)' = ToSet(Pushing) /\ ToSet(logged)' = ToSet(logged)
      /\ ToSet(MatchedIds)' = ToSet(MatchedIds) /\ ToSet(matchQueue)' = ToSet(matchQueue)
  BY <1>1 DEF ToSet
<1>3. Len(matched)' = Len(matched) /\ Len(Pushing)' = Len(Pushing) /\ Sentinel' = Sentinel
  BY DEF Sentinel
<1>4. (~shutdown => (logged \o Queued) \o Pushing = MatchedIds)'  BY <1>1 DEF OutInv
<1>5. QED  BY <1>2, <1>3, <1>4 DEF OutInv

\* The matched entry is the next output.
LEMMA MatchIsSent ==
  ASSUME TypeOK, AccountInv, OutInv, MatchEntry
  PROVE  OutInv'
<1> USE DEF MatchFrame, logVars
<1>1. PICK e \in batch : \E done :
        /\ matched' = Append(matched, [id |-> e.id, time |-> e.time,
                                       ready |-> e.ready, filled |-> done])
        /\ outbound' = e.id
  BY DEF MatchEntry
<1>2. PICK new : new.id = e.id /\ matched' = Append(matched, new)  BY <1>1
<1>3. produced \in Nat /\ e.id \in 1..produced /\ e.id # 0 /\ e.id \in Nat
  <2>1. produced \in Nat  BY DEF TypeOK
  <2>2. e.id \in Ids(batch)  BY DEF Ids
  <2>3. e.id \in 1..produced  BY <2>2 DEF AccountInv, Everywhere
  <2>4. QED  BY <2>1, <2>3
<1>4. Pushing = <<>> /\ Pushing' = <<e.id>>
  BY <1>1, <1>3 DEF MatchEntry, Pushing, Sentinel
<1>5. /\ UNCHANGED <<processed, matchQueue, logged, shutdown>>
      /\ matchPc = "flush" /\ matchPc' = "emit"
  BY DEF MatchEntry
<1>6. /\ MatchedIds \in Seq(Nat) /\ MatchedIds' = Append(MatchedIds, e.id)
      /\ Len(matched') = Len(matched) + 1
      /\ ToSet(MatchedIds') = ToSet(MatchedIds) \cup {e.id}
  BY <1>2, <1>3, MatchedAppended
<1>7. Len(matched') = processed' + Len(Pushing')
  <2>1. Len(<<>>) = 0 /\ Len(<<e.id>>) = 1 /\ processed \in Nat  BY DEF TypeOK
  <2>2. Len(matched) = processed  BY <1>4, <2>1 DEF OutInv
  <2>3. QED  BY <1>4, <1>5, <1>6, <2>1, <2>2
<1>8. ToSet(Pushing') = {e.id} /\ ToSet(Pushing) = {}
  BY <1>4 DEF ToSet
<1>9. Queued' = Queued  BY <1>5 DEF Queued
<1>10. ~shutdown' => (logged' \o Queued') \o Pushing' = MatchedIds'
  <2>1. SUFFICES ASSUME ~shutdown PROVE (logged \o Queued) \o <<e.id>> = Append(MatchedIds, e.id)
    BY <1>4, <1>5, <1>6, <1>9
  <2>2. logged \o Queued \in Seq(Nat)  BY OutTypes
  <2>3. logged \o Queued = MatchedIds
    <3>1. (logged \o Queued) \o <<>> = MatchedIds  BY <1>4, <2>1 DEF OutInv
    <3>2. (logged \o Queued) \o <<>> = logged \o Queued  BY <2>2, ConcatEmptySeq
    <3>3. QED  BY <3>1, <3>2
  <2>4. QED  BY <1>3, <1>6, <2>3
<1>11. /\ ToSet(logged)' = ToSet(logged) /\ ToSet(matchQueue)' = ToSet(matchQueue)
  BY <1>5 DEF ToSet
<1>12. QED  BY <1>5, <1>6, <1>7, <1>8, <1>10, <1>11 DEF OutInv

\* An output that found room is in the queue, where it was being pushed.
LEMMA PushedIsQueued ==
  ASSUME TypeOK, OutInv, matchPc = "emit", matchQueue' = Append(matchQueue, outbound), Emitted,
         UNCHANGED <<shutdown, matched, logged, outbound>>
  PROVE  OutInv'
<1>1. matchQueue \in Seq(Nat) /\ logged \in Seq(Nat) /\ outbound \in Nat /\ processed \in Nat
  BY OutTypes DEF TypeOK
<1>2. /\ matchPc' \in {"flush", "finish"} /\ Pushing' = <<>>
      /\ outbound # Sentinel.id => matchPc' = "flush" /\ processed' = processed + 1
      /\ outbound = Sentinel.id => matchPc' = "finish" /\ processed' = processed
  BY DEF Emitted, Pushing
<1>3. MatchedIds' = MatchedIds  BY DEF MatchedIds
<1>4. Pushing = IF outbound # Sentinel.id THEN <<outbound>> ELSE <<>>  BY DEF Pushing
<1>5. Len(matched') = processed' + Len(Pushing')
  <2>1. Len(<<>>) = 0 /\ Len(<<outbound>>) = 1  OBVIOUS
  <2>2. QED  BY <1>1, <1>2, <1>4, <2>1 DEF OutInv
<1>6. /\ DOMAIN matchQueue = 1..Len(matchQueue) /\ Len(matchQueue) \in Nat
      /\ DOMAIN matchQueue' = 1..(Len(matchQueue) + 1) /\ Len(matchQueue') = Len(matchQueue) + 1
      /\ \A i \in 1..Len(matchQueue) : matchQueue'[i] = matchQueue[i]
      /\ matchQueue'[Len(matchQueue) + 1] = outbound
      /\ matchQueue' # <<>> /\ matchQueue' \in Seq(Nat)
  <2>1. matchQueue' \in Seq(Nat) /\ Len(matchQueue') = Len(matchQueue) + 1  BY <1>1
  <2>2. matchQueue' # <<>>  BY <1>1, <2>1
  <2>3. QED  BY <1>1, <2>1, <2>2
<1>7. ToSet(matchQueue') = ToSet(matchQueue) \cup {outbound}  BY <1>6 DEF ToSet
<1>8. Sentinel.id \notin ToSet(matchQueue)  BY DEF OutInv
<1>9. Queued = matchQueue
  <2>1. matchQueue # <<>> => Last(matchQueue) \in ToSet(matchQueue)
    BY <1>1 DEF Last, ToSet
  <2>2. QED  BY <1>8, <2>1 DEF Queued
<1>10. Last(matchQueue') = outbound  BY <1>6 DEF Last
<1>11. Queued' = IF outbound # Sentinel.id THEN Append(matchQueue, outbound) ELSE matchQueue
  <2>1. CASE outbound # Sentinel.id  BY <1>10, <2>1 DEF Queued
  <2>2. CASE outbound = Sentinel.id
    <3>1. Queued' = Front(matchQueue')  BY <1>6, <1>10, <2>2 DEF Queued
    <3>2. Front(matchQueue') = matchQueue
      BY <1>1, FrontOfAppend
    <3>3. QED  BY <2>2, <3>1, <3>2
  <2>3. QED  BY <2>1, <2>2
<1>12. ~shutdown => (logged \o Queued') \o Pushing' = MatchedIds
  <2> SUFFICES ASSUME ~shutdown PROVE (logged \o Queued') \o <<>> = MatchedIds
    BY <1>2
  <2>1. (logged \o matchQueue) \o Pushing = MatchedIds  BY <1>9 DEF OutInv
  <2>2. CASE outbound # Sentinel.id
    <3>1. Append(matchQueue, outbound) = matchQueue \o <<outbound>> /\ <<outbound>> \in Seq(Nat)
      BY <1>1
    <3>2. (logged \o matchQueue) \o <<outbound>> = logged \o (matchQueue \o <<outbound>>)
      BY <1>1, <3>1, ConcatAssociative
    <3>3. logged \o Queued' \in Seq(Nat)  BY <1>1, <1>6, <1>11, <2>2
    <3>4. (logged \o Queued') \o <<>> = logged \o Queued'  BY <3>3, ConcatEmptySeq
    <3>5. QED  BY <1>4, <1>11, <2>1, <2>2, <3>1, <3>2, <3>4
  <2>3. CASE outbound = Sentinel.id  BY <1>4, <1>11, <2>1, <2>3
  <2>4. QED  BY <2>2, <2>3
<1>13. outbound # Sentinel.id => outbound \in ToSet(MatchedIds)
  <2>1. outbound # Sentinel.id => outbound \in ToSet(Pushing)  BY <1>4 DEF ToSet
  <2>2. QED  BY <2>1 DEF OutInv
<1>14. ToSet(Pushing') = {} /\ ToSet(logged)' = ToSet(logged)
  BY <1>2 DEF ToSet
<1>15. matchPc' \notin {"finish", "done"} => Sentinel.id \notin ToSet(matchQueue')
  BY <1>2, <1>7, <1>8
<1>16. QED  BY <1>3, <1>5, <1>7, <1>12, <1>13, <1>14, <1>15 DEF OutInv

\* Taking the first element off a queue.
LEMMA TakeFirst ==
  ASSUME NEW q \in Seq(Nat), q # <<>>
  PROVE  /\ q = <<Head(q)>> \o Tail(q) /\ Head(q) \in Nat /\ Tail(q) \in Seq(Nat)
         /\ Len(q) = 1 => Tail(q) = <<>> /\ Front(q) = <<>> /\ Last(q) = Head(q)
         /\ Len(q) > 1 => /\ Tail(q) # <<>> /\ Last(Tail(q)) = Last(q)
                          /\ Front(q) = <<Head(q)>> \o Front(Tail(q))
                          /\ Front(Tail(q)) \in Seq(Nat)
<1>1. /\ Len(q) \in Nat /\ Len(q) > 0 /\ Head(q) \in Nat /\ Head(q) = q[1]
      /\ Tail(q) \in Seq(Nat) /\ Len(Tail(q)) = Len(q) - 1
      /\ \A i \in 1..(Len(q) - 1) : Tail(q)[i] = q[i + 1]
  OBVIOUS
<1>2. <<Head(q)>> \in Seq(Nat) /\ Len(<<Head(q)>>) = 1 /\ <<Head(q)>>[1] = q[1]
  BY <1>1
<1>3. q = <<Head(q)>> \o Tail(q)
  <2>1. <<Head(q)>> \o Tail(q) \in Seq(Nat) /\ Len(<<Head(q)>> \o Tail(q)) = Len(q)
    BY <1>1, <1>2, ConcatProperties
  <2>2. \A i \in 1..Len(q) : (<<Head(q)>> \o Tail(q))[i] = q[i]
    <3>1. \A i \in 1..(1 + (Len(q) - 1)) :
            (<<Head(q)>> \o Tail(q))[i] = IF i <= 1 THEN <<Head(q)>>[i] ELSE Tail(q)[i - 1]
      BY <1>1, <1>2, ConcatProperties
    <3>2. ASSUME NEW i \in 1..Len(q) PROVE (<<Head(q)>> \o Tail(q))[i] = q[i]
      <4>1. i \in 1..(1 + (Len(q) - 1))  BY <1>1
      <4>2. CASE i = 1  BY <1>2, <3>1, <4>1, <4>2
      <4>3. CASE i > 1
        <5>1. i - 1 \in 1..(Len(q) - 1) /\ (i - 1) + 1 = i /\ ~(i <= 1)  BY <1>1, <4>3
        <5>2. QED  BY <1>1, <3>1, <4>1, <5>1
      <4>4. QED  BY <1>1, <4>2, <4>3
    <3>3. QED  BY <3>2
  <2>3. QED  BY <2>1, <2>2, SeqEqual
<1>4. ASSUME Len(q) = 1 PROVE Tail(q) = <<>> /\ Front(q) = <<>> /\ Last(q) = Head(q)
  <2>1. Len(Tail(q)) = 0  BY <1>1, <1>4
  <2>2. Tail(q) = <<>>  BY <1>1, <2>1, EmptySeq
  <2>3. Front(q) = SubSeq(q, 1, 0)  BY <1>4 DEF Front
  <2>4. SubSeq(q, 1, 0) = <<>>  BY SubSeqEmpty
  <2>5. QED  BY <1>1, <1>4, <2>2, <2>3, <2>4 DEF Last
<1>5. ASSUME Len(q) > 1
      PROVE  /\ Tail(q) # <<>> /\ Last(Tail(q)) = Last(q)
             /\ Front(q) = <<Head(q)>> \o Front(Tail(q)) /\ Front(Tail(q)) \in Seq(Nat)
  <2>1. Tail(q) # <<>>
    <3>1. Len(Tail(q)) # 0 /\ Len(<<>>) = 0  BY <1>1, <1>5
    <3>2. QED  BY <3>1
  <2>2. Last(Tail(q)) = Last(q)
    <3>1. Len(q) - 1 \in 1..(Len(q) - 1) /\ (Len(q) - 1) + 1 = Len(q)  BY <1>1, <1>5
    <3>2. QED  BY <1>1, <3>1 DEF Last
  <2>3. /\ Front(q) \in Seq(Nat) /\ Len(Front(q)) = Len(q) - 1
        /\ \A i \in 1..(Len(q) - 1) : Front(q)[i] = q[i]
    BY <1>1 DEF Front
  <2>4. /\ Front(Tail(q)) \in Seq(Nat) /\ Len(Front(Tail(q))) = Len(q) - 2
        /\ \A i \in 1..(Len(q) - 2) : Front(Tail(q))[i] = q[i + 1]
    <3>1. Front(Tail(q)) = SubSeq(Tail(q), 1, Len(q) - 2)
      BY <1>1, <1>5 DEF Front
    <3>2. \A i \in 1..(Len(q) - 2) : i \in 1..(Len(q) - 1) /\ Tail(q)[i] \in Nat
      BY <1>1, <1>5
    <3>3. Len(q) - 2 \in Nat /\ Len(q) - 2 - 1 + 1 = Len(q) - 2  BY <1>1, <1>5
    <3>4. PICK n \in Nat : n = Len(q) - 2  BY <3>3
    <3>5. PICK t \in Seq(Nat) : t = Tail(q)  BY <1>1
    <3>6. Len(t) = n + 1 /\ \A i \in 1..n : t[i] \in Nat
      BY <1>1, <3>2, <3>4, <3>5
    <3>7. /\ SubSeq(t, 1, n) \in Seq(Nat) /\ Len(SubSeq(t, 1, n)) = n
          /\ \A i \in 1..n : SubSeq(t, 1, n)[i] = t[i]
      BY <3>6
    <3>8. \A i \in 1..n : t[i] = q[i + 1]  BY <1>1, <3>2, <3>4, <3>5
    <3>9. QED  BY <3>1, <3>4, <3>5, <3>7, <3>8
  <2>5. <<Head(q)>> \o Front(Tail(q)) \in Seq(Nat)
        /\ Len(<<Head(q)>> \o Front(Tail(q))) = Len(q) - 1
    <3>1. 1 + (Len(q) - 2) = Len(q) - 1  BY <1>1
    <3>2. QED  BY <1>2, <2>4, <3>1, ConcatProperties
  <2>6. \A i \in 1..(1 + (Len(q) - 2)) :
          (<<Head(q)>> \o Front(Tail(q)))[i]
             = IF i <= 1 THEN <<Head(q)>>[i] ELSE Front(Tail(q))[i - 1]
    BY <1>2, <2>4, ConcatProperties
  <2>7. ASSUME NEW i \in 1..(Len(q) - 1)
        PROVE  (<<Head(q)>> \o Front(Tail(q)))[i] = Front(q)[i]
    <3>1. i \in 1..(1 + (Len(q) - 2))  BY <1>1
    <3>2. CASE i = 1  BY <1>2, <2>3, <2>6, <3>1, <3>2
    <3>3. CASE i > 1
      <4>1. i - 1 \in 1..(Len(q) - 2) /\ (i - 1) + 1 = i /\ ~(i <= 1)  BY <1>1, <3>3
      <4>2. QED  BY <2>3, <2>4, <2>6, <3>1, <4>1
    <3>4. i = 1 \/ i > 1  BY <1>1
    <3>5. QED  BY <3>2, <3>3, <3>4
  <2>8. QED  BY <2>1, <2>2, <2>3, <2>4, <2>5, <2>7, SeqEqual
<1>6. QED  BY <1>1, <1>3, <1>4, <1>5

\* Without a shutdown nothing follows the sentinel in the queue to the logger:
\* when it comes first, it is alone.
LEMMA SentinelIsAlone ==
  ASSUME TypeOK, AccountInv, OutInv, ~shutdown, matchQueue # <<>>,
         Head(matchQueue) = Sentinel.id
  PROVE  ~(Len(matchQueue) > 1)
<1> SUFFICES ASSUME Len(matchQueue) > 1 PROVE FALSE  OBVIOUS
<1> DEFINE h == Head(matchQueue)
<1>1. /\ matchQueue \in Seq(Nat) /\ logged \in Seq(Nat) /\ Queued \in Seq(Nat)
      /\ Pushing \in Seq(Nat) /\ h \in Nat
  BY OutTypes, TakeFirst
<1>2. \E rest \in Seq(Nat) : Queued = <<h>> \o rest
  <2>1. /\ Front(matchQueue) = <<h>> \o Front(Tail(matchQueue))
        /\ Front(Tail(matchQueue)) \in Seq(Nat)
        /\ matchQueue = <<h>> \o Tail(matchQueue) /\ Tail(matchQueue) \in Seq(Nat)
    BY <1>1, TakeFirst
  <2>2. QED  BY <2>1 DEF Queued
<1>3. 1 \in DOMAIN Queued /\ Queued[1] = h
  <2>1. PICK rest \in Seq(Nat) : Queued = <<h>> \o rest  BY <1>2
  <2>2. <<h>> \in Seq(Nat) /\ Len(<<h>>) = 1 /\ <<h>>[1] = h  BY <1>1
  <2>3. QED  BY <2>1, <2>2
<1>4. \E k \in DOMAIN MatchedIds : MatchedIds[k] = h
  <2>1. MatchedIds = (logged \o Queued) \o Pushing  BY DEF OutInv
  <2>2. /\ logged \o Queued \in Seq(Nat) /\ Len(logged) \in Nat /\ Len(Queued) \in Nat
        /\ Len(logged \o Queued) = Len(logged) + Len(Queued)
        /\ (logged \o Queued)[Len(logged) + 1] = Queued[1]
        /\ 1 <= Len(Queued)
    BY <1>1, <1>3
  <2>3. /\ Len(logged) + 1 \in DOMAIN MatchedIds
        /\ MatchedIds[Len(logged) + 1] = Queued[1]
    BY <1>1, <2>1, <2>2
  <2>4. QED  BY <1>3, <2>3
<1>5. h \in 1..produced /\ produced \in Nat
  BY <1>4 DEF ToSet, AccountInv, Everywhere, TypeOK
<1>6. QED  BY <1>5 DEF Sentinel

\* The output side in order is what was matched.
LEMMA LoggedInOrder ==
  ASSUME TypeOK, AccountInv, OutInv, Log
  PROVE  OutInv'
<1> USE DEF LogFrame, flags, matchVars, eventVars
<1> DEFINE h == Head(matchQueue)
<1>1. /\ matchQueue \in Seq(Nat) /\ logged \in Seq(Nat) /\ Queued \in Seq(Nat)
      /\ Pushing \in Seq(Nat) /\ matchQueue # <<>> /\ matchQueue' = Tail(matchQueue)
      /\ UNCHANGED <<matched, processed, matchPc, outbound, shutdown>>
  BY OutTypes DEF Log
<1>2. /\ matchQueue = <<h>> \o matchQueue' /\ h \in Nat /\ matchQueue' \in Seq(Nat)
      /\ Len(matchQueue) = 1 =>
           matchQueue' = <<>> /\ Front(matchQueue) = <<>> /\ Last(matchQueue) = h
      /\ Len(matchQueue) > 1 =>
           /\ matchQueue' # <<>> /\ Last(matchQueue') = Last(matchQueue)
           /\ Front(matchQueue) = <<h>> \o Front(matchQueue') /\ Front(matchQueue') \in Seq(Nat)
  BY <1>1, TakeFirst
<1>3. Len(matchQueue) = 1 \/ Len(matchQueue) > 1
  <2>1. Len(matchQueue) \in Nat \ {0}  BY <1>1, EmptySeq
  <2>2. QED  BY <2>1
<1>4. MatchedIds' = MatchedIds /\ Pushing' = Pushing  BY <1>1 DEF MatchedIds, Pushing
<1>5. h \in ToSet(matchQueue) /\ ToSet(matchQueue') \subseteq ToSet(matchQueue)
  <2>1. 1 \in DOMAIN matchQueue /\ h = matchQueue[1]
        /\ \A i \in DOMAIN matchQueue' : i + 1 \in DOMAIN matchQueue /\ matchQueue'[i] = matchQueue[i + 1]
    BY <1>1
  <2>2. QED  BY <2>1 DEF ToSet
<1>6. /\ \/ h = Sentinel.id /\ logged' = logged
         \/ h # Sentinel.id /\ logged' = Append(logged, h)
  BY DEF Log
<1>7. ToSet(logged)' \subseteq ToSet(MatchedIds)
  <2>1. h # Sentinel.id => h \in ToSet(MatchedIds)  BY <1>5 DEF OutInv
  <2>2. ToSet(Append(logged, h)) = ToSet(logged) \cup {h}
    <3>1. /\ Len(logged) \in Nat /\ DOMAIN logged = 1..Len(logged)
          /\ DOMAIN Append(logged, h) = 1..(Len(logged) + 1)
          /\ \A i \in 1..Len(logged) : Append(logged, h)[i] = logged[i]
          /\ Append(logged, h)[Len(logged) + 1] = h
      BY <1>1, <1>2
    <3>2. QED  BY <3>1 DEF ToSet
  <2>3. ToSet(logged)' = ToSet(logged') /\ ToSet(logged) \subseteq ToSet(MatchedIds)
    BY DEF OutInv, ToSet
  <2>4. QED  BY <1>6, <2>1, <2>2, <2>3
<1>8. ASSUME ~shutdown, h = Sentinel.id PROVE (logged' \o Queued') \o Pushing = MatchedIds
  <2>1. CASE Len(matchQueue) = 1
    <3>1. Queued' = Queued  BY <1>1, <1>2, <1>8, <2>1 DEF Queued
    <3>2. QED  BY <1>6, <1>8, <3>1 DEF OutInv
  <2>2. CASE Len(matchQueue) > 1
    BY <1>1, <1>8, <2>2, SentinelIsAlone
  <2>3. QED  BY <1>3, <2>1, <2>2
<1>9. ASSUME ~shutdown, h # Sentinel.id PROVE (logged' \o Queued') \o Pushing = MatchedIds
  <2>1. Queued = <<h>> \o Queued' /\ Queued' \in Seq(Nat)
    <3>1. CASE Len(matchQueue) = 1
      BY <1>1, <1>2, <1>9, <3>1 DEF Queued
    <3>2. CASE Len(matchQueue) > 1
      BY <1>1, <1>2, <3>2 DEF Queued
    <3>3. QED  BY <1>3, <3>1, <3>2
  <2>2. <<h>> \in Seq(Nat) /\ Append(logged, h) = logged \o <<h>>  BY <1>1, <1>2
  <2>3. (logged \o <<h>>) \o Queued' = logged \o (<<h>> \o Queued')
    <3>1. logged \in Seq(Nat)  BY <1>1
    <3>2. \A a, b, c \in Seq(Nat) : (a \o b) \o c = a \o (b \o c)  BY ConcatAssociative
    <3>3. QED  BY <2>1, <2>2, <3>1, <3>2
  <2>4. QED  BY <1>6, <1>9, <2>1, <2>2, <2>3 DEF OutInv
<1>10. QED  BY <1>1, <1>4, <1>5, <1>7, <1>8, <1>9 DEF OutInv

\* Every step keeps what is logged, queued and in hand in the order of matches.
LEMMA OutStep == DeliveryInv /\ [Next]_vars => OutInv'
<1> SUFFICES ASSUME DeliveryInv, [Next]_vars PROVE OutInv'  OBVIOUS
<1> USE DEF EventFrame, MatchFrame, LogFrame, flags, eventVars, matchVars, logVars
<1>1. TypeOK /\ NotStartedYet /\ SourceInv /\ AccountInv /\ OutInv
  BY DEF DeliveryInv, ReadyInv
<1>2. CASE Start
  <2>1. /\ matched = <<>> /\ matchQueue = <<>> /\ logged = <<>> /\ matchPc = "off"
        /\ UNCHANGED <<matched, matchQueue, logged, processed>> /\ matchPc' = "seed"
    BY <1>1, <1>2 DEF Start, NotStartedYet
  <2>2. Pushing = <<>> /\ Pushing' = <<>> /\ Queued' = <<>> /\ MatchedIds' = MatchedIds
    BY <2>1 DEF Pushing, Queued, MatchedIds
  <2>3. MatchedIds = <<>>
    <3>1. DOMAIN matched = {}  BY <2>1
    <3>2. MatchedIds = [i \in {} |-> matched[i].id]  BY <3>1 DEF MatchedIds
    <3>3. QED  BY <3>2
  <2>4. (<<>> \o <<>>) \o <<>> = <<>>  OBVIOUS
  <2>5. QED  BY <1>1, <2>1, <2>2, <2>3, <2>4 DEF OutInv, ToSet
<1>3. CASE JoinEvent \/ JoinMatch \/ JoinLog \/ RequestShutdown \/ LogStop
  <2>1. UNCHANGED <<matched, processed, matchQueue, logged, matchPc, outbound>>
        /\ (~shutdown' => ~shutdown)
    BY <1>3 DEF JoinEvent, JoinMatch, JoinLog, RequestShutdown, LogStop
  <2>2. QED  BY <1>1, <2>1, NothingSent DEF Pushing
<1>4. CASE EventThread
  <2>1. UNCHANGED <<matched, processed, matchQueue, logged, matchPc, outbound, shutdown>>
    BY <1>4 DEF EventThread, Sample, PushEvent, PushEventFailed, PushSentinel,
                PushSentinelFailed, EventFinish
  <2>2. QED  BY <1>1, <2>1, NothingSent DEF Pushing
<1>5. CASE Log  BY <1>1, <1>5, LoggedInOrder
<1>6. CASE UNCHANGED vars
  <2>1. UNCHANGED <<matched, processed, matchQueue, logged, matchPc, outbound, shutdown>>
    BY <1>6 DEF vars
  <2>2. QED  BY <1>1, <2>1, NothingSent DEF Pushing
<1>7. CASE MatchEntry  BY <1>1, <1>7, MatchIsSent
<1>8. CASE PushOutput
  <2>1. CASE matchQueue' = Append(matchQueue, outbound) /\ Emitted
    BY <1>1, <1>8, <2>1, PushedIsQueued DEF PushOutput
  <2>2. CASE UNCHANGED <<matchQueue, processed>> /\ matchPc' = "emitFailed"
    BY <1>1, <1>8, <2>2, NothingSent DEF PushOutput, Pushing
  <2>3. QED  BY <1>8, <2>1, <2>2 DEF PushOutput
<1>9. CASE PushOutputFailed
  <2>1. CASE ~shutdown
    BY <1>1, <1>9, <2>1, NothingSent DEF PushOutputFailed, Pushing
  <2>2. CASE shutdown
    <3>1. /\ matchPc = "emitFailed" /\ Emitted /\ shutdown'
          /\ UNCHANGED <<matched, matchQueue, logged, outbound>>
      BY <1>9, <2>2 DEF PushOutputFailed
    <3>2. /\ matchPc' \in {"flush", "finish"} /\ Pushing' = <<>>
          /\ processed' = IF outbound # Sentinel.id THEN processed + 1 ELSE processed
      BY <3>1 DEF Emitted, Pushing
    <3>3. Len(matched') = processed' + Len(Pushing')
      <4>1. Pushing = IF outbound # Sentinel.id THEN <<outbound>> ELSE <<>>
        BY <3>1 DEF Pushing
      <4>2. Len(<<>>) = 0 /\ Len(<<outbound>>) = 1 /\ processed \in Nat
        BY <1>1 DEF TypeOK
      <4>3. QED  BY <1>1, <3>1, <3>2, <4>1, <4>2 DEF OutInv
    <3>4. MatchedIds' = MatchedIds /\ ToSet(Pushing') = {}
      BY <3>1, <3>2 DEF MatchedIds, ToSet
    <3>5. ToSet(logged)' = ToSet(logged) /\ ToSet(matchQueue)' = ToSet(matchQueue)
          /\ ToSet(MatchedIds)' = ToSet(MatchedIds)
      BY <3>1, <3>4 DEF ToSet
    <3>6. matchPc' \notin {"finish", "done"} => Sentinel.id \notin ToSet(matchQueue)
      BY <1>1, <3>1 DEF OutInv
    <3>7. QED  BY <1>1, <3>1, <3>2, <3>3, <3>4, <3>5, <3>6 DEF OutInv
  <2>3. QED  BY <2>1, <2>2
<1>10. ASSUME SeedBook \/ LoopHead \/ Pop \/ PopFailed \/ SkipEntry \/ FlushDone \/ TailFlush
              \/ MatchFinish
       PROVE  OutInv'
  <2>1. UNCHANGED <<matched, processed, matchQueue, logged, shutdown>>
    BY <1>10 DEF SeedBook, LoopHead, Pop, PopFailed, SkipEntry, FlushDone, TailFlush, MatchFinish
  <2>2. matchPc \in {"finish", "done"} => matchPc' \in {"finish", "done"}
    BY <1>10 DEF SeedBook, LoopHead, Pop, PopFailed, SkipEntry, FlushDone, TailFlush, MatchFinish
  <2>3. matchPc \notin {"emit", "emitFailed"}
        /\ (matchPc' \in {"emit", "emitFailed"} => outbound' = Sentinel.id)
    BY <1>10 DEF SeedBook, LoopHead, Pop, PopFailed, Flush, SkipEntry, FlushDone, TailFlush,
                 MatchFinish
  <2>4. Pushing' = Pushing  BY <2>3 DEF Pushing
  <2>5. QED  BY <1>1, <2>1, <2>2, <2>4, NothingSent
<1>11. QED
  BY <1>2, <1>3, <1>4, <1>5, <1>6, <1>7, <1>8, <1>9, <1>10 DEF Next, Runtime, MatchThread, Logger

-----------------------------------------------------------------------------

\* At the start there is nothing to deliver.
LEMMA DeliveryInit == Init => DeliveryInv
<1> SUFFICES ASSUME Init PROVE DeliveryInv  OBVIOUS
<1>1. ReadyInv /\ TypeOK  BY ReadyInit DEF ReadyInv
<1>2. /\ DOMAIN eventQueue = {} /\ DOMAIN matched = {} /\ DOMAIN matchQueue = {}
      /\ DOMAIN logged = {} /\ latency = {} /\ batch = {} /\ dropped = {}
  BY DEF Init
<1>3. NotStartedYet  BY DEF Init, NotStartedYet
<1>4. SourceInv  BY <1>2, EngineAssumption DEF Init, SourceInv, EngineAssumption
<1>5. MatchedIds = <<>> /\ DOMAIN MatchedIds = {}
  <2>1. MatchedIds = [i \in {} |-> matched[i].id]  BY <1>2 DEF MatchedIds
  <2>2. QED  BY <2>1
<1>6. /\ QueuedIds = {} /\ Ids(latency) = {} /\ Ids(batch) = {} /\ ToSet(MatchedIds) = {}
      /\ dropped = {} /\ produced = 0 /\ runtime = "idle"
  BY <1>2, <1>5 DEF QueuedIds, Ids, ToSet, Init
<1>7. AccountInv
  BY <1>2, <1>5, <1>6 DEF AccountInv, AllApart, Everywhere, IsInjective
<1>8. Pushing = <<>> /\ Queued = <<>> /\ logged = <<>>  BY DEF Init, Pushing, Queued
<1>9. OutInv
  <2>1. (<<>> \o <<>>) \o <<>> = <<>> /\ Len(<<>>) = 0  OBVIOUS
  <2>2. Len(matched) = processed + Len(Pushing)  BY <1>8, <2>1 DEF Init
  <2>3. QED  BY <1>2, <1>5, <1>8, <2>1, <2>2 DEF OutInv, ToSet
<1>10. QED  BY <1>1, <1>3, <1>4, <1>7, <1>9 DEF DeliveryInv

-----------------------------------------------------------------------------
(* What a finished run leaves.  The threads are joined in order; without a   *)
(* shutdown the sentinel closes each queue, the matcher leaves its loop for  *)
(* the end of the stream or the limit, and what it still delays then is due  *)
(* after the session.                                                        *)

\* run() joins a thread only when it is done, and then goes on to the next.
JoinedInOrder ==
  /\ runtime \in {"joinMatch", "joinLog", "done"} => eventPc = "done"
  /\ runtime \in {"joinLog", "done"} => matchPc = "done"
  /\ runtime = "done" => logPc = "done"
  /\ matcherFinished => matchPc = "done"

StreamEnds ==
  ~shutdown =>
    /\ eventPc \in {"finish", "done"} => eventQueue = <<>> \/ Last(eventQueue) = Sentinel
    /\ matchPc = "tail" => streamComplete \/ limitReached
    /\ logPc = "done" => matchPc \in {"finish", "done"} /\ matchQueue = <<>>

\* The matcher is pushing the sentinel, or has pushed it.
Closing == matchPc \in {"emit", "emitFailed"} /\ outbound = Sentinel.id
Closed  == matchPc \in {"finish", "done"}

NothingDueIsLeft ==
  /\ Closing \/ Closed => batch = {}
  /\ ~shutdown /\ (afterFlush = "sentinel" \/ Closing \/ Closed) =>
       \A e \in latency : e.ready > SessionLength
  /\ limitReached => MaxEvents > 0 /\ processed >= MaxEvents

EndInv == JoinedInOrder /\ StreamEnds /\ NothingDueIsLeft

\* Every step keeps the order in which the threads are joined.
LEMMA JoinedStep == NotStarted /\ JoinedInOrder /\ [Next]_vars => JoinedInOrder'
<1> SUFFICES ASSUME NotStarted, JoinedInOrder, [Next]_vars PROVE JoinedInOrder'  OBVIOUS
<1> USE DEF EventFrame, MatchFrame, LogFrame, flags, eventVars, matchVars, logVars
<1>1. CASE Runtime
  BY <1>1 DEF Runtime, Start, JoinEvent, JoinMatch, JoinLog, NotStarted, JoinedInOrder
<1>2. CASE RequestShutdown \/ Logger \/ UNCHANGED vars
  BY <1>2 DEF RequestShutdown, Logger, Log, LogStop, vars, JoinedInOrder
<1>3. CASE EventThread
  <2>1. eventPc # "done" /\ UNCHANGED <<runtime, matchPc, logPc, matcherFinished>>
    BY <1>3 DEF EventThread, Sample, PushEvent, PushEventFailed, PushSentinel,
                PushSentinelFailed, EventFinish
  <2>2. QED  BY <2>1 DEF JoinedInOrder
<1>4. CASE MatchThread
  <2>1. matchPc # "done" /\ UNCHANGED <<runtime, eventPc, logPc>>
        /\ (matcherFinished' => matcherFinished \/ matchPc' = "done")
    BY <1>4 DEF MatchThread, SeedBook, LoopHead, Pop, PopFailed, SkipEntry, MatchEntry,
                PushOutput, PushOutputFailed, FlushDone, TailFlush, MatchFinish
  <2>2. QED  BY <2>1 DEF JoinedInOrder
<1>5. QED  BY <1>1, <1>2, <1>3, <1>4 DEF Next

\* The last envelope of a queue: one pushed, or the one there before a pop.
LEMMA LastQueued ==
  ASSUME NEW q \in Seq(Event), NEW x \in Event
  PROVE  /\ Last(Append(q, x)) = x
         /\ q # <<>> => Tail(q) = <<>> \/ Last(Tail(q)) = Last(q)
<1>1. Len(Append(q, x)) = Len(q) + 1 /\ Append(q, x)[Len(q) + 1] = x
  OBVIOUS
<1>2. ASSUME q # <<>>, Tail(q) # <<>> PROVE Last(Tail(q)) = Last(q)
  <2>1. /\ Len(q) \in Nat /\ Len(q) > 0 /\ Tail(q) \in Seq(Event) /\ Len(Tail(q)) = Len(q) - 1
        /\ \A i \in 1..(Len(q) - 1) : Tail(q)[i] = q[i + 1]
    BY <1>2
  <2>2. Len(Tail(q)) # 0  BY <1>2, <2>1, EmptySeq
  <2>3. Len(q) - 1 \in 1..(Len(q) - 1) /\ (Len(q) - 1) + 1 = Len(q)  BY <2>1, <2>2
  <2>4. QED  BY <2>1, <2>3 DEF Last
<1>3. QED  BY <1>1, <1>2 DEF Last

\* Every step keeps how the two streams end.
LEMMA StreamStep ==
  DeliveryInv /\ JoinedInOrder /\ StreamEnds /\ [Next]_vars => StreamEnds'
<1> SUFFICES ASSUME DeliveryInv, JoinedInOrder, StreamEnds, [Next]_vars PROVE StreamEnds'
  OBVIOUS
<1> USE DEF EventFrame, MatchFrame, LogFrame, flags, eventVars, matchVars, logVars
<1>1. TypeOK /\ AccountInv /\ OutInv /\ eventQueue \in Seq(Event)
  BY DEF DeliveryInv, ReadyInv, TypeOK
<1>2. CASE Start  BY <1>2 DEF Start, StreamEnds
<1>3. CASE JoinEvent \/ JoinMatch \/ JoinLog \/ RequestShutdown
  BY <1>3 DEF JoinEvent, JoinMatch, JoinLog, RequestShutdown, StreamEnds
<1>4. CASE UNCHANGED vars  BY <1>4 DEF vars, StreamEnds
<1>5. CASE EventThread
  <2>1. UNCHANGED <<shutdown, matchPc, streamComplete, limitReached, logPc, matchQueue>>
    BY <1>5 DEF EventThread, Sample, PushEvent, PushEventFailed, PushSentinel,
                PushSentinelFailed, EventFinish
  <2>2. CASE PushSentinel
    <3>1. CASE Push(Sentinel)
      BY <1>1, <2>1, <3>1, SentinelIsEvent, LastQueued DEF Push, StreamEnds
    <3>2. CASE eventPc' = "sentinelFailed"  BY <2>1, <3>2 DEF StreamEnds
    <3>3. QED  BY <2>2, <3>1, <3>2 DEF PushSentinel
  <2>3. CASE PushSentinelFailed \/ EventFinish
    BY <2>1, <2>3 DEF PushSentinelFailed, EventFinish, StreamEnds
  <2>4. CASE Sample \/ PushEvent \/ PushEventFailed
    <3>1. eventPc' \notin {"finish", "done"}
      BY <2>4 DEF Sample, PushEvent, PushEventFailed, EventCounted
    <3>2. QED  BY <2>1, <3>1 DEF StreamEnds
  <2>5. QED  BY <1>5, <2>2, <2>3, <2>4 DEF EventThread
<1>6. CASE MatchThread
  <2>1. /\ UNCHANGED <<shutdown, eventPc, logPc>>
        /\ eventQueue' = eventQueue \/ (eventQueue # <<>> /\ eventQueue' = Tail(eventQueue))
    BY <1>6 DEF MatchThread, SeedBook, LoopHead, Pop, PopFailed, SkipEntry, MatchEntry,
                PushOutput, PushOutputFailed, FlushDone, TailFlush, MatchFinish
  <2>2. ~shutdown /\ eventPc \in {"finish", "done"} =>
          eventQueue' = <<>> \/ Last(eventQueue') = Sentinel
    BY <1>1, <2>1, SentinelIsEvent, LastQueued DEF StreamEnds
  <2>3. ~shutdown /\ matchPc' = "tail" => streamComplete' \/ limitReached'
    BY <1>6 DEF MatchThread, SeedBook, LoopHead, Pop, PopFailed, Flush, SkipEntry, MatchEntry,
                PushOutput, PushOutputFailed, Emitted, FlushDone, TailFlush, MatchFinish
  <2>4. matchPc \in {"finish", "done"} => matchPc' = "done" /\ matchQueue' = matchQueue
    BY <1>6 DEF MatchThread, SeedBook, LoopHead, Pop, PopFailed, SkipEntry, MatchEntry,
                PushOutput, PushOutputFailed, FlushDone, TailFlush, MatchFinish
  <2>5. QED  BY <2>1, <2>2, <2>3, <2>4 DEF StreamEnds
<1>7. CASE Log
  <2>1. UNCHANGED <<shutdown, eventPc, eventQueue, matchPc, streamComplete, limitReached>>
        /\ logPc = "loop" /\ matchQueue # <<>> /\ matchQueue' = Tail(matchQueue)
    BY <1>7 DEF Log
  <2>2. ASSUME ~shutdown, logPc' = "done"
        PROVE  matchPc \in {"finish", "done"} /\ matchQueue' = <<>>
    <3>1. Head(matchQueue) = Sentinel.id  BY <1>7, <2>2, <2>1 DEF Log
    <3>2. matchQueue \in Seq(Nat) /\ Head(matchQueue) \in ToSet(matchQueue)
      BY <1>1, <2>1 DEF TypeOK, ToSet
    <3>3. matchPc \in {"finish", "done"}  BY <1>1, <3>1, <3>2 DEF OutInv
    <3>4. ~(Len(matchQueue) > 1)  BY <1>1, <2>1, <2>2, <3>1, SentinelIsAlone
    <3>5. Len(matchQueue) = 1
      <4>1. Len(matchQueue) \in Nat \ {0}  BY <2>1, <3>2, EmptySeq
      <4>2. \A n \in Nat \ {0} : ~(n > 1) => n = 1  OBVIOUS
      <4>3. QED  BY <3>4, <4>1, <4>2
    <3>6. QED  BY <2>1, <3>2, <3>3, <3>5, TakeFirst
  <2>3. QED  BY <2>1, <2>2 DEF StreamEnds
<1>8. CASE LogStop
  BY <1>8 DEF LogStop, StreamEnds, JoinedInOrder
<1>9. QED
  BY <1>2, <1>3, <1>4, <1>5, <1>6, <1>7, <1>8 DEF Next, Runtime, Logger

\* The limit, once reached, has been counted, and then nothing is left.
LEMMA LimitLeavesNothing ==
  ASSUME DeliveryInv, NothingDueIsLeft, limitReached
  PROVE  batch = {} /\ latency = {} /\ QueuedIds = {}
<1>1. TypeOK /\ SourceInv /\ AccountInv /\ OutInv  BY DEF DeliveryInv, ReadyInv
<1>2. MaxEvents > 0 /\ processed >= MaxEvents  BY DEF NothingDueIsLeft
<1>3. Len(matched) = processed + Len(Pushing) /\ processed \in Nat /\ Len(Pushing) \in Nat
      /\ MaxEvents \in Nat
  BY <1>1, OutTypes, EngineAssumption DEF OutInv, TypeOK, EngineAssumption
<1>4. Len(matched) >= MaxEvents  BY <1>2, <1>3
<1>5. QED  BY <1>1, <1>2, <1>4, LimitMeansAll

\* Every step keeps what the matcher leaves.
LEMMA NothingDueStep ==
  DeliveryInv /\ EndInv /\ [Next]_vars => NothingDueIsLeft'
<1> SUFFICES ASSUME DeliveryInv, EndInv, [Next]_vars PROVE NothingDueIsLeft'  OBVIOUS
<1> USE DEF EventFrame, MatchFrame, LogFrame, flags, eventVars, matchVars, logVars
<1>1. /\ TypeOK /\ NotStarted /\ ReadyTimesOrdered /\ AccountInv /\ OutInv
      /\ StreamEnds /\ NothingDueIsLeft
  BY DEF DeliveryInv, ReadyInv, EndInv
<1>2. CASE Start
  <2>1. afterFlush = "loop"
    BY <1>1, <1>2 DEF Start, NotStarted, ReadyTimesOrdered
  <2>2. QED  BY <1>1, <1>2, <2>1 DEF Start, NothingDueIsLeft, Closing, Closed
<1>3. ASSUME ~Start, ~MatchThread PROVE NothingDueIsLeft'
  <2>1. UNCHANGED <<matchPc, outbound, batch, latency, afterFlush, limitReached, processed>>
        /\ (~shutdown' => ~shutdown)
    BY <1>3 DEF Next, Runtime, JoinEvent, JoinMatch, JoinLog, RequestShutdown, EventThread,
                Sample, PushEvent, PushEventFailed, PushSentinel, PushSentinelFailed,
                EventFinish, Logger, Log, LogStop, vars
  <2>2. QED  BY <1>1, <2>1 DEF NothingDueIsLeft, Closing, Closed
<1>4. CASE MatchThread
  <2>1. CASE SeedBook \/ LoopHead
    BY <1>1, <2>1 DEF SeedBook, LoopHead, ReadyTimesOrdered, NothingDueIsLeft, Closing, Closed
  <2>2. CASE Pop \/ PopFailed
    <3>1. afterFlush' = "loop" /\ matchPc' \in {"tail", "flush", "empty", "loop"}
          /\ UNCHANGED <<limitReached, processed>>
      BY <1>1, <2>2 DEF Pop, PopFailed, Flush, ReadyTimesOrdered
    <3>2. QED  BY <1>1, <3>1 DEF NothingDueIsLeft, Closing, Closed
  <2>3. CASE SkipEntry
    BY <1>1, <2>3 DEF SkipEntry, NothingDueIsLeft, Closing, Closed
  <2>4. CASE MatchEntry
    <3>1. PICK e \in batch : outbound' = e.id  BY <2>4 DEF MatchEntry
    <3>2. e.id \in 1..produced /\ produced \in Nat
      BY <1>1 DEF AccountInv, Everywhere, Ids, TypeOK
    <3>3. matchPc' = "emit" /\ ~Closing'
      BY <2>4, <3>1, <3>2 DEF MatchEntry, Closing, Sentinel
    <3>4. UNCHANGED <<shutdown, latency, afterFlush, limitReached, processed>>
      BY <2>4 DEF MatchEntry
    <3>5. QED  BY <1>1, <3>3, <3>4 DEF NothingDueIsLeft, Closed
  <2>5. CASE PushOutput \/ PushOutputFailed
    <3>1. UNCHANGED <<shutdown, latency, afterFlush, outbound>>
          /\ matchPc \in {"emit", "emitFailed"}
      BY <2>5 DEF PushOutput, PushOutputFailed
    <3>2. \/ /\ Closing /\ matchPc' = "finish" /\ UNCHANGED <<batch, limitReached, processed>>
          \/ /\ ~Closing /\ matchPc' = "flush" /\ processed' = processed + 1
             /\ limitReached' = limitReached
                \/ (limitReached' = TRUE /\ MaxEvents > 0 /\ processed' >= MaxEvents)
          \/ /\ matchPc' \in {"emit", "emitFailed"}
             /\ UNCHANGED <<batch, limitReached, processed>>
      BY <2>5 DEF PushOutput, PushOutputFailed, Emitted, Closing
    <3>3. processed \in Nat /\ MaxEvents \in Nat
      BY <1>1, EngineAssumption DEF TypeOK, EngineAssumption
    <3>4. limitReached' => MaxEvents > 0 /\ processed' >= MaxEvents
      <4>1. \A m, n \in Nat : n >= m => n + 1 >= m  OBVIOUS
      <4>2. limitReached => MaxEvents > 0 /\ processed >= MaxEvents
        BY <1>1 DEF NothingDueIsLeft
      <4>3. limitReached => MaxEvents > 0 /\ processed + 1 >= MaxEvents
        BY <3>3, <4>1, <4>2
      <4>4. QED  BY <3>2, <4>2, <4>3
    <3>5. QED  BY <1>1, <3>1, <3>2, <3>4 DEF NothingDueIsLeft, Closing, Closed
  <2>6. CASE FlushDone
    BY <1>1, <2>6 DEF FlushDone, NothingDueIsLeft, Closing, Closed
  <2>7. CASE TailFlush
    <3>1. batch = {} /\ matchPc = "tail" /\ UNCHANGED <<shutdown, limitReached, processed>>
      BY <1>1, <2>7 DEF TailFlush, ReadyTimesOrdered
    <3>2. CASE Flush(latency, SessionLength, "sentinel")
      BY <1>1, <3>1, <3>2 DEF Flush, NothingDueIsLeft, Closing, Closed
    <3>3. CASE /\ ~(streamComplete \/ eventFinished)
               /\ matchPc' = "emit" /\ UNCHANGED <<batch, latency, afterFlush>>
      <4>1. ~shutdown => latency = {}
        BY <1>1, <3>1, <3>3, LimitLeavesNothing DEF StreamEnds
      <4>2. QED  BY <1>1, <3>1, <3>3, <4>1 DEF NothingDueIsLeft, Closing, Closed
    <3>4. QED  BY <2>7, <3>2, <3>3 DEF TailFlush
  <2>8. CASE MatchFinish
    BY <1>1, <2>8 DEF MatchFinish, NothingDueIsLeft, Closing, Closed
  <2>9. QED
    BY <1>4, <2>1, <2>2, <2>3, <2>4, <2>5, <2>6, <2>7, <2>8 DEF MatchThread
<1>5. QED  BY <1>2, <1>3, <1>4

\* At the start nothing has ended.
LEMMA EndInit == Init => EndInv
BY DEF Init, EndInv, JoinedInOrder, StreamEnds, NothingDueIsLeft, Closing, Closed

\* A finished run has logged all but what was due late and what it left queued.
LEMMA FinishedHolds ==
  ASSUME DeliveryInv, EndInv
  PROVE  FinishedRun
<1> SUFFICES ASSUME runtime = "done", ~shutdown
             PROVE  /\ ToSet(logged) = (1..produced) \ (dropped \cup Ids(latency) \cup QueuedIds)
                    /\ \A e \in latency : e.ready > SessionLength
                    /\ QueuedIds # {} => Last(eventQueue) = Sentinel /\ ~limitReached
  BY DEF FinishedRun
<1>1. TypeOK /\ AccountInv /\ OutInv /\ JoinedInOrder /\ StreamEnds /\ NothingDueIsLeft
  BY DEF DeliveryInv, ReadyInv, EndInv
<1>2. eventPc = "done" /\ matchPc = "done" /\ matchQueue = <<>> /\ batch = {}
  BY <1>1 DEF JoinedInOrder, StreamEnds, NothingDueIsLeft, Closed
<1>3. logged = MatchedIds
  <2>1. Queued = <<>> /\ Pushing = <<>>  BY <1>2 DEF Queued, Pushing
  <2>2. logged \in Seq(Nat) /\ logged \o <<>> = logged
    BY <1>1, ConcatEmptySeq DEF TypeOK
  <2>3. QED  BY <1>1, <2>1, <2>2 DEF OutInv
<1>4. ToSet(logged) = (1..produced) \ (dropped \cup Ids(latency) \cup QueuedIds)
  <2>1. Everywhere = 1..produced /\ Ids(batch) = {}
    BY <1>1, <1>2 DEF AccountInv, Ids
  <2>2. QED  BY <1>1, <1>3, <2>1 DEF AccountInv, AllApart, Everywhere
<1>5. \A e \in latency : e.ready > SessionLength
  BY <1>1, <1>2 DEF NothingDueIsLeft, Closed
<1>6. ASSUME QueuedIds # {} PROVE Last(eventQueue) = Sentinel /\ ~limitReached
  <2>1. eventQueue # <<>>  BY <1>6 DEF QueuedIds, Ids, ToSet
  <2>2. Last(eventQueue) = Sentinel  BY <1>1, <1>2, <2>1 DEF StreamEnds
  <2>3. ~limitReached  BY <1>1, <1>6, LimitLeavesNothing
  <2>4. QED  BY <2>2, <2>3
<1>7. QED  BY <1>4, <1>5, <1>6

-----------------------------------------------------------------------------

\* The five places of the accounts, as a sequence.
LEMMA PlacesAreApart ==
  ASSUME NEW Q, NEW L, NEW B, NEW M, NEW D, AllApart(Q, L, B, M, D)
  PROVE  LET places == <<Q, L, B, M, D>> IN
         /\ \A i, j \in DOMAIN places : i # j => places[i] \cap places[j] = {}
         /\ UNION Range(places) = ((Q \cup L) \cup B) \cup (M \cup D)
<1> DEFINE places == <<Q, L, B, M, D>>
<1>1. DOMAIN places = 1..5 /\ places[1] = Q /\ places[2] = L /\ places[3] = B
      /\ places[4] = M /\ places[5] = D
  OBVIOUS
<1> HIDE DEF places
<1>2. DOMAIN places = {1, 2, 3, 4, 5}  BY <1>1
<1>3. \A i, j \in DOMAIN places : i # j => places[i] \cap places[j] = {}
  BY <1>1, <1>2 DEF AllApart
<1>4. Range(places) = {Q, L, B, M, D}  BY <1>1, <1>2 DEF Range
<1>5. UNION Range(places) = ((Q \cup L) \cup B) \cup (M \cup D)  BY <1>4
<1>6. QED  BY <1>3, <1>5 DEF places

\* Whatever the capacities, the limit, the session and the delays, and
\* whatever the threads' schedule: every event counted is in one place,
\* matched once at most and logged in the order of the matches, the limit on
\* events holds, and a run that returns without a shutdown has logged every
\* event but those due after the session and those it left in the event queue
\* because the matcher never took the sentinel (event_engine.cpp,
\* matching_engine.cpp).
THEOREM Delivered == Spec => []EventsDelivered
<1>1. DeliveryInv /\ [Next]_vars => DeliveryInv'
  <2>1. DeliveryInv /\ [Next]_vars => ReadyInv'
    BY TypeStep, NotStartedStep, TimesStep, ReadyStep DEF DeliveryInv, ReadyInv
  <2>2. DeliveryInv /\ [Next]_vars => NotStartedYet' /\ SourceInv'
    BY NotStartedYetStep, SourceStep DEF DeliveryInv, ReadyInv
  <2>3. QED  BY <2>1, <2>2, AccountStep, OutStep DEF DeliveryInv
<1>2. DeliveryInv /\ EndInv /\ [Next]_vars => EndInv'
  BY JoinedStep, StreamStep, NothingDueStep DEF DeliveryInv, ReadyInv, EndInv
<1>3. DeliveryInv /\ EndInv => EventsDelivered
  <2> SUFFICES ASSUME DeliveryInv, EndInv PROVE EventsDelivered  OBVIOUS
  <2>1. TypeOK /\ SourceInv /\ AccountInv /\ OutInv  BY DEF DeliveryInv, ReadyInv
  <2>2. EventsAccounted
    <3> DEFINE places == <<QueuedIds, Ids(latency), Ids(batch), ToSet(MatchedIds), dropped>>
    <3>1. /\ \A i, j \in DOMAIN places : i # j => places[i] \cap places[j] = {}
          /\ UNION Range(places) = Everywhere
      BY <2>1, PlacesAreApart DEF AccountInv, Everywhere
    <3>2. IsInjective(MatchedIds)
          /\ (~shutdown /\ runtime # "idle" => Everywhere = 1..produced)
      BY <2>1 DEF AccountInv
    <3> HIDE DEF places
    <3>3. /\ \A i, j \in DOMAIN places : i # j => places[i] \cap places[j] = {}
          /\ IsInjective(MatchedIds)
          /\ ~shutdown /\ runtime # "idle" => UNION Range(places) = 1..produced
      BY <3>1, <3>2
    <3>4. QED  BY <3>3 DEF EventsAccounted, places
  <2>3. LoggedInMatchOrder  BY <2>1 DEF OutInv, LoggedInMatchOrder
  <2>4. LimitRespected
    <3> SUFFICES ASSUME MaxEvents > 0 PROVE processed <= MaxEvents  BY DEF LimitRespected
    <3>1. Len(matched) <= MaxEvents  BY <2>1, LimitMeansAll
    <3>2. Len(matched) = processed + Len(Pushing) /\ processed \in Nat
      BY <2>1 DEF OutInv, TypeOK
    <3>3. Len(Pushing) \in Nat  BY <2>1, OutTypes
    <3>4. MaxEvents \in Nat  BY EngineAssumption DEF EngineAssumption
    <3>5. QED  BY <3>1, <3>2, <3>3, <3>4
  <2>5. FinishedRun  BY FinishedHolds
  <2>6. QED  BY <2>2, <2>3, <2>4, <2>5 DEF EventsDelivered
<1>4. QED  BY DeliveryInit, EndInit, <1>1, <1>2, <1>3, PTL DEF Spec

=============================================================================
