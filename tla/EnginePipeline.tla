--------------------------- MODULE EnginePipeline ---------------------------
(***************************************************************************)
(* The threaded C++ simulator: EngineRuntime::run starts an event thread   *)
(* (EventEngine), a matching thread (MatchingEngine) and a logger thread,  *)
(* joined by two bounded single-producer single-consumer queues and three  *)
(* atomic flags.  Time is the simulated clock carried by the events, not   *)
(* the wall clock.  The logger's source is not in the repository; it is    *)
(* modelled from how EngineRuntime constructs and joins it.                *)
(***************************************************************************)
EXTENDS Integers, FiniteSets, Sequences, SequencesExt

CONSTANTS
  Capacity,       (* queue_capacity of both queues                         *)
  MaxEvents,      (* config.max_events; 0 means unlimited                  *)
  SessionLength,  (* config.session_length                                 *)
  Gaps,           (* waits the Hawkes process may draw between two events  *)
  Delays,         (* delays the latency model may draw                     *)
  OrderSize,      (* config.aggressive_order_size, at least 1              *)
  SeedSize        (* liquidity seed_order_book adds to each side           *)

ASSUME EngineAssumption ==
  /\ Capacity \in Nat \ {0}
  /\ MaxEvents \in Nat
  /\ SessionLength \in Nat
  /\ Gaps \subseteq Nat
  /\ Delays \subseteq Nat
  /\ OrderSize \in Nat \ {0}
  /\ SeedSize \in Nat \ {0}

VARIABLES
  runtime,         (* where EngineRuntime::run stands                      *)
  shutdown,        (* shutdown_                                            *)
  eventFinished,   (* event_finished                                       *)
  matcherFinished, (* matcher_finished                                     *)
  eventPc,         (* where EventEngine::run stands                        *)
  clock,           (* the Hawkes process's time                            *)
  inHand,          (* the event sampled last                               *)
  produced,        (* produced_                                            *)
  eventQueue,      (* EventQueue                                           *)
  matchPc,         (* where MatchingEngine::run stands                     *)
  lastEventTime,   (* last_event_time                                      *)
  latency,         (* latency_queue_, a priority queue on `ready`          *)
  batch,           (* what is left of ready_buffer_                        *)
  afterFlush,      (* where flush_ready returns to                         *)
  limitReached,    (* limit_reached                                        *)
  streamComplete,  (* stream_complete                                      *)
  processed,       (* processed_                                           *)
  liquidity,       (* what rests on each side of the matcher's book        *)
  outbound,        (* the envelope push_output is offering                 *)
  matched,         (* history: the entries matched, in order               *)
  dropped,         (* history: ids of the entries due after the session    *)
  matchQueue,      (* MatchQueue                                           *)
  logPc,           (* where the logger stands                              *)
  logged           (* history: the ids the logger received, in order       *)

eventVars == <<eventPc, clock, inHand, produced>>
matchVars == <<matchPc, lastEventTime, latency, batch, afterFlush, limitReached,
               streamComplete, processed, liquidity, outbound, matched, dropped>>
logVars   == <<logPc, logged>>
flags     == <<shutdown, eventFinished, matcherFinished>>
vars == <<runtime, flags, eventVars, eventQueue, matchVars, matchQueue, logVars>>

Side == {"Buy", "Sell"}
Opposite(s) == IF s = "Buy" THEN "Sell" ELSE "Buy"

\* Events are numbered from 1 as they are sampled; 0 is the sentinel envelope.
Sentinel == [id |-> 0, time |-> 0, side |-> "Buy"]
Event == [id : Nat, time : Nat, side : Side]
Entry == [id : Nat, time : Nat, side : Side, ready : Nat]

Init ==
  /\ runtime = "idle"
  /\ shutdown = FALSE /\ eventFinished = FALSE /\ matcherFinished = FALSE
  /\ eventPc = "off" /\ clock = 0 /\ inHand = Sentinel /\ produced = 0
  /\ eventQueue = <<>>
  /\ matchPc = "off" /\ lastEventTime = 0 /\ latency = {} /\ batch = {}
  /\ afterFlush = "loop" /\ limitReached = FALSE /\ streamComplete = FALSE
  /\ processed = 0 /\ liquidity = [s \in Side |-> 0] /\ outbound = 0
  /\ matched = <<>> /\ dropped = {}
  /\ matchQueue = <<>>
  /\ logPc = "off" /\ logged = <<>>

-----------------------------------------------------------------------------
(* EngineRuntime *)

\* run() clears a shutdown requested before it, then starts the threads.
Start ==
  /\ runtime = "idle"
  /\ runtime' = "joinEvent"
  /\ shutdown' = FALSE
  /\ eventPc' = "loop" /\ matchPc' = "seed" /\ logPc' = "loop"
  /\ UNCHANGED <<eventFinished, matcherFinished, clock, inHand, produced, eventQueue,
                 lastEventTime, latency, batch, afterFlush, limitReached,
                 streamComplete, processed, liquidity, outbound, matched,
                 dropped, matchQueue, logged>>

JoinEvent ==
  /\ runtime = "joinEvent" /\ eventPc = "done"
  /\ runtime' = "joinMatch"
  /\ eventFinished' = TRUE
  /\ UNCHANGED <<shutdown, matcherFinished, eventVars, eventQueue, matchVars,
                 matchQueue, logVars>>

JoinMatch ==
  /\ runtime = "joinMatch" /\ matchPc = "done"
  /\ runtime' = "joinLog"
  /\ matcherFinished' = TRUE
  /\ UNCHANGED <<shutdown, eventFinished, eventVars, eventQueue, matchVars,
                 matchQueue, logVars>>

JoinLog ==
  /\ runtime = "joinLog" /\ logPc = "done"
  /\ runtime' = "done"
  /\ UNCHANGED <<flags, eventVars, eventQueue, matchVars, matchQueue, logVars>>

\* Any thread may call request_shutdown, at any time.
RequestShutdown ==
  /\ ~shutdown /\ runtime # "done"
  /\ shutdown' = TRUE
  /\ UNCHANGED <<runtime, eventFinished, matcherFinished, eventVars, eventQueue,
                 matchVars, matchQueue, logVars>>

-----------------------------------------------------------------------------
(* EventEngine::run *)

\* The queue, the matcher and the logger are not the event thread's.
EventFrame == UNCHANGED <<runtime, shutdown, matcherFinished, matchVars, matchQueue, logVars>>

ShouldStop(time, count) ==
  \/ MaxEvents > 0 /\ count >= MaxEvents
  \/ time >= SessionLength

\* The loop head: leave on shutdown, else sample the next event.
Sample ==
  /\ eventPc = "loop"
  /\ \/ /\ shutdown
        /\ eventPc' = "sentinel"
        /\ UNCHANGED <<clock, inHand>>
     \/ /\ ~shutdown
        /\ \E gap \in Gaps, s \in Side :
             inHand' = [id |-> produced + 1, time |-> clock + gap, side |-> s]
        /\ clock' = inHand'.time
        /\ eventPc' = "push"
  /\ EventFrame /\ UNCHANGED <<eventFinished, produced, eventQueue>>

\* The event is counted whether it was pushed or given up on shutdown.
EventCounted ==
  /\ produced' = produced + 1
  /\ eventPc' = IF ShouldStop(inHand.time, produced') THEN "sentinel" ELSE "loop"
  /\ UNCHANGED <<clock, inHand>>

\* A successful push, from either push loop.
Push(envelope) ==
  /\ Len(eventQueue) < Capacity
  /\ eventQueue' = Append(eventQueue, envelope)

PushEvent ==
  /\ eventPc = "push"
  /\ \/ Push(inHand) /\ EventCounted
     \/ /\ Len(eventQueue) = Capacity
        /\ eventPc' = "pushFailed"
        /\ UNCHANGED <<eventQueue, clock, inHand, produced>>
  /\ EventFrame /\ UNCHANGED eventFinished

PushEventFailed ==
  /\ eventPc = "pushFailed"
  /\ \/ shutdown /\ EventCounted
     \/ ~shutdown /\ eventPc' = "push" /\ UNCHANGED <<clock, inHand, produced>>
  /\ EventFrame /\ UNCHANGED <<eventFinished, eventQueue>>

PushSentinel ==
  /\ eventPc = "sentinel"
  /\ \/ Push(Sentinel) /\ eventPc' = "finish"
     \/ /\ Len(eventQueue) = Capacity
        /\ eventPc' = "sentinelFailed"
        /\ UNCHANGED eventQueue
  /\ EventFrame /\ UNCHANGED <<eventFinished, clock, inHand, produced>>

\* Mutant: the sentinel is retried even when the matcher may have left.
PushSentinelForever ==
  /\ eventPc = "sentinelFailed"
  /\ eventPc' = "sentinel"
  /\ EventFrame /\ UNCHANGED <<eventFinished, eventQueue, clock, inHand, produced>>

PushSentinelFailed ==
  /\ eventPc = "sentinelFailed"
  /\ eventPc' = IF shutdown THEN "finish" ELSE "sentinel"
  /\ EventFrame /\ UNCHANGED <<eventFinished, eventQueue, clock, inHand, produced>>

EventFinish ==
  /\ eventPc = "finish"
  /\ eventFinished' = TRUE
  /\ eventPc' = "done"
  /\ EventFrame /\ UNCHANGED <<eventQueue, clock, inHand, produced>>

EventThread ==
  \/ Sample \/ PushEvent \/ PushEventFailed
  \/ PushSentinel \/ PushSentinelFailed \/ EventFinish

-----------------------------------------------------------------------------
(* MatchingEngine::run and flush_ready *)

MatchFrame == UNCHANGED <<runtime, shutdown, eventFinished, matcherFinished,
                          eventVars, logVars>>

Seed(rest) == [s \in Side |-> rest[s] + SeedSize]

SeedBook ==
  /\ matchPc = "seed"
  /\ liquidity' = Seed(liquidity)
  /\ matchPc' = "loop"
  /\ MatchFrame
  /\ UNCHANGED <<eventQueue, matchQueue, lastEventTime, latency, batch, afterFlush,
                 limitReached, streamComplete, processed, outbound, matched, dropped>>

LoopHead ==
  /\ matchPc = "loop"
  /\ matchPc' = IF shutdown \/ limitReached THEN "tail" ELSE "pop"
  /\ MatchFrame
  /\ UNCHANGED <<eventQueue, matchQueue, lastEventTime, latency, batch, afterFlush,
                 limitReached, streamComplete, processed, liquidity, outbound, matched, dropped>>

\* Mutant: everything delayed is drained, due or not.
FlushAll(pending, limit, return) ==
  /\ batch' = pending
  /\ latency' = {}
  /\ afterFlush' = return
  /\ matchPc' = "flush"

\* flush_ready(limit) begins by draining the latency queue up to `limit`.
Flush(pending, limit, return) ==
  /\ batch' = {e \in pending : e.ready <= limit}
  /\ latency' = {e \in pending : e.ready > limit}
  /\ afterFlush' = return
  /\ matchPc' = "flush"

\* An event is delayed and flush_ready(last_event_time) runs; the sentinel
\* ends the loop; an empty queue leads to the check of event_stream_finished.
Pop ==
  /\ matchPc = "pop"
  /\ \/ /\ eventQueue # <<>>
        /\ eventQueue' = Tail(eventQueue)
        /\ \/ /\ Head(eventQueue) = Sentinel
              /\ streamComplete' = TRUE
              /\ matchPc' = "tail"
              /\ UNCHANGED <<lastEventTime, latency, batch, afterFlush>>
           \/ /\ Head(eventQueue) # Sentinel
              /\ lastEventTime' = Head(eventQueue).time
              /\ \E delay \in Delays :
                   LET event == Head(eventQueue)
                       entry == [id |-> event.id, time |-> event.time,
                                 side |-> event.side, ready |-> event.time + delay]
                   IN Flush(latency \cup {entry}, event.time, "loop")
              /\ UNCHANGED streamComplete
     \/ /\ eventQueue = <<>>
        /\ matchPc' = "empty"
        /\ UNCHANGED <<eventQueue, streamComplete, lastEventTime, latency, batch, afterFlush>>
  /\ MatchFrame
  /\ UNCHANGED <<matchQueue, limitReached, processed, liquidity, outbound, matched, dropped>>

\* The pop failed: only now is event_stream_finished read.
PopFailed ==
  /\ matchPc = "empty"
  /\ \/ /\ eventFinished
        /\ streamComplete' = TRUE
        /\ matchPc' = "tail"
        /\ UNCHANGED <<latency, batch, afterFlush>>
     \/ /\ ~eventFinished /\ latency # {}
        /\ Flush(latency, lastEventTime, "loop")
        /\ UNCHANGED streamComplete
     \/ /\ ~eventFinished /\ latency = {}
        /\ matchPc' = "loop"
        /\ UNCHANGED <<latency, batch, afterFlush, streamComplete>>
  /\ MatchFrame
  /\ UNCHANGED <<eventQueue, matchQueue, lastEventTime, limitReached, processed,
                 liquidity, outbound, matched, dropped>>

\* The heap yields an entry of least ready time; ties come in any order.
FirstReady(e) == e \in batch /\ \A f \in batch : e.ready <= f.ready

\* Entries due after the session are dropped.
SkipEntry ==
  /\ matchPc = "flush"
  /\ \E e \in batch : /\ FirstReady(e) /\ e.ready > SessionLength
                      /\ batch' = batch \ {e}
                      /\ dropped' = dropped \cup {e.id}
  /\ MatchFrame
  /\ UNCHANGED <<matchPc, eventQueue, matchQueue, lastEventTime, latency, afterFlush,
                 limitReached, streamComplete, processed, liquidity, outbound, matched>>

\* Mutant: the book is seeded once only.
NeverReplenished(rest, side) == rest

\* An empty side is seeded again before the order's second attempt.
Replenished(rest, side) == IF rest[side] = 0 THEN Seed(rest) ELSE rest

\* What the order executes against the liquidity resting on a side.
Executed(rest, side) == Min({OrderSize, rest[side]})

\* The entry is sent as a market order against the other side.
MatchEntry ==
  /\ matchPc = "flush"
  /\ \E e \in batch :
       /\ FirstReady(e) /\ e.ready <= SessionLength
       /\ LET opp  == Opposite(e.side)
              rest == Replenished(liquidity, opp)
              done == Executed(rest, opp)
          IN /\ liquidity' = [rest EXCEPT ![opp] = @ - done]
             /\ matched' = Append(matched, [id |-> e.id, time |-> e.time,
                                            ready |-> e.ready, filled |-> done])
       /\ batch' = batch \ {e}
       /\ outbound' = e.id
  /\ matchPc' = "emit"
  /\ MatchFrame
  /\ UNCHANGED <<eventQueue, matchQueue, lastEventTime, latency, afterFlush,
                 limitReached, streamComplete, processed, dropped>>

\* push_output has returned: count the event, and stop the batch at the limit.
\* What the batch still holds is discarded then.  The sentinel is not counted.
Emitted ==
  \/ /\ outbound = Sentinel.id
     /\ matchPc' = "finish"
     /\ UNCHANGED <<processed, limitReached, batch>>
  \/ /\ outbound # Sentinel.id
     /\ processed' = processed + 1
     /\ \/ /\ MaxEvents > 0 /\ processed' >= MaxEvents
           /\ limitReached' = TRUE /\ batch' = {}
        \/ /\ ~(MaxEvents > 0 /\ processed' >= MaxEvents)
           /\ UNCHANGED <<limitReached, batch>>
     /\ matchPc' = "flush"

PushOutput ==
  /\ matchPc = "emit"
  /\ \/ /\ Len(matchQueue) < Capacity
        /\ matchQueue' = Append(matchQueue, outbound)
        /\ Emitted
     \/ /\ Len(matchQueue) = Capacity
        /\ matchPc' = "emitFailed"
        /\ UNCHANGED <<matchQueue, processed, limitReached, batch>>
  /\ MatchFrame
  /\ UNCHANGED <<eventQueue, lastEventTime, latency, afterFlush, streamComplete,
                 liquidity, outbound, matched, dropped>>

\* Mutant: an output that finds the queue full is dropped, not retried.
PushOutputGivesUp ==
  /\ matchPc = "emitFailed"
  /\ Emitted
  /\ MatchFrame
  /\ UNCHANGED <<eventQueue, matchQueue, lastEventTime, latency, afterFlush,
                 streamComplete, liquidity, outbound, matched, dropped>>

PushOutputFailed ==
  /\ matchPc = "emitFailed"
  /\ \/ shutdown /\ Emitted
     \/ ~shutdown /\ matchPc' = "emit" /\ UNCHANGED <<processed, limitReached, batch>>
  /\ MatchFrame
  /\ UNCHANGED <<eventQueue, matchQueue, lastEventTime, latency, afterFlush,
                 streamComplete, liquidity, outbound, matched, dropped>>

\* flush_ready returns: to the loop, or from the last flush to the sentinel.
FlushDone ==
  /\ matchPc = "flush" /\ batch = {}
  /\ \/ afterFlush = "loop" /\ matchPc' = "loop" /\ UNCHANGED outbound
     \/ afterFlush = "sentinel" /\ matchPc' = "emit" /\ outbound' = Sentinel.id
  /\ MatchFrame
  /\ UNCHANGED <<eventQueue, matchQueue, lastEventTime, latency, batch, afterFlush,
                 limitReached, streamComplete, processed, liquidity, matched, dropped>>

\* After the loop: the rest of the session, when the stream has ended.
TailFlush ==
  /\ matchPc = "tail"
  /\ \/ /\ streamComplete \/ eventFinished
        /\ Flush(latency, SessionLength, "sentinel")
        /\ UNCHANGED outbound
     \/ /\ ~(streamComplete \/ eventFinished)
        /\ matchPc' = "emit" /\ outbound' = Sentinel.id
        /\ UNCHANGED <<batch, latency, afterFlush>>
  /\ MatchFrame
  /\ UNCHANGED <<eventQueue, matchQueue, lastEventTime, limitReached, streamComplete,
                 processed, liquidity, matched, dropped>>

MatchFinish ==
  /\ matchPc = "finish"
  /\ matcherFinished' = TRUE
  /\ matchPc' = "done"
  /\ UNCHANGED <<runtime, shutdown, eventFinished, eventVars, logVars, eventQueue,
                 matchQueue, lastEventTime, latency, batch, afterFlush, limitReached,
                 streamComplete, processed, liquidity, outbound, matched, dropped>>

MatchThread ==
  \/ SeedBook \/ LoopHead \/ Pop \/ PopFailed
  \/ SkipEntry \/ MatchEntry \/ PushOutput \/ PushOutputFailed \/ FlushDone
  \/ TailFlush \/ MatchFinish

-----------------------------------------------------------------------------
(* The logger: external.  It consumes until the sentinel, or until the       *)
(* matcher has finished and nothing is queued; a shutdown may end it early.  *)

LogFrame == UNCHANGED <<runtime, flags, eventVars, eventQueue, matchVars>>

Log ==
  /\ logPc = "loop" /\ matchQueue # <<>>
  /\ matchQueue' = Tail(matchQueue)
  /\ \/ Head(matchQueue) = Sentinel.id /\ logPc' = "done" /\ UNCHANGED logged
     \/ /\ Head(matchQueue) # Sentinel.id
        /\ logged' = Append(logged, Head(matchQueue))
        /\ UNCHANGED logPc
  /\ LogFrame

LogStop ==
  /\ logPc = "loop"
  /\ shutdown \/ (matcherFinished /\ matchQueue = <<>>)
  /\ logPc' = "done"
  /\ LogFrame /\ UNCHANGED <<matchQueue, logged>>

Logger == Log \/ LogStop

-----------------------------------------------------------------------------

Runtime == Start \/ JoinEvent \/ JoinMatch \/ JoinLog

Next == Runtime \/ RequestShutdown \/ EventThread \/ MatchThread \/ Logger

Spec == Init /\ [][Next]_vars

\* The operating system schedules every thread; run() is eventually called.
Fairness ==
  /\ WF_vars(Runtime) /\ WF_vars(EventThread) /\ WF_vars(MatchThread)
  /\ WF_vars(Logger)

FairSpec == Spec /\ Fairness

-----------------------------------------------------------------------------
(* Properties *)

\* Type correctness.
TypeOK ==
  /\ runtime \in {"idle", "joinEvent", "joinMatch", "joinLog", "done"}
  /\ shutdown \in BOOLEAN /\ eventFinished \in BOOLEAN /\ matcherFinished \in BOOLEAN
  /\ eventPc \in {"off", "loop", "push", "pushFailed", "sentinel", "sentinelFailed",
                  "finish", "done"}
  /\ clock \in Nat /\ inHand \in Event /\ produced \in Nat
  /\ eventQueue \in Seq(Event)
  /\ matchPc \in {"off", "seed", "loop", "pop", "empty", "flush", "emit",
                  "emitFailed", "tail", "finish", "done"}
  /\ lastEventTime \in Nat
  /\ latency \subseteq Entry /\ batch \subseteq Entry
  /\ afterFlush \in {"loop", "sentinel"}
  /\ limitReached \in BOOLEAN /\ streamComplete \in BOOLEAN
  /\ processed \in Nat /\ liquidity \in [Side -> Nat] /\ outbound \in Nat
  /\ matched \in Seq([id : Nat, time : Nat, ready : Nat, filled : Nat])
  /\ dropped \subseteq Nat
  /\ matchQueue \in Seq(Nat)
  /\ logPc \in {"off", "loop", "done"} /\ logged \in Seq(Nat)

\* Orders reach the book in the order of their latency-adjusted times, across
\* flushes too: each flush stops at the newest event's time, and no later event
\* can become ready before that (MatchingEngine::run and flush_ready).
MatchedInReadyOrder ==
  \A i, j \in DOMAIN matched : i < j => matched[i].ready <= matched[j].ready

\* Nothing is executed past the end of the session, and every match trades:
\* an empty side is seeded before the second attempt (flush_ready).
EveryMatchTradesInSession ==
  \A i \in DOMAIN matched :
    matched[i].ready <= SessionLength /\ matched[i].filled \in 1..OrderSize

\* The max_events limit holds although the flush after the loop ignores that
\* it was reached.
LimitRespected == MaxEvents > 0 => processed <= MaxEvents

Ids(S) == {e.id : e \in S}
QueuedIds == Ids(ToSet(eventQueue)) \ {Sentinel.id}
MatchedIds == [i \in DOMAIN matched |-> matched[i].id]

\* Until run() returns every event has one place: unless a shutdown was
\* requested, each counted event is queued, delayed, matched or dropped as
\* late, and never two of these; none is matched twice.  In particular the
\* entries flush_ready throws away when the limit is reached are none.  What
\* the places hold when run() has returned is the business of FinishedRun.
EventsAccounted ==
  LET places == <<QueuedIds, Ids(latency), Ids(batch), ToSet(MatchedIds), dropped>>
  IN /\ \A i, j \in DOMAIN places : i # j => places[i] \cap places[j] = {}
     /\ IsInjective(MatchedIds)
     /\ ~shutdown /\ runtime # "idle" => UNION Range(places) = 1..produced

\* What the logger is still to get: the queue before the sentinel that closes
\* it, and the output being pushed.
Queued == IF matchQueue # <<>> /\ Last(matchQueue) = Sentinel.id THEN Front(matchQueue)
          ELSE matchQueue
Pushing == IF matchPc \in {"emit", "emitFailed"} /\ outbound # Sentinel.id THEN <<outbound>>
           ELSE <<>>

\* The logger gets the matches in order and, without a shutdown, all of them:
\* those not logged yet are in the queue or being pushed, and nothing follows
\* the sentinel.
LoggedInMatchOrder ==
  IF shutdown THEN ToSet(logged) \subseteq ToSet(MatchedIds)
  ELSE (logged \o Queued) \o Pushing = MatchedIds

\* Once started, run() returns: no full queue, missing sentinel or early stop
\* of one thread leaves another waiting.
RunReturns == (runtime = "joinEvent") ~> (runtime = "done")

\* When run() has returned without a shutdown, the logger has had every event
\* but those due after the session and those left in the event queue.  Nothing
\* will take the latter: they are lost.  That takes a matcher that never took
\* the sentinel behind them, because it read event_stream_finished after its
\* pop had failed (matching_engine.cpp:215-231); none is lost at the limit.
FinishedRun ==
  runtime = "done" /\ ~shutdown =>
    /\ ToSet(logged) = (1..produced) \ (dropped \cup Ids(latency) \cup QueuedIds)
    /\ \A e \in latency : e.ready > SessionLength
    /\ QueuedIds # {} => Last(eventQueue) = Sentinel /\ ~limitReached

\* From the source to the logger no event is repeated or out of order, none is
\* lost but in the one way FinishedRun names, and the limit on events holds, at
\* any capacity and however the session ends (event_engine.cpp:78-95,
\* matching_engine.cpp:167-250).
EventsDelivered ==
  EventsAccounted /\ LoggedInMatchOrder /\ LimitRespected /\ FinishedRun

\* week6_stability_tuning.md:25 reports "retries (no drops)": when run()
\* returns without a shutdown, no event is left in the event queue.
NoDrops == runtime = "done" /\ ~shutdown => QueuedIds = {}

=============================================================================
