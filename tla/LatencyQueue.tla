---------------------------- MODULE LatencyQueue ----------------------------
(***************************************************************************)
(* The queue as it is built: pushes go to a ring buffer that doubles when  *)
(* it is full, and only a reader moves them into the heap.  Ring indices   *)
(* count up for ever and are masked on use, so the capacity has to be a    *)
(* power of two.  std::push_heap and std::pop_heap are the library's: the  *)
(* heap is the set of its entries.                                         *)
(***************************************************************************)
EXTENDS Integers, FiniteSets, Sequences, SequencesExt, Bitwise

CONSTANTS
  Times,           (* ready times an entry may have                       *)
  MaxPushes,       (* bound: entries pushed in a behaviour                *)
  InitialCapacity  (* the constructor's argument, positive                *)

VARIABLES
  buffer,  (* the ring: a function on 0..capacity-1                       *)
  mask,    (* capacity - 1                                                *)
  head,    (* index of the oldest pending entry, before masking           *)
  tail,    (* index of the next push, before masking                      *)
  heap,    (* the entries moved out of the ring                           *)
  pushed,  (* entries pushed so far                                       *)
  out      (* the entries the latest operation handed out, in order       *)

vars == <<buffer, mask, head, tail, heap, pushed, out>>

Vacant == [id |-> 0, ready |-> 0]

\* The least power of two that is not below the value.
RoundUpPow2(value) == Min({2 ^ k : k \in 0..value} \cap {n \in 1..2 * value : n >= value})

Pending == tail - head

\* The ring's entries, read as drain() and grow() read them.
InRing == {buffer[(head + k) & mask] : k \in 0..Pending - 1}

Init ==
  /\ buffer = [k \in 0..RoundUpPow2(InitialCapacity) - 1 |-> Vacant]
  /\ mask = RoundUpPow2(InitialCapacity) - 1
  /\ head = 0 /\ tail = 0
  /\ heap = {} /\ pushed = 0 /\ out = <<>>

\* Mutant: the old ring is copied up to its end, as if it never wrapped.
GrownToTheEnd ==
  [k \in 0..2 * Cardinality(DOMAIN buffer) - 1 |->
     IF (head & mask) + k <= mask THEN buffer[(head & mask) + k] ELSE Vacant]

\* The ring after a reallocation: the pending entries first, from index 0.
Grown ==
  [k \in 0..2 * Cardinality(DOMAIN buffer) - 1 |->
     IF k < Pending THEN buffer[(head + k) & mask] ELSE Vacant]

Push(ready) ==
  LET entry == [id |-> pushed + 1, ready |-> ready] IN
  /\ pushed < MaxPushes
  /\ pushed' = pushed + 1
  /\ IF Pending = Cardinality(DOMAIN buffer)
       THEN /\ buffer' = [Grown EXCEPT ![Pending] = entry]
            /\ mask' = Cardinality(DOMAIN Grown) - 1
            /\ head' = 0
            /\ tail' = Pending + 1
       ELSE /\ buffer' = [buffer EXCEPT ![tail & mask] = entry]
            /\ tail' = tail + 1
            /\ UNCHANGED <<mask, head>>
  /\ out' = <<>>
  /\ UNCHANGED heap

\* Everything a reader finds once the ring is emptied into the heap.
Drained == heap \cup InRing

Drain == head' = tail /\ UNCHANGED <<buffer, mask, tail, pushed>>

\* top() moves the ring into the heap and hands out nothing.
Top ==
  /\ Drained # {}
  /\ Drain
  /\ heap' = Drained
  /\ UNCHANGED out

Pop ==
  /\ Drain
  /\ \E e \in Drained :
       /\ \A f \in Drained : e.ready <= f.ready
       /\ heap' = Drained \ {e}
       /\ out' = <<e>>

DrainUpTo(time) ==
  LET due == {e \in Drained : e.ready <= time} IN
  /\ Drain
  /\ heap' = Drained \ due
  /\ out' \in {s \in SetToSeqs(due) : \A i \in 1..Len(s) - 1 : s[i].ready <= s[i + 1].ready}

Next ==
  \/ \E t \in Times : Push(t)
  \/ Top
  \/ Pop
  \/ \E t \in Times : DrainUpTo(t)

Spec == Init /\ [][Next]_vars

-----------------------------------------------------------------------------

Abstract == INSTANCE LegacyLatencyQueue WITH queue <- Drained

(***************************************************************************)
(* Through wrap-around, growth and interleaved reads the ring and the heap *)
(* together are the legacy priority queue: no push is lost or doubled, and *)
(* what a reader takes is what is ready first (latency_model.hpp:59-140).  *)
(***************************************************************************)
ImplementsLegacyQueue == Abstract!Init /\ [][Abstract!Next]_(Abstract!vars)

=============================================================================
