------------------------ MODULE RingBufferQueueProofs ------------------------
(* Theorems about the ring buffer, for every capacity and any threads.       *)
EXTENDS RingBufferQueue, SequenceTheorems, FiniteSetTheorems, TLAPS

\* The slot k places after position h.
Slot(h, k) == (h + k) % Capacity

\* Positions wrap at most once.
LEMMA SlotValue ==
  ASSUME NEW h \in 0..(Capacity - 1), NEW k \in 0..Capacity
  PROVE  Slot(h, k) = IF h + k < Capacity THEN h + k ELSE h + k - Capacity
<1>1. Capacity \in Nat \ {0}  BY RingBufferAssumption DEF RingBufferAssumption
<1>2. CASE h + k < Capacity  BY <1>1, <1>2 DEF Slot
<1>3. CASE ~(h + k < Capacity)
  <2> DEFINE b == h + k - Capacity
  <2>1. b \in 0..(Capacity - 1) /\ h + k = b + Capacity  BY <1>1, <1>3
  <2>2. (h + k) % Capacity = b  BY <1>1, <2>1
  <2>3. QED  BY <1>3, <2>2 DEF Slot
<1>4. QED  BY <1>2, <1>3

\* The next position is the slot after.
LEMMA NextIsSlot == \A i \in 0..(Capacity - 1) : NextPosition(i) = Slot(i, 1)
BY DEF NextPosition, Slot

\* A slot is a position, and its modulus one comparison.
LEMMA SlotFacts ==
  ASSUME NEW h \in 0..(Capacity - 1), NEW k \in 0..(Capacity - 1)
  PROVE  /\ Slot(h, k) \in 0..(Capacity - 1)
         /\ Slot(h, 0) = h
         /\ NextPosition(h) \in 0..(Capacity - 1)
         /\ Slot(NextPosition(h), k) = Slot(h, k + 1)
         /\ NextPosition(Slot(h, k)) = Slot(h, k + 1)
<1>1. Capacity \in Nat \ {0}  BY RingBufferAssumption DEF RingBufferAssumption
<1>2. Slot(h, k) = IF h + k < Capacity THEN h + k ELSE h + k - Capacity
  BY <1>1, SlotValue
<1>3. Slot(h, k + 1) = IF h + (k + 1) < Capacity THEN h + (k + 1) ELSE h + (k + 1) - Capacity
  <2>1. k + 1 \in 0..Capacity  BY <1>1
  <2>2. QED  BY <2>1, SlotValue
<1>4. Slot(h, k) \in 0..(Capacity - 1)  BY <1>1, <1>2
<1>5. Slot(h, 0) = h
  <2>1. 0 \in 0..Capacity /\ h + 0 = h /\ h < Capacity  BY <1>1
  <2>2. QED  BY <2>1, SlotValue
<1>6. \A i \in 0..(Capacity - 1) :
        NextPosition(i) = IF i + 1 < Capacity THEN i + 1 ELSE i + 1 - Capacity
  <2>1. 1 \in 0..Capacity  BY <1>1
  <2>2. QED  BY <2>1, SlotValue, NextIsSlot
<1>7. NextPosition(h) = (IF h + 1 < Capacity THEN h + 1 ELSE 0)
      /\ NextPosition(h) \in 0..(Capacity - 1)
  BY <1>1, <1>6
<1>8. Slot(NextPosition(h), k) = Slot(h, k + 1)
  <2>1. Slot(NextPosition(h), k) = IF NextPosition(h) + k < Capacity
          THEN NextPosition(h) + k ELSE NextPosition(h) + k - Capacity
    BY <1>1, <1>7, SlotValue
  <2>2. QED  BY <2>1, <1>1, <1>3, <1>7
<1>9. NextPosition(Slot(h, k)) = Slot(h, k + 1)
  BY <1>1, <1>2, <1>3, <1>4, <1>6
<1>10. QED  BY <1>4, <1>5, <1>7, <1>8, <1>9

\* Slots at different distances from a position differ.
LEMMA SlotsDiffer ==
  ASSUME NEW h \in 0..(Capacity - 1), NEW j \in 0..(Capacity - 1),
         NEW k \in 0..(Capacity - 1), j # k
  PROVE  Slot(h, j) # Slot(h, k)
<1>1. Capacity \in Nat \ {0}  BY RingBufferAssumption DEF RingBufferAssumption
<1>2. /\ Slot(h, j) = IF h + j < Capacity THEN h + j ELSE h + j - Capacity
      /\ Slot(h, k) = IF h + k < Capacity THEN h + k ELSE h + k - Capacity
  BY <1>1, SlotValue
<1>3. QED  BY <1>1, <1>2

-----------------------------------------------------------------------------
(* The invariant: PositionsAgree, and that the slots from head on, as many   *)
(* as size says, hold items.                                                 *)

Occupied == \A k \in 0..(size - 1) : buffer[Slot(head, k)] \in 1..MaxPuts

RingInv == TypeOK /\ PositionsAgree /\ Occupied

\* The queue the buffer stands for.
Queued == [i \in 1..size |-> buffer[Slot(head, i - 1)]]

\* What the proofs use of the constants and types.
LEMMA TypeFacts ==
  ASSUME TypeOK
  PROVE  /\ Capacity \in Nat \ {0} /\ MaxPuts \in Nat
         /\ buffer \in [0..(Capacity - 1) -> 0..MaxPuts]
         /\ head \in 0..(Capacity - 1) /\ tail \in 0..(Capacity - 1)
         /\ size \in 0..Capacity /\ puts \in 0..MaxPuts
         /\ taken \in Seq(1..MaxPuts)
BY RingBufferAssumption DEF TypeOK, RingBufferAssumption

\* The buffer starts empty.
LEMMA RingInit == Init => RingInv
<1> SUFFICES ASSUME Init PROVE RingInv  OBVIOUS
<1>1. Capacity \in Nat \ {0} /\ MaxPuts \in Nat
  BY RingBufferAssumption DEF RingBufferAssumption
<1>2. buffer \in [0..(Capacity - 1) -> 0..MaxPuts]  BY <1>1 DEF Init, None
<1>3. taken \in Seq(1..MaxPuts)  BY DEF Init
<1>4. TypeOK  BY <1>1, <1>2, <1>3 DEF Init, TypeOK
<1>5. PositionsAgree
  <2>1. 0 \in 0..(Capacity - 1)  BY <1>1
  <2>2. Slot(0, 0) = 0  BY <2>1, SlotFacts
  <2>3. QED  BY <2>2 DEF Init, PositionsAgree, Slot
<1>6. Occupied  BY DEF Init, Occupied
<1>7. QED  BY <1>4, <1>5, <1>6 DEF RingInv

\* notify leaves a set of waiting threads.
LEMMA NotifyKeepsType ==
  ASSUME NEW waiters, NEW left, Notify(waiters, left)
  PROVE  left \subseteq waiters
BY DEF Notify

\* put with room writes the slot after the last item: no slot in use changes.
LEMMA PutStep ==
  ASSUME RingInv, NEW p \in Producers, Put(p), size # Capacity
  PROVE  /\ RingInv'
         /\ Queued' = Append(Queued, puts + 1) /\ UNCHANGED taken
         /\ puts + 1 \in 1..MaxPuts /\ size < Capacity
<1>1. TypeOK /\ tail = Slot(head, size)  BY DEF RingInv, PositionsAgree, Slot
<1>2. /\ Capacity \in Nat \ {0} /\ MaxPuts \in Nat
      /\ buffer \in [0..(Capacity - 1) -> 0..MaxPuts]
      /\ head \in 0..(Capacity - 1) /\ tail \in 0..(Capacity - 1)
      /\ size \in 0..(Capacity - 1) /\ puts \in 0..MaxPuts
  BY <1>1, TypeFacts
<1>3. /\ buffer' = [buffer EXCEPT ![tail] = puts + 1]
      /\ tail' = NextPosition(tail) /\ size' = size + 1 /\ puts' = puts + 1
      /\ UNCHANGED <<head, taken>> /\ UNCHANGED notFull /\ puts < MaxPuts
      /\ notEmpty' \subseteq notEmpty
  BY NotifyKeepsType DEF Put
<1>4. puts + 1 \in 1..MaxPuts  BY <1>2, <1>3
<1>5. buffer' \in [0..(Capacity - 1) -> 0..MaxPuts]  BY <1>2, <1>3, <1>4
<1>6. tail' = Slot(head', size') /\ tail' \in 0..(Capacity - 1)
  <2>1. tail' = Slot(head, size + 1)  BY <1>1, <1>2, <1>3, SlotFacts
  <2>2. tail' \in 0..(Capacity - 1)  BY <1>2, <1>3, SlotFacts
  <2>3. QED  BY <2>1, <2>2, <1>3
<1>7. TypeOK'
  <2>1. notFull' \subseteq Producers /\ notEmpty' \subseteq Consumers
    BY <1>1, <1>3 DEF TypeOK
  <2>2. taken' \in Seq(1..MaxPuts)  BY <1>1, <1>3 DEF TypeOK
  <2>3. QED  BY <2>1, <2>2, <1>2, <1>3, <1>4, <1>5, <1>6 DEF TypeOK
<1>8. PositionsAgree'  BY <1>6 DEF PositionsAgree, Slot
<1>9. \A k \in 0..(size - 1) : buffer'[Slot(head, k)] = buffer[Slot(head, k)]
  <2> SUFFICES ASSUME NEW k \in 0..(size - 1)
               PROVE  buffer'[Slot(head, k)] = buffer[Slot(head, k)]
    OBVIOUS
  <2>1. k \in 0..(Capacity - 1) /\ k # size  BY <1>2
  <2>2. Slot(head, k) # Slot(head, size)  BY <1>2, <2>1, SlotsDiffer
  <2>3. Slot(head, k) \in 0..(Capacity - 1)  BY <1>2, <2>1, SlotFacts
  <2>4. QED  BY <1>1, <1>2, <1>3, <2>2, <2>3
<1>10. buffer'[Slot(head, size)] = puts + 1  BY <1>1, <1>2, <1>3
<1>11. Occupied'
  <2> SUFFICES ASSUME NEW k \in 0..size PROVE buffer'[Slot(head, k)] \in 1..MaxPuts
    BY <1>2, <1>3 DEF Occupied
  <2>1. CASE k = size  BY <2>1, <1>4, <1>10
  <2>2. CASE k \in 0..(size - 1)  BY <2>2, <1>9 DEF RingInv, Occupied
  <2>3. QED  BY <2>1, <2>2, <1>2
<1>12. Queued' = Append(Queued, puts + 1)
  <2>1. Queued' = [i \in 1..(size + 1) |-> buffer'[Slot(head, i - 1)]]
    BY <1>3 DEF Queued
  <2>2. Len(Queued) = size /\ Queued \in Seq(0..MaxPuts)
    <3>1. \A i \in 1..size : buffer[Slot(head, i - 1)] \in 0..MaxPuts
      <4> TAKE i \in 1..size
      <4>1. i - 1 \in 0..(Capacity - 1)  BY <1>2
      <4>2. QED  BY <4>1, <1>2, SlotFacts
    <3>2. Queued \in [1..size -> 0..MaxPuts]  BY <3>1 DEF Queued
    <3>3. QED  BY <3>2, <1>2
  <2>3. Append(Queued, puts + 1) =
          [i \in 1..(size + 1) |-> IF i = size + 1 THEN puts + 1 ELSE Queued[i]]
    BY <2>2, <1>2
  <2>4. \A i \in 1..(size + 1) :
          buffer'[Slot(head, i - 1)] = IF i = size + 1 THEN puts + 1 ELSE Queued[i]
    <3> TAKE i \in 1..(size + 1)
    <3>1. CASE i = size + 1
      <4>1. i - 1 = size  BY <3>1, <1>2
      <4>2. QED  BY <3>1, <4>1, <1>10
    <3>2. CASE i # size + 1
      <4>1. i \in 1..size /\ i - 1 \in 0..(size - 1)  BY <3>2, <1>2
      <4>2. Queued[i] = buffer[Slot(head, i - 1)]  BY <4>1 DEF Queued
      <4>3. QED  BY <3>2, <4>1, <4>2, <1>9
    <3>3. QED  BY <3>1, <3>2
  <2>5. QED  BY <2>1, <2>3, <2>4
<1>13. QED  BY <1>2, <1>3, <1>4, <1>7, <1>8, <1>11, <1>12 DEF RingInv

\* What is queued after the first item.
LEMMA TailIsRest ==
  ASSUME NEW S, NEW s \in Seq(S), s # <<>>
  PROVE  Tail(s) = [i \in 1..(Len(s) - 1) |-> s[i + 1]]
<1> DEFINE rest == [i \in 1..(Len(s) - 1) |-> s[i + 1]]
<1>1. /\ Tail(s) \in Seq(S) /\ Len(Tail(s)) = Len(s) - 1
      /\ \A i \in 1..Len(Tail(s)) : Tail(s)[i] = s[i + 1]
  OBVIOUS
<1>2. rest \in Seq(S) /\ Len(rest) = Len(s) - 1
  <2>1. Len(s) - 1 \in Nat  OBVIOUS
  <2>2. \A i \in 1..(Len(s) - 1) : s[i + 1] \in S  OBVIOUS
  <2>3. rest \in [1..(Len(s) - 1) -> S]  BY <2>2
  <2>4. QED  BY <2>1, <2>3
<1>3. \A i \in 1..Len(rest) : rest[i] = s[i + 1]  BY <1>2
<1> HIDE DEF rest
<1>4. Tail(s) = rest  BY <1>1, <1>2, <1>3, SeqEqual
<1>5. QED  BY <1>4 DEF rest

\* get with an item takes the oldest; the others keep their slots.
LEMMA GetStep ==
  ASSUME RingInv, NEW c \in Consumers, Get(c), size # 0
  PROVE  /\ RingInv'
         /\ Queued # <<>> /\ Queued' = Tail(Queued)
         /\ taken' = Append(taken, Head(Queued))
<1>1. TypeOK /\ tail = Slot(head, size)  BY DEF RingInv, PositionsAgree, Slot
<1>2. /\ Capacity \in Nat \ {0} /\ MaxPuts \in Nat
      /\ buffer \in [0..(Capacity - 1) -> 0..MaxPuts]
      /\ head \in 0..(Capacity - 1) /\ tail \in 0..(Capacity - 1)
      /\ size \in 1..Capacity /\ taken \in Seq(1..MaxPuts)
  BY <1>1, TypeFacts
<1>3. /\ taken' = Append(taken, buffer[head])
      /\ buffer' = [buffer EXCEPT ![head] = 0]
      /\ head' = NextPosition(head) /\ size' = size - 1
      /\ UNCHANGED <<tail, puts>> /\ UNCHANGED notEmpty
      /\ notFull' \subseteq notFull
  BY NotifyKeepsType DEF Get, NextItem, None
<1>4. Slot(head, 0) = head /\ 0 \in 0..(size - 1)
  <2>1. 0 \in 0..(Capacity - 1)  BY <1>2
  <2>2. QED  BY <2>1, <1>2, SlotFacts
<1>5. buffer[head] \in 1..MaxPuts  BY <1>4 DEF RingInv, Occupied
<1>6. buffer' \in [0..(Capacity - 1) -> 0..MaxPuts]  BY <1>2, <1>3
<1>7. head' \in 0..(Capacity - 1)  BY <1>2, <1>3, SlotFacts
<1>8. TypeOK'
  <2>1. notFull' \subseteq Producers /\ notEmpty' \subseteq Consumers /\ puts' \in 0..MaxPuts
    BY <1>1, <1>3 DEF TypeOK
  <2>2. taken' \in Seq(1..MaxPuts)  BY <1>2, <1>3, <1>5
  <2>3. size' \in 0..Capacity  BY <1>2, <1>3
  <2>4. QED  BY <2>1, <2>2, <2>3, <1>2, <1>3, <1>6, <1>7 DEF TypeOK
<1>9. \A k \in 0..(size - 2) : /\ Slot(head', k) = Slot(head, k + 1)
                               /\ buffer'[Slot(head', k)] = buffer[Slot(head, k + 1)]
  <2> TAKE k \in 0..(size - 2)
  <2>1. k \in 0..(Capacity - 1) /\ k + 1 \in 0..(Capacity - 1) /\ k + 1 # 0
        /\ 0 \in 0..(Capacity - 1)
    BY <1>2
  <2>2. Slot(head', k) = Slot(head, k + 1)  BY <1>2, <1>3, <2>1, SlotFacts
  <2>3. Slot(head, k + 1) # Slot(head, 0)  BY <1>2, <2>1, SlotsDiffer
  <2>4. Slot(head, k + 1) \in 0..(Capacity - 1)  BY <1>2, <2>1, SlotFacts
  <2>5. QED  BY <1>2, <1>3, <1>4, <2>2, <2>3, <2>4
<1>10. PositionsAgree'
  <2>1. size - 1 \in 0..(Capacity - 1) /\ (size - 1) + 1 = size  BY <1>2
  <2>2. Slot(head', size') = Slot(head, size)  BY <1>2, <1>3, <2>1, SlotFacts
  <2>3. QED  BY <2>2, <1>1, <1>3 DEF PositionsAgree, Slot
<1>11. Occupied'
  <2> SUFFICES ASSUME NEW k \in 0..(size - 2) PROVE buffer'[Slot(head', k)] \in 1..MaxPuts
    BY <1>2, <1>3 DEF Occupied
  <2>1. k + 1 \in 0..(size - 1)  BY <1>2
  <2>2. QED  BY <2>1, <1>9 DEF RingInv, Occupied
<1>12. Queued \in Seq(1..MaxPuts) /\ Len(Queued) = size
  <2>1. \A i \in 1..size : buffer[Slot(head, i - 1)] \in 1..MaxPuts
    <3> TAKE i \in 1..size
    <3>1. i - 1 \in 0..(size - 1)  BY <1>2
    <3>2. QED  BY <3>1 DEF RingInv, Occupied
  <2>2. Queued \in [1..size -> 1..MaxPuts]  BY <2>1 DEF Queued
  <2>3. QED  BY <2>2, <1>2
<1>13. Queued # <<>> /\ Head(Queued) = buffer[head]
  <2>1. 1 \in 1..size /\ 1 - 1 = 0  BY <1>2
  <2>2. Queued[1] = buffer[head]  BY <2>1, <1>4 DEF Queued
  <2>3. QED  BY <2>2, <1>2, <1>12
<1>14. Queued' = Tail(Queued)
  <2>1. Queued' = [i \in 1..(size - 1) |-> buffer'[Slot(head', i - 1)]]
    BY <1>3 DEF Queued
  <2>2. Tail(Queued) = [i \in 1..(size - 1) |-> Queued[i + 1]]
    BY <1>12, <1>13, TailIsRest
  <2>3. \A i \in 1..(size - 1) : buffer'[Slot(head', i - 1)] = Queued[i + 1]
    <3> TAKE i \in 1..(size - 1)
    <3>1. i - 1 \in 0..(size - 2) /\ i + 1 \in 1..size /\ (i - 1) + 1 = (i + 1) - 1
      BY <1>2
    <3>2. Queued[i + 1] = buffer[Slot(head, (i + 1) - 1)]  BY <3>1 DEF Queued
    <3>3. QED  BY <3>1, <3>2, <1>9
  <2>4. QED  BY <2>1, <2>2, <2>3
<1>15. QED  BY <1>3, <1>8, <1>10, <1>11, <1>13, <1>14 DEF RingInv

\* A thread that goes to sleep changes neither the buffer nor its positions.
LEMMA SleepStep ==
  ASSUME RingInv,
         \/ \E p \in Producers : Put(p) /\ size = Capacity
         \/ \E c \in Consumers : Get(c) /\ size = 0
  PROVE  RingInv' /\ Queued' = Queued /\ UNCHANGED taken
<1>1. /\ UNCHANGED <<buffer, head, tail, size, puts, taken>>
      /\ notFull' \subseteq Producers /\ notEmpty' \subseteq Consumers
  BY DEF Put, Get, RingInv, TypeOK
<1>2. TypeOK'  BY <1>1 DEF RingInv, TypeOK
<1>3. PositionsAgree' /\ Occupied'  BY <1>1 DEF RingInv, PositionsAgree, Occupied
<1>4. Queued' = Queued /\ UNCHANGED taken  BY <1>1 DEF Queued
<1>5. QED  BY <1>2, <1>3, <1>4 DEF RingInv

\* Every step puts the next item, takes the oldest, or leaves the queue as it is.
LEMMA RingStep ==
  ASSUME RingInv, [Next]_vars
  PROVE  /\ RingInv'
         /\ \/ /\ puts + 1 \in 1..MaxPuts /\ Len(Queued) < Capacity
               /\ Queued' = Append(Queued, puts + 1) /\ UNCHANGED taken
            \/ /\ Queued # <<>> /\ Queued' = Tail(Queued)
               /\ taken' = Append(taken, Head(Queued))
            \/ Queued' = Queued /\ UNCHANGED taken
<1>1. Len(Queued) = size
  <2>1. size \in Nat  BY TypeFacts DEF RingInv
  <2>2. QED  BY <2>1 DEF Queued
<1>2. CASE \E p \in Producers : Put(p) /\ size # Capacity
  BY <1>1, <1>2, PutStep
<1>3. CASE \E c \in Consumers : Get(c) /\ size # 0
  BY <1>3, GetStep
<1>4. CASE \/ \E p \in Producers : Put(p) /\ size = Capacity
           \/ \E c \in Consumers : Get(c) /\ size = 0
  BY <1>4, SleepStep
<1>5. CASE UNCHANGED vars
  <2>1. UNCHANGED <<buffer, head, tail, size, notFull, notEmpty, puts, taken>>
    BY <1>5 DEF vars
  <2>2. RingInv'
    BY <2>1 DEF RingInv, TypeOK, PositionsAgree, Occupied
  <2>3. Queued' = Queued /\ UNCHANGED taken  BY <2>1 DEF Queued
  <2>4. QED  BY <2>2, <2>3
<1>6. QED  BY <1>2, <1>3, <1>4, <1>5 DEF Next

\* The invariant holds in every reachable state.
LEMMA RingAlways == Spec => []RingInv
<1>1. RingInv /\ [Next]_vars => RingInv'  BY RingStep
<1>2. QED  BY RingInit, <1>1, PTL DEF Spec

\* Every reachable state of the ring buffer is well typed: no position leaves
\* the buffer and size never leaves 0..capacity.
THEOREM TypeCorrect == Spec => []TypeOK
<1>1. RingInv => TypeOK  BY DEF RingInv
<1>2. QED  BY RingAlways, <1>1, PTL

\* _head, _tail and _size agree however put and get interleave and however
\* often the positions wrap.
THEOREM PositionsStayInStep == Spec => []PositionsAgree
<1>1. RingInv => PositionsAgree  BY DEF RingInv
<1>2. QED  BY RingAlways, <1>1, PTL

\* put and get implement a bounded FIFO queue: what get returns is what was put
\* longest ago, put adds only while there is room, and waiting is invisible.
THEOREM Implements == Spec => ImplementsBoundedQueue
<1> DEFINE mapped == [i \in 1..size |-> buffer[(head + i - 1) % Capacity]]
<1>1. RingInv => mapped = Queued
  <2> SUFFICES ASSUME RingInv PROVE mapped = Queued  OBVIOUS
  <2>1. head \in Int /\ size \in Nat  BY TypeFacts DEF RingInv
  <2>2. \A i \in 1..size : head + i - 1 = head + (i - 1)  BY <2>1
  <2>3. QED  BY <2>2 DEF Queued, Slot
<1>2. (RingInv => mapped = Queued)'  BY <1>1, PTL
<1>3. Init => Abstract!Init
  BY DEF Init, Abstract!Init
<1>4. RingInv /\ RingInv' /\ [Next]_vars => [Abstract!Next]_(Abstract!vars)
  <2> SUFFICES ASSUME RingInv, RingInv', [Next]_vars
               PROVE  [Abstract!Next]_(Abstract!vars)
    OBVIOUS
  <2>1. mapped = Queued /\ mapped' = Queued'  BY <1>1, <1>2
  <2>2. QED
    BY <2>1, RingStep DEF Abstract!Next, Abstract!vars, Abstract!Put, Abstract!Get
<1>5. QED
  BY RingAlways, <1>3, <1>4, PTL DEF Spec, ImplementsBoundedQueue, Abstract!Spec

-----------------------------------------------------------------------------
(* Wake-ups *)

\* How many of the threads are awake once one more sleeps, or one is woken.
LEMMA Awake ==
  ASSUME NEW Threads, IsFiniteSet(Threads), NEW asleep \in SUBSET Threads
  PROVE  /\ Cardinality(Threads \ asleep) \in Nat
         /\ \A t \in asleep : Cardinality(Threads \ (asleep \ {t}))
                                = Cardinality(Threads \ asleep) + 1
<1>1. IsFiniteSet(Threads \ asleep) /\ Cardinality(Threads \ asleep) \in Nat
  BY FS_Difference, FS_CardinalityType
<1>2. ASSUME NEW t \in asleep
      PROVE  Cardinality(Threads \ (asleep \ {t})) = Cardinality(Threads \ asleep) + 1
  <2>1. Threads \ (asleep \ {t}) = (Threads \ asleep) \cup {t} /\ t \notin Threads \ asleep
    OBVIOUS
  <2>2. QED  BY <1>1, <2>1, FS_AddElement
<1>3. QED  BY <1>1, <1>2

\* A notify keeps up with one more item (or slot) to hand out.
LEMMA NotifyKeepsUp ==
  ASSUME NEW Threads, IsFiniteSet(Threads), NEW asleep \in SUBSET Threads, NEW left,
         NEW n \in Nat, Notify(asleep, left),
         asleep # {} => n <= Cardinality(Threads \ asleep)
  PROVE  left # {} => n + 1 <= Cardinality(Threads \ left)
<1> SUFFICES ASSUME left # {} PROVE n + 1 <= Cardinality(Threads \ left)  OBVIOUS
<1>1. PICK t \in asleep : left = asleep \ {t}  BY DEF Notify
<1>2. Cardinality(Threads \ left) = Cardinality(Threads \ asleep) + 1
      /\ Cardinality(Threads \ asleep) \in Nat
  BY <1>1, Awake
<1>3. QED  BY <1>1, <1>2

\* Each step gives out one item or slot and wakes one thread for it, takes one
\* away, or puts a thread to sleep because there is none.
LEMMA WakeupStep ==
  ASSUME RingInv, NoLostWakeup, [Next]_vars
  PROVE  NoLostWakeup'
<1>1. /\ Capacity \in Nat \ {0} /\ size \in 0..Capacity
      /\ IsFiniteSet(Producers) /\ IsFiniteSet(Consumers)
      /\ notFull \in SUBSET Producers /\ notEmpty \in SUBSET Consumers
  BY RingBufferAssumption DEF RingInv, TypeOK, RingBufferAssumption
<1>2. /\ Cardinality(Consumers \ notEmpty) \in Nat
      /\ Cardinality(Producers \ notFull) \in Nat
  BY <1>1, Awake
<1>3. ASSUME NEW p \in Producers, Put(p), size # Capacity PROVE NoLostWakeup'
  <2>1. /\ size' = size + 1 /\ UNCHANGED notFull /\ Notify(notEmpty, notEmpty')
    BY <1>3 DEF Put
  <2>2. notEmpty' # {} => size + 1 <= Cardinality(Consumers \ notEmpty')
    BY <1>1, <2>1, NotifyKeepsUp DEF NoLostWakeup
  <2>3. QED  BY <1>1, <1>2, <2>1, <2>2 DEF NoLostWakeup
<1>4. ASSUME NEW p \in Producers, Put(p), size = Capacity PROVE NoLostWakeup'
  <2>1. notFull' = notFull \cup {p} /\ UNCHANGED <<size, notEmpty>>  BY <1>4 DEF Put
  <2>2. notFull' \in SUBSET Producers  BY <1>1, <2>1
  <2>3. Cardinality(Producers \ notFull') \in Nat  BY <1>1, <2>2, Awake
  <2>4. QED  BY <1>1, <1>4, <2>1, <2>3 DEF NoLostWakeup
<1>5. ASSUME NEW c \in Consumers, Get(c), size # 0 PROVE NoLostWakeup'
  <2>1. /\ size' = size - 1 /\ UNCHANGED notEmpty /\ Notify(notFull, notFull')
    BY <1>5 DEF Get
  <2>2. Capacity - size \in Nat /\ Capacity - size' = (Capacity - size) + 1
    BY <1>1, <2>1
  <2>3. notFull' # {} => (Capacity - size) + 1 <= Cardinality(Producers \ notFull')
    <3> DEFINE free == Capacity - size
    <3>1. notFull # {} => free <= Cardinality(Producers \ notFull)  BY DEF NoLostWakeup
    <3> HIDE DEF free
    <3>2. free \in Nat  BY <2>2 DEF free
    <3>3. notFull' # {} => free + 1 <= Cardinality(Producers \ notFull')
      BY <1>1, <2>1, <3>1, <3>2, NotifyKeepsUp
    <3>4. QED  BY <3>3 DEF free
  <2>4. QED  BY <1>1, <1>2, <2>1, <2>2, <2>3 DEF NoLostWakeup
<1>6. ASSUME NEW c \in Consumers, Get(c), size = 0 PROVE NoLostWakeup'
  <2>1. notEmpty' = notEmpty \cup {c} /\ UNCHANGED <<size, notFull>>  BY <1>6 DEF Get
  <2>2. notEmpty' \in SUBSET Consumers  BY <1>1, <2>1
  <2>3. Cardinality(Consumers \ notEmpty') \in Nat  BY <1>1, <2>2, Awake
  <2>4. QED  BY <1>1, <1>6, <2>1, <2>3 DEF NoLostWakeup
<1>7. CASE UNCHANGED vars  BY <1>7 DEF vars, NoLostWakeup
<1>8. QED  BY <1>3, <1>4, <1>5, <1>6, <1>7 DEF Next

\* One notify per item put and per slot freed is enough, for any number of
\* threads on either side: while consumers sleep, no more items lie in the
\* buffer than consumers are awake, and likewise for producers and free slots.
THEOREM NoWakeupIsLost == Spec => []NoLostWakeup
<1>1. Init => NoLostWakeup  BY DEF Init, NoLostWakeup
<1>2. RingInv /\ NoLostWakeup /\ [Next]_vars => NoLostWakeup'  BY WakeupStep
<1>3. QED  BY RingAlways, <1>1, <1>2, PTL DEF Spec

=============================================================================
