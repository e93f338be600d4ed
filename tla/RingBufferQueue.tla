--------------------------- MODULE RingBufferQueue ---------------------------
(***************************************************************************)
(* RingBufferQueue (python/backtester/queues.py): a circular buffer with   *)
(* one lock and two condition variables on it.  put and get run from one   *)
(* wait to the next without releasing the lock, so each such stretch is an *)
(* action; a notified thread must win the lock again and rechecks.         *)
(***************************************************************************)
EXTENDS Integers, FiniteSets, Sequences, SequencesExt

CONSTANTS
  Capacity,   (* capacity of the buffer                                    *)
  Producers,  (* threads that call put                                     *)
  Consumers,  (* threads that call get                                     *)
  MaxPuts     (* bound: how many items are ever put                        *)

ASSUME RingBufferAssumption ==
  /\ Capacity \in Nat \ {0}
  /\ Producers \cap Consumers = {}
  /\ IsFiniteSet(Producers) /\ IsFiniteSet(Consumers)
  /\ MaxPuts \in Nat

VARIABLES
  buffer,    (* _buffer; position i of the code is i here                  *)
  head,      (* _head                                                      *)
  tail,      (* _tail                                                      *)
  size,      (* _size                                                      *)
  notFull,   (* producers waiting on _not_full                             *)
  notEmpty,  (* consumers waiting on _not_empty                            *)
  puts,      (* the number of items put; the next item is puts + 1         *)
  taken      (* history: what get has returned, in order                   *)

vars == <<buffer, head, tail, size, notFull, notEmpty, puts, taken>>

None == 0   \* a slot that holds nothing

Init ==
  /\ buffer = [i \in 0..(Capacity - 1) |-> None]
  /\ head = 0 /\ tail = 0 /\ size = 0
  /\ notFull = {} /\ notEmpty = {}
  /\ puts = 0 /\ taken = <<>>

\* Mutant: the position does not wrap.
NextPositionStuck(i) == IF i = Capacity - 1 THEN i ELSE i + 1

NextPosition(i) == (i + 1) % Capacity

\* Mutant: nobody is woken.
NotifyNobody(waiters, left) == left = waiters

\* notify() wakes one waiting thread, if there is any.
Notify(waiters, left) ==
  \/ waiters = {} /\ left = {}
  \/ \E t \in waiters : left = waiters \ {t}

\* Mutant: the item put last is taken first.
ItemPutLast == buffer[(tail - 1) % Capacity]

\* The item get returns.
NextItem == buffer[head]

\* put, entered or resumed by a producer that has the lock.
Put(p) ==
  /\ p \notin notFull /\ puts < MaxPuts
  /\ \/ /\ size = Capacity
        /\ notFull' = notFull \cup {p}
        /\ UNCHANGED <<buffer, tail, size, notEmpty, puts>>
     \/ /\ size # Capacity
        /\ buffer' = [buffer EXCEPT ![tail] = puts + 1]
        /\ tail' = NextPosition(tail)
        /\ size' = size + 1
        /\ Notify(notEmpty, notEmpty')
        /\ puts' = puts + 1
        /\ UNCHANGED notFull
  /\ UNCHANGED <<head, taken>>

Get(c) ==
  /\ c \notin notEmpty
  /\ \/ /\ size = 0
        /\ notEmpty' = notEmpty \cup {c}
        /\ UNCHANGED <<buffer, head, size, notFull, taken>>
     \/ /\ size # 0
        /\ taken' = Append(taken, NextItem)
        /\ buffer' = [buffer EXCEPT ![head] = None]
        /\ head' = NextPosition(head)
        /\ size' = size - 1
        /\ Notify(notFull, notFull')
        /\ UNCHANGED notEmpty
  /\ UNCHANGED <<tail, puts>>

Next == (\E p \in Producers : Put(p)) \/ (\E c \in Consumers : Get(c))

Spec == Init /\ [][Next]_vars

\* The interpreter runs every thread that is not waiting.
Fairness == /\ \A p \in Producers : WF_vars(Put(p))
            /\ \A c \in Consumers : WF_vars(Get(c))

FairSpec == Spec /\ Fairness

-----------------------------------------------------------------------------
(* Properties *)

\* Type correctness.
TypeOK ==
  /\ buffer \in [0..(Capacity - 1) -> 0..MaxPuts]
  /\ head \in 0..(Capacity - 1) /\ tail \in 0..(Capacity - 1)
  /\ size \in 0..Capacity
  /\ notFull \subseteq Producers /\ notEmpty \subseteq Consumers
  /\ puts \in 0..MaxPuts /\ taken \in Seq(1..MaxPuts)

\* head, tail and size keep agreeing as they wrap.
PositionsAgree == tail = (head + size) % Capacity

\* No wake-up is lost: while consumers sleep, at least as many are awake as
\* there are items (each will take one or find it taken), and likewise for
\* producers and free slots; a notify per item is enough.
NoLostWakeup ==
  /\ notEmpty # {} => size <= Cardinality(Consumers \ notEmpty)
  /\ notFull # {} => Capacity - size <= Cardinality(Producers \ notFull)

\* put blocks no one for good: every item is taken in the end.
AllTaken == <>(Len(taken) = MaxPuts)

\* The circular buffer is a bounded FIFO queue.
Abstract == INSTANCE BoundedQueue WITH
  Items <- 1..MaxPuts,
  queue <- [i \in 1..size |-> buffer[(head + i - 1) % Capacity]]

ImplementsBoundedQueue == Abstract!Spec

=============================================================================
