---------------------------- MODULE BoundedQueue ----------------------------
(***************************************************************************)
(* What the runner expects of its queues, be they queue.Queue or           *)
(* RingBufferQueue: a bounded FIFO whose put and get are atomic and happen *)
(* only when there is room, or something to take.                          *)
(***************************************************************************)
EXTENDS Integers, Sequences

CONSTANTS
  Capacity,  (* how many items fit                                         *)
  Items      (* the items producers put                                    *)

VARIABLES
  queue,  (* what is queued, oldest first                                  *)
  taken   (* history: what get has returned, in order                      *)

vars == <<queue, taken>>

Init == queue = <<>> /\ taken = <<>>

Put(item) ==
  /\ Len(queue) < Capacity
  /\ queue' = Append(queue, item)
  /\ UNCHANGED taken

Get ==
  /\ queue # <<>>
  /\ queue' = Tail(queue)
  /\ taken' = Append(taken, Head(queue))

Next == Get \/ \E item \in Items : Put(item)

Spec == Init /\ [][Next]_vars

=============================================================================
