------------------------- MODULE LegacyLatencyQueue -------------------------
(***************************************************************************)
(* What the queue between the event source and the matching loop promises: *)
(* the entry that is ready first leaves first.  This is the                *)
(* std::priority_queue the code keeps under HFT_LEGACY_LATENCY_QUEUE; two  *)
(* entries ready at the same time leave in either order.                   *)
(***************************************************************************)
EXTENDS Integers, FiniteSets, Sequences, SequencesExt

CONSTANTS
  Times,      (* ready times an entry may have                            *)
  MaxPushes   (* bound: entries pushed in a behaviour                     *)

VARIABLES
  queue,  (* the waiting entries, records [id, ready]                     *)
  pushed, (* entries pushed so far, the id of the latest                  *)
  out     (* the entries the latest operation handed out, in order        *)

vars == <<queue, pushed, out>>

Due(entries, time) == {e \in entries : e.ready <= time}

\* May e be at the front of a heap that holds these entries?
IsFront(e, entries) == \A f \in entries : e.ready <= f.ready

\* The orders in which these entries may leave.
ReadyOrders(entries) ==
  {s \in SetToSeqs(entries) : \A i \in 1..Len(s) - 1 : s[i].ready <= s[i + 1].ready}

Init == queue = {} /\ pushed = 0 /\ out = <<>>

Push(ready) ==
  /\ pushed < MaxPushes
  /\ pushed' = pushed + 1
  /\ queue' = queue \cup {[id |-> pushed + 1, ready |-> ready]}
  /\ out' = <<>>

Pop ==
  \E e \in queue :
    /\ IsFront(e, queue)
    /\ queue' = queue \ {e}
    /\ out' = <<e>>
    /\ UNCHANGED pushed

DrainUpTo(time) ==
  /\ out' \in ReadyOrders(Due(queue, time))
  /\ queue' = queue \ Due(queue, time)
  /\ UNCHANGED pushed

Next ==
  \/ \E t \in Times : Push(t)
  \/ Pop
  \/ \E t \in Times : DrainUpTo(t)

Spec == Init /\ [][Next]_vars

=============================================================================
