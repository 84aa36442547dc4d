------------------------------ MODULE FifoQueue ------------------------------
(***************************************************************************)
(* What a port promises (spec.md 4.3): a bounded first-in first-out queue  *)
(* of messages.  A send on a full queue and a receive on an empty one fail *)
(* and change nothing; a receive hands back the oldest message.            *)
(***************************************************************************)
EXTENDS Naturals, Sequences

CONSTANTS Msgs, NoMsg, Capacity

VARIABLES
  queue,      \* the messages accepted and not yet received, oldest first
  delivered   \* the message handed to the last successful receiver

Init ==
  /\ queue = << >>
  /\ delivered = NoMsg

Enqueue(m) ==
  /\ Len(queue) < Capacity
  /\ queue' = Append(queue, m)
  /\ UNCHANGED delivered

Dequeue ==
  /\ queue # << >>
  /\ delivered' = Head(queue)
  /\ queue' = Tail(queue)

Next == (\E m \in Msgs : Enqueue(m)) \/ Dequeue

Spec == Init /\ [][Next]_<<queue, delivered>>
=============================================================================
