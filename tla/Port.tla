-------------------------------- MODULE Port --------------------------------
(***************************************************************************)
(* The IPC port of kernel/src/globals.rs: a fixed ring of message slots    *)
(* with head, tail and size counters.  This module has no variables; it    *)
(* defines the Port value and its methods as operators, used by Kernel     *)
(* (the table of ports) and by the server modules (each server's port).   *)
(*                                                                         *)
(* A message of 8 u64 words is abstracted to one element of Msgs: the     *)
(* kernel copies the 8 words in and out as a unit and never looks inside. *)
(***************************************************************************)
EXTENDS Naturals

CONSTANTS
  Msgs,          \* the messages a sender may pass (model values)
  NoMsg,         \* content of a slot never written ([0u64; 512] at creation)
  RingSlots,     \* the literal modulus of push/pop: `% 64` in the code
  MaxQueueSize   \* the max_queue_size field, set to 64 by Port::new

ASSUME NoMsg \notin Msgs
ASSUME RingSlots \in Nat \ {0} /\ MaxQueueSize \in Nat \ {0}

Slots == 0 .. RingSlots - 1

PortRec(Ids, Pids) ==
  [id : Ids, owner_pid : Pids, queue : [Slots -> Msgs \cup {NoMsg}],
   queue_head : Slots, queue_tail : Slots, queue_size : Nat]

\* Port::new(id, owner_pid)
NewPort(id, owner) ==
  [id |-> id, owner_pid |-> owner, queue |-> [s \in Slots |-> NoMsg],
   queue_head |-> 0, queue_tail |-> 0, queue_size |-> 0]

\* Faults the methods below could have, used as mutants: a full test one
\* off, a push that does not wrap the tail, and a pop that reads the newest
\* slot instead of the oldest.
IsFullOffByOne(p) == p.queue_size > MaxQueueSize
PushMessageNoWrap(p, m) ==
  [p EXCEPT !.queue[p.queue_tail] = m, !.queue_tail = p.queue_tail + 1,
            !.queue_size = p.queue_size + 1]
FrontMessageNewest(p) == p.queue[(p.queue_tail + RingSlots - 1) % RingSlots]

\* Port::is_full / Port::is_empty
IsFull(p) == p.queue_size >= MaxQueueSize
IsEmpty(p) == p.queue_size = 0

\* Port::push_message after its is_full early return: write slot tail,
\* advance tail modulo the ring, count the message.
PushMessage(p, m) ==
  [p EXCEPT !.queue[p.queue_tail] = m,
            !.queue_tail = (p.queue_tail + 1) % RingSlots,
            !.queue_size = p.queue_size + 1]

\* Port::pop_message after its is_empty early return: the message read from
\* slot head, and the port with head advanced and the count decreased.
FrontMessage(p) == p.queue[p.queue_head]

PopMessage(p) ==
  [p EXCEPT !.queue_head = (p.queue_head + 1) % RingSlots,
            !.queue_size = p.queue_size - 1]

\* The messages a port holds, oldest first, as the ring is meant to be read.
Contents(p) ==
  [i \in 1 .. p.queue_size |-> p.queue[(p.queue_head + i - 1) % RingSlots]]
=============================================================================
