------------------------------ MODULE LogServer ------------------------------
(***************************************************************************)
(* servers/log_server/src/main.rs: the LogRingBuffer and the main loop,    *)
(* composed with the server's port in the kernel.  Clients port_send       *)
(* requests; the loop calls recv_message and dispatches on msg[0] only     *)
(* when the result equals DispatchOn: `if result == 0` in the code, whose  *)
(* consequence Ext4Server and its run show.  The log run sets it to 8, the *)
(* value port_receive returns for a message, to examine the handlers.     *)
(*                                                                         *)
(* A message is the record of its first four words [op, a1, a2, a3].      *)
(* LOG_WRITE stores [LOG_WRITE, timestamp, level, pid]; its message text   *)
(* is left zero by the code ("TODO: copy from msg") and is not modelled.   *)
(* The other arms and print_log_entry only print.  The other servers'      *)
(* loops have the same shape.                                              *)
(***************************************************************************)
EXTENDS Port, Sequences

CONSTANTS
  BufSize,      \* the ring's 16384 entries, scaled
  DispatchOn,   \* the result the loop dispatches on: `if result == 0`
  ErrorBase,    \* 0xFFFFFFFF_00000000, scaled as in Kernel
  MaxSends      \* bound: requests clients send

LOG_WRITE == 1
LOG_FLUSH == 2
LOG_READ_TAIL == 3

E_OK == 0
E_PORT_INVALID == ErrorBase + 1
MsgWords == 8

VARIABLES
  port,      \* log_port in the kernel's table
  buffer,    \* LogRingBuffer.buffer, indexed 0 .. BufSize - 1
  head,      \* next write position
  tail,      \* oldest entry
  count,     \* entries held
  result,    \* what recv_message last returned
  sent,      \* history: requests clients have sent
  handled,   \* history: requests the match on msg[0] dispatched
  received   \* history: the message the last successful recv returned

bufVars == <<buffer, head, tail, count>>
vars == <<port, bufVars, result, sent, handled, received>>

EntryRec == [timestamp : Nat, source_pid : Nat, level : Nat]

\* LogEntry::new()
LogEntryNew == [timestamp |-> 0, source_pid |-> 0, level |-> 0]

\* `as u32` keeps the low 32 bits.  On the scale of ErrorBase (2^32 scaled,
\* so that an error code ErrorBase + N keeps N) that is the remainder.
AsU32(v) == v % ErrorBase

\* The LOG_WRITE arm's entry: `source_pid: msg[3] as u32, level: msg[2] as u32`.
EntryOf(m) == [timestamp |-> m.a1, source_pid |-> AsU32(m.a3), level |-> AsU32(m.a2)]

\* Faults LogRingBuffer::write could have, used as mutants: a head that is
\* not taken modulo the ring, and an overwrite that leaves tail behind.
WriteNoWrap(e) ==
  /\ buffer' = [buffer EXCEPT ![head] = e]
  /\ head' = head + 1
  /\ IF count < BufSize THEN count' = count + 1 /\ UNCHANGED tail
                        ELSE tail' = (tail + 1) % BufSize /\ UNCHANGED count

WriteNoTailAdvance(e) ==
  /\ buffer' = [buffer EXCEPT ![head] = e]
  /\ head' = (head + 1) % BufSize
  /\ count' = IF count < BufSize THEN count + 1 ELSE count
  /\ UNCHANGED tail

\* LogRingBuffer::write: store at head and advance it; count up to the
\* capacity, after which the oldest entry is overwritten and tail advances.
Write(e) ==
  /\ buffer' = [buffer EXCEPT ![head] = e]
  /\ head' = (head + 1) % BufSize
  /\ IF count < BufSize THEN count' = count + 1 /\ UNCHANGED tail
                        ELSE tail' = (tail + 1) % BufSize /\ UNCHANGED count

\* `if result == 0`, with the value the loop compares against.
Dispatch(r) == r = DispatchOn

Init ==
  /\ port = NewPort(1, 2)
  /\ buffer = [i \in 0 .. BufSize - 1 |-> LogEntryNew]
  /\ head = 0 /\ tail = 0 /\ count = 0
  /\ result = E_OK
  /\ sent = 0 /\ handled = 0
  /\ received = NoMsg

\* A client's port_send of a request to log_port.
ClientSend(m) ==
  /\ sent < MaxSends
  /\ ~IsFull(port)
  /\ port' = PushMessage(port, m)
  /\ sent' = sent + 1
  /\ UNCHANGED <<bufVars, result, handled, received>>

\* recv_message(port, &mut msg): SYS_PORT_RECEIVE with len 8.  port_receive
\* pops the front message and returns 8, or returns E_PORT_INVALID on an
\* empty queue.  The result is <<what rax holds, the port after>>.
RecvMessage(p) ==
  IF IsEmpty(p) THEN <<E_PORT_INVALID, p>> ELSE <<MsgWords, PopMessage(p)>>

\* One turn of the loop: recv_message, then the match: LOG_WRITE writes the
\* entry, the other arms print.
ServerStep ==
  LET m == FrontMessage(port) IN
  /\ result' = RecvMessage(port)[1]
  /\ port' = RecvMessage(port)[2]
  /\ received' = IF IsEmpty(port) THEN received ELSE m
  /\ \/ Dispatch(result') /\ m.op = LOG_WRITE /\ Write(EntryOf(m)) /\ handled' = handled + 1
     \/ Dispatch(result') /\ m.op # LOG_WRITE /\ UNCHANGED bufVars /\ handled' = handled + 1
     \/ ~Dispatch(result') /\ UNCHANGED <<bufVars, handled>>
  /\ UNCHANGED sent

Next == (\E m \in Msgs : ClientSend(m)) \/ ServerStep

Spec == Init /\ [][Next]_vars
-----------------------------------------------------------------------------
TypeOK ==
  /\ port \in PortRec({1}, {2})
  /\ buffer \in [0 .. BufSize - 1 -> EntryRec]
  /\ {head, tail} \subseteq 0 .. BufSize - 1 /\ count \in 0 .. BufSize
  /\ result \in {E_OK, MsgWords, E_PORT_INVALID}
  /\ sent \in 0 .. MaxSends /\ handled \in 0 .. sent
  /\ received \in Msgs \cup {NoMsg}

\* The entries the ring holds, read from tail, oldest first.
Retained == [i \in 1 .. count |-> buffer[(tail + i - 1) % BufSize]]

(* The ring buffer keeps the newest BufSize LOG_WRITE entries in the order *)
(* they were written: LogRingBuffer::write's head, tail and count, read    *)
(* from tail, implement NewestLog, across the wrap of head and the         *)
(* overwrite of the oldest entry once count has reached the capacity.      *)
Newest == INSTANCE NewestLog WITH
  log <- Retained, Capacity <- BufSize, Entries <- {EntryOf(m) : m \in Msgs}

LogBufferRefinement == Newest!Spec

(* The server's port, as clients' port_send and the loop's port_receive    *)
(* use it, is the FIFO of spec.md 4.3: each recv returns the oldest        *)
(* message not yet received.                                               *)
Fifo == INSTANCE FifoQueue WITH
  queue <- Contents(port), delivered <- received, Capacity <- MaxQueueSize

PortFifoRefinement == Fifo!Spec
=============================================================================
