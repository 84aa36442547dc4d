------------------------------ MODULE Ext4Server ------------------------------
(***************************************************************************)
(* servers/ext4_server/src/main.rs: the main loop, composed with the      *)
(* server's port in the kernel.  Clients port_send block requests; the     *)
(* loop calls recv_message and matches msg[0] only when the result equals  *)
(* DispatchOn (`if result == 0` in the code).  Every arm (BLOCK_READ,      *)
(* BLOCK_WRITE, BLOCK_SYNC, unknown) prints and changes nothing, so a      *)
(* dispatch is recorded only in the history variable handled.  The         *)
(* BlockCache that _start creates is never read or written by the loop    *)
(* and is left out.  A message is the record [op, a1] of msg[0], msg[1].  *)
(***************************************************************************)
EXTENDS Port

CONSTANTS
  DispatchOn,   \* the result the loop dispatches on: `if result == 0`
  ErrorBase,    \* 0xFFFFFFFF_00000000, scaled as in Kernel
  MaxSends      \* bound: requests clients send

BLOCK_READ == 1
BLOCK_WRITE == 2
BLOCK_SYNC == 3

MsgWords == 8
E_PORT_INVALID == ErrorBase + 1

VARIABLES
  port,     \* ext4_port in the kernel's table
  result,   \* what recv_message last returned
  sent,     \* history: requests clients have sent
  handled   \* history: requests the match on msg[0] dispatched

vars == <<port, result, sent, handled>>

\* recv_message(port, &mut msg): SYS_PORT_RECEIVE with len 8.  port_receive
\* pops the front message and returns 8, or returns E_PORT_INVALID on an
\* empty queue.  The result is <<what rax holds, the port after>>.
RecvMessage(p) ==
  IF IsEmpty(p) THEN <<E_PORT_INVALID, p>> ELSE <<MsgWords, PopMessage(p)>>

\* `if result == 0 { match msg[0] { .. } }`: each arm only prints.
Dispatch(r) == r = DispatchOn

Init ==
  /\ port = NewPort(1, 5)
  /\ result = 0
  /\ sent = 0
  /\ handled = 0

\* A client's port_send of a request to ext4_port.
ClientSend(m) ==
  /\ sent < MaxSends
  /\ ~IsFull(port)
  /\ port' = PushMessage(port, m)
  /\ sent' = sent + 1
  /\ UNCHANGED <<result, handled>>

\* One turn of the loop: recv_message, then the match on msg[0].
ServerStep ==
  /\ result' = RecvMessage(port)[1]
  /\ port' = RecvMessage(port)[2]
  /\ \/ Dispatch(result') /\ handled' = handled + 1
     \/ ~Dispatch(result') /\ UNCHANGED handled
  /\ UNCHANGED sent

Next == (\E m \in Msgs : ClientSend(m)) \/ ServerStep

(* The loop never blocks or yields: recv_message returns at once, so once  *)
(* the server runs it keeps taking turns.                                  *)
Spec == Init /\ [][Next]_vars /\ WF_vars(ServerStep)
-----------------------------------------------------------------------------
TypeOK ==
  /\ port \in PortRec({1}, {5})
  /\ result \in {0, MsgWords, E_PORT_INVALID}
  /\ sent \in 0 .. MaxSends
  /\ handled \in 0 .. MaxSends

(* Every block request that port_send accepted is eventually dispatched by *)
(* the loop's match on msg[0] (spec.md 4.5: a receive of a message returns *)
(* 8 and fills the buffer).                                                *)
EveryRequestHandled ==
  \A k \in 1 .. MaxSends : (sent >= k) ~> (handled >= k)
=============================================================================
