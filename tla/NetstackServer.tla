--------------------------- MODULE NetstackServer ---------------------------
(***************************************************************************)
(* servers/netstack_server/src/main.rs: the socket table and the main     *)
(* loop, composed with the server's port in the kernel.  A message is its  *)
(* first four u64 words as a record [op, a1, a2, a3].  SOCKET_CREATE makes *)
(* a socket of type msg[1] for owner msg[2] and sends the reply            *)
(* [socket_id, 0, ..] with send_message(net_port, ..): to the server's own *)
(* port.  The other arms only print.                                       *)
(*                                                                         *)
(* As in SchedulerServer, the loop dispatches when recv's result equals    *)
(* DispatchOn (0 in the code; the runs set it to port_receive's 8).        *)
(* Socket::bind, listen, connect and get_socket_mut are never called by    *)
(* the loop and are left out.                                              *)
(***************************************************************************)
EXTENDS Port, Sequences

CONSTANTS
  Requests,     \* the requests clients send (a subset of Msgs)
  SocketCap,    \* capacity of sockets: 64 in the code
  DispatchOn,   \* the result the loop dispatches on: `if result == 0`
  ErrorBase,    \* 0xFFFFFFFF_00000000, scaled as in Kernel
  MaxSends      \* bound: requests clients send

SOCKET_CREATE == 1
SOCKET_BIND == 2
SOCKET_CLOSE == 8
STATE_CREATED == 0

MsgWords == 8
E_PORT_INVALID == ErrorBase + 1

VARIABLES
  port,            \* net_port in the kernel's table
  sockets,         \* sockets[0 .. socket_count - 1] as a sequence
  next_socket_id,  \* SocketTable::next_socket_id
  result,          \* what recv_message last returned
  sends            \* requests clients have sent

vars == <<port, sockets, next_socket_id, result, sends>>

SocketRec == [id : Nat, socket_type : Nat, state : {STATE_CREATED}, owner_pid : Nat]

\* The 8-word reply [v, 0, 0, 0, 0, 0, 0, 0].
Reply(v) == [op |-> v, a1 |-> 0, a2 |-> 0, a3 |-> 0]

\* send_message(own port, reply): port_send pushes it, or returns
\* E_PORT_FULL, which the handler ignores.
SendReply(p, r) == IF IsFull(p) THEN p ELSE PushMessage(p, r)

\* A create_socket that forgets `self.next_socket_id += 1`, used as a mutant.
NextSocketIdStuck(n) == n

\* `self.next_socket_id += 1`, after `let id = self.next_socket_id;`.
NextSocketId(n) == n + 1

\* A create_socket that forgets its `socket_count >= 64` early return, used
\* as a mutant.
CreateSocketNoCap(type, owner) ==
  /\ sockets' = Append(sockets, [id |-> next_socket_id, socket_type |-> type,
                                 state |-> STATE_CREATED, owner_pid |-> owner])
  /\ next_socket_id' = NextSocketId(next_socket_id)

\* SocketTable::create_socket(type, owner) once socket_count < 64:
\* Socket::new(id, type, owner) in state STATE_CREATED at index socket_count.
CreateSocket(type, owner) ==
  /\ Len(sockets) < SocketCap
  /\ sockets' = Append(sockets, [id |-> next_socket_id, socket_type |-> type,
                                 state |-> STATE_CREATED, owner_pid |-> owner])
  /\ next_socket_id' = NextSocketId(next_socket_id)

\* SOCKET_CREATE: `if let Some(socket_id) = create_socket(msg[1], msg[2])`
\* then reply with the socket id; nothing when the table is full.
SocketCreate(m, p) ==
  \/ /\ CreateSocket(m.a1, m.a2)
     /\ port' = SendReply(p, Reply(next_socket_id))
  \/ /\ Len(sockets) >= SocketCap
     /\ port' = p
     /\ UNCHANGED <<sockets, next_socket_id>>

\* SOCKET_BIND .. SOCKET_CLOSE and unknown types print and change nothing.
PrintOnly(p) ==
  /\ port' = p
  /\ UNCHANGED <<sockets, next_socket_id>>

Init ==
  /\ port = NewPort(1, 6)
  /\ sockets = << >>
  /\ next_socket_id = 1
  /\ result = 0
  /\ sends = 0

\* A client's port_send of a request to net_port.
ClientSend(m) ==
  /\ sends < MaxSends
  /\ ~IsFull(port)
  /\ port' = PushMessage(port, m)
  /\ sends' = sends + 1
  /\ UNCHANGED <<sockets, next_socket_id, result>>

\* recv_message(port, &mut msg): SYS_PORT_RECEIVE with len 8.  port_receive
\* pops the front message and returns 8, or returns E_PORT_INVALID on an
\* empty queue.  The result is <<what rax holds, the port after>>.
RecvMessage(p) ==
  IF IsEmpty(p) THEN <<E_PORT_INVALID, p>> ELSE <<MsgWords, PopMessage(p)>>

\* One turn of the main loop: recv_message, then
\* `if result == DispatchOn { match msg[0] .. }`.
ServerStep ==
  LET m == FrontMessage(port)
      p == RecvMessage(port)[2]
  IN /\ result' = RecvMessage(port)[1]
     /\ \/ result' = DispatchOn /\ m.op = SOCKET_CREATE /\ SocketCreate(m, p)
        \/ result' = DispatchOn /\ m.op # SOCKET_CREATE /\ PrintOnly(p)
        \/ result' # DispatchOn /\ PrintOnly(p)
     /\ UNCHANGED sends

Next == (\E m \in Requests : ClientSend(m)) \/ ServerStep

Spec == Init /\ [][Next]_vars
-----------------------------------------------------------------------------
TypeOK ==
  /\ port \in PortRec({1}, {6})
  /\ sockets \in Seq(SocketRec) /\ Len(sockets) <= SocketCap
  /\ next_socket_id \in Nat
  /\ result \in {0, MsgWords, E_PORT_INVALID}
  /\ sends \in 0 .. MaxSends

(* Socket ids are distinct, nonzero and below next_socket_id: the id that  *)
(* SOCKET_CREATE replies with names one socket, across any number of       *)
(* creates, and never the zero id of the unused slots Socket::new(0, 0, 0) *)
(* fills.                                                                  *)
SocketIdsUnique ==
  /\ \A i, j \in DOMAIN sockets : i # j => sockets[i].id # sockets[j].id
  /\ \A i \in DOMAIN sockets : 0 < sockets[i].id /\ sockets[i].id < next_socket_id

=============================================================================
