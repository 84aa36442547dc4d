------------------------- MODULE MCNetstackServer -------------------------
EXTENDS NetstackServer

\* Requests of two clients: a TCP socket_create (type 1 in msg[1], the owner
\* in msg[2]), a bind, a close and an unknown type; and the replies
\* [socket_id, 0, ..] the server can put on its own port.
MCClients == {5, 7}
MCRequests ==
  {[op |-> SOCKET_CREATE, a1 |-> 1, a2 |-> c, a3 |-> 0] : c \in MCClients}
  \cup {[op |-> o, a1 |-> 1, a2 |-> 80, a3 |-> 0] : o \in {SOCKET_BIND, SOCKET_CLOSE, 11}}
MCMsgs == MCRequests \cup {Reply(i) : i \in 1 .. 4}
=============================================================================
