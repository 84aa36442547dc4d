---------------------------- MODULE MCVfsServer ----------------------------
EXTENDS VfsServer

\* Requests of two clients: an open (the owner pid in msg[3]), a write, a
\* read, a stat and an unknown type; and the replies [inode_id, 0, ..] the
\* server can put on its own port.
MCClients == {5, 7}
MCMsgs ==
  {[op |-> VFS_OPEN, a1 |-> 0, a2 |-> 0, a3 |-> c] : c \in MCClients}
  \cup {[op |-> o, a1 |-> 1, a2 |-> 8, a3 |-> 5] : o \in {VFS_WRITE, VFS_READ, VFS_STAT, 11}}
  \cup {Reply(i) : i \in 1 .. 4}
MCRequests == {m \in MCMsgs : m.a3 # 0}
=============================================================================
