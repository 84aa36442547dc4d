------------------------------ MODULE VfsServer ------------------------------
(***************************************************************************)
(* servers/vfs_server/src/main.rs: the tmpfs inode table and the main     *)
(* loop, composed with the server's port in the kernel.  A message is its  *)
(* first four u64 words as a record [op, a1, a2, a3]; the other four are   *)
(* never read.  VFS_OPEN creates a file and sends the reply [inode_id, 0,  *)
(* ...] with send_message(vfs_port, ..): to the server's own port, which  *)
(* it owns and so holds SEND on.  The other arms only print.              *)
(*                                                                         *)
(* As in SchedulerServer, the loop dispatches when recv's result equals    *)
(* DispatchOn (0 in the code; the runs set it to port_receive's 8).        *)
(* write_file and the file-handle table are never called or touched by the *)
(* loop and are left out.                                                  *)
(***************************************************************************)
EXTENDS Port, Sequences

CONSTANTS
  Requests,     \* the requests clients send (a subset of Msgs)
  InodeCap,     \* capacity of inodes: 256 in the code
  DispatchOn,   \* the result the loop dispatches on: `if result == 0`
  ErrorBase,    \* 0xFFFFFFFF_00000000, scaled as in Kernel
  MaxSends      \* bound: requests clients send

VFS_OPEN == 1
VFS_READ == 3
VFS_WRITE == 4
VFS_STAT == 6

S_IFREG == 32768    \* 0o100000
S_IFDIR == 16384    \* 0o040000

MsgWords == 8
E_PORT_INVALID == ErrorBase + 1

VARIABLES
  port,           \* vfs_port in the kernel's table
  inodes,         \* inodes[0 .. inode_count - 1] as a sequence
  next_inode_id,  \* TmpfsVolume::next_inode_id
  result,         \* what recv_message last returned
  sends,          \* requests clients have sent
  opens           \* history: VFS_OPEN requests clients have sent

vars == <<port, inodes, next_inode_id, result, sends, opens>>

InodeRec == [id : Nat, mode : Nat, owner_pid : Nat, file_type : {0, 1}]

\* The root directory TmpfsVolume::new puts at inodes[0].
RootInode == [id |-> 0, mode |-> S_IFDIR + 493, owner_pid |-> 1, file_type |-> 1]

\* The 8-word reply [v, 0, 0, 0, 0, 0, 0, 0].
Reply(v) == [op |-> v, a1 |-> 0, a2 |-> 0, a3 |-> 0]

\* send_message(own port, reply): port_send pushes it, or returns
\* E_PORT_FULL, which the handler ignores.
SendReply(p, r) == IF IsFull(p) THEN p ELSE PushMessage(p, r)

\* A create_file that forgets `next_inode_id += 1`, used as a mutant.
NextInodeIdStuck(n) == n

NextInodeId(n) == n + 1

\* A create_file that forgets its `inode_count >= 256` early return, used
\* as a mutant.
CreateFileNoCap(owner) ==
  /\ inodes' = Append(inodes, [id |-> next_inode_id, mode |-> 420 + S_IFREG,
                               owner_pid |-> owner, file_type |-> 0])
  /\ next_inode_id' = NextInodeId(next_inode_id)

\* TmpfsVolume::create_file(0o644, owner) once inode_count < 256: the new
\* regular file goes at index inode_count.
CreateFile(owner) ==
  /\ Len(inodes) < InodeCap
  /\ inodes' = Append(inodes, [id |-> next_inode_id, mode |-> 420 + S_IFREG,
                               owner_pid |-> owner, file_type |-> 0])
  /\ next_inode_id' = NextInodeId(next_inode_id)

\* VFS_OPEN: `if let Some(inode_id) = tmpfs.create_file(0o644, msg[3])`
\* then reply with the inode id; nothing when the table is full.
VfsOpen(m, p) ==
  \/ /\ CreateFile(m.a3)
     /\ port' = SendReply(p, Reply(next_inode_id))
  \/ /\ Len(inodes) >= InodeCap
     /\ port' = p
     /\ UNCHANGED <<inodes, next_inode_id>>

\* VFS_WRITE, VFS_READ, VFS_STAT and unknown types print and change nothing.
PrintOnly(p) ==
  /\ port' = p
  /\ UNCHANGED <<inodes, next_inode_id>>

Init ==
  /\ port = NewPort(1, 4)
  /\ inodes = << RootInode >>
  /\ next_inode_id = 1
  /\ result = 0
  /\ sends = 0
  /\ opens = 0

\* A client's port_send of a request to vfs_port.
ClientSend(m) ==
  /\ sends < MaxSends
  /\ ~IsFull(port)
  /\ port' = PushMessage(port, m)
  /\ sends' = sends + 1
  /\ opens' = IF m.op = VFS_OPEN THEN opens + 1 ELSE opens
  /\ UNCHANGED <<inodes, next_inode_id, result>>

\* recv_message(port, &mut msg): SYS_PORT_RECEIVE with len 8.  port_receive
\* pops the front message and returns 8, or returns E_PORT_INVALID on an
\* empty queue.  The result is <<what rax holds, the port after>>.
RecvMessage(p) ==
  IF IsEmpty(p) THEN <<E_PORT_INVALID, p>> ELSE <<MsgWords, PopMessage(p)>>

\* One turn of the main loop: recv_message (port_receive pops the front
\* message and returns 8, or returns E_PORT_INVALID on an empty port), then
\* `if result == DispatchOn { match msg[0] .. }`.
ServerStep ==
  LET m == FrontMessage(port)
      p == RecvMessage(port)[2]
  IN /\ result' = RecvMessage(port)[1]
     /\ \/ result' = DispatchOn /\ m.op = VFS_OPEN /\ VfsOpen(m, p)
        \/ result' = DispatchOn /\ m.op # VFS_OPEN /\ PrintOnly(p)
        \/ result' # DispatchOn /\ PrintOnly(p)
     /\ UNCHANGED <<sends, opens>>

Next == (\E m \in Requests : ClientSend(m)) \/ ServerStep

Spec == Init /\ [][Next]_vars
-----------------------------------------------------------------------------
TypeOK ==
  /\ port \in PortRec({1}, {4})
  /\ inodes \in Seq(InodeRec) /\ Len(inodes) <= InodeCap
  /\ next_inode_id \in Nat
  /\ result \in {0, MsgWords, E_PORT_INVALID}
  /\ sends \in 0 .. MaxSends /\ opens \in 0 .. MaxSends

(* Inode ids stay unique across every sequence of opens, and the root      *)
(* directory keeps id 0 at index 0: the reply a client gets (its file      *)
(* descriptor) then names one inode, and write_file's position lookup      *)
(* finds that one.                                                         *)
InodeIdsUnique ==
  /\ inodes[1] = RootInode
  /\ \A i, j \in DOMAIN inodes : i # j => inodes[i].id # inodes[j].id
  /\ \A i \in DOMAIN inodes : inodes[i].id < next_inode_id

(* Each VFS_OPEN a client sends creates at most one file: the table holds  *)
(* no more regular files than clients asked for.                           *)
OneFilePerOpen ==
  Len(inodes) - 1 <= opens
=============================================================================
