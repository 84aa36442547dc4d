------------------------------- MODULE Kernel -------------------------------
(***************************************************************************)
(* The kernel object store (kernel/src/globals.rs), the IPC operations of  *)
(* kernel/src/ipc.rs and the dispatch of kernel/src/syscall.rs.            *)
(*                                                                         *)
(* Every handler runs entirely under the KERNEL_STATE spin lock (the ID    *)
(* counter locks are only ever taken inside it), so each syscall is one    *)
(* atomic step.  The caller of every syscall is current_process_id, as in  *)
(* the code: the kernel has no other notion of who is calling.             *)
(***************************************************************************)
EXTENDS Port, SequencesExt

CONSTANTS
  ErrorBase,     \* 0xFFFFFFFF_00000000, scaled: the error codes are ErrorBase + N
  UserTop,       \* 0x800000000000, scaled: the user-space address ceiling
  PortArgs,      \* port ids a caller may pass
  CapArgs,       \* capability ids a caller may pass
  PidArgs,       \* pids a caller may pass
  RightsArgs,    \* rights masks a caller may pass to cap_move
  AddrArgs,      \* entry / stack addresses a caller may pass to sched_spawn
  LenArgs,       \* message lengths a caller may pass to port_send / receive
  MaxPorts,      \* bound: ports the model allocates
  MaxCaps,       \* bound: capabilities the model creates
  MaxProcs,      \* bound: processes the model spawns
  PageSize,      \* 0x1000, scaled: vm_allocate / vm_deallocate alignment
  MaxVmSize,     \* 0x40000000 (1 GB), scaled: the largest vm_allocate
  WordSize,      \* 2^64, scaled: the modulus of u64 arithmetic
  VmArgs,        \* hints / addresses a caller may pass to the VM syscalls
  SizeArgs       \* sizes a caller may pass to the VM syscalls

\* error.rs.  Success payloads (ids, the word count 8, the time 0x1000) all
\* lie below ErrorBase, as the real ones lie below 0xFFFFFFFF_00000000.
E_OK == 0
E_PORT_INVALID == ErrorBase + 1
E_PORT_FULL == ErrorBase + 2
E_NO_RIGHTS == ErrorBase + 3
E_INVAL == ErrorBase + 4
E_NOMEM == ErrorBase + 5
E_CAP_INVALID == ErrorBase + 6
E_PROCESS_NOT_FOUND == ErrorBase + 7
E_ALIGN == ErrorBase + 9
E_INVALID_SYSCALL == ErrorBase + 10
ErrorCodes == {E_PORT_INVALID, E_PORT_FULL, E_NO_RIGHTS, E_INVAL, E_NOMEM, E_ALIGN,
               E_CAP_INVALID, E_PROCESS_NOT_FOUND, E_INVALID_SYSCALL}

\* The capability rights bits of error.rs, as a set of named bits: a mask
\* is the set of its bits, & is \cap and "(a & b) == a" is \subseteq.
CAP_SEND == "SEND"
CAP_RECEIVE == "RECEIVE"
CAP_DESTROY == "DESTROY"
CAP_EXECUTE == "EXECUTE"
RightBits == {CAP_SEND, CAP_RECEIVE, CAP_DESTROY, "DERIVE", "READ", "WRITE", CAP_EXECUTE}
MintRights == {CAP_SEND, CAP_RECEIVE, CAP_DESTROY}

MsgWords == 8       \* a message is 8 u64 words
TimeValue == 4096   \* sys_time returns the constant 0x1000

ASSUME ErrorBase > TimeValue /\ ErrorBase > MaxPorts + MaxCaps + MaxProcs + 2
ASSUME \A r \in RightsArgs : r \subseteq RightBits
ASSUME PageSize < UserTop /\ UserTop < WordSize /\ WordSize <= ErrorBase

VARIABLES
  processes,           \* KernelState.processes: the pids of the descriptors
  ports,               \* KernelState.ports: Seq of Port values
  capabilities,        \* KernelState.capabilities: Seq of Capability values
  current_process_id,  \* KernelState.current_process_id
  next_port_id,        \* NEXT_PORT_ID
  next_cap_id,         \* NEXT_CAP_ID
  next_process_id,     \* NEXT_PROCESS_ID
  ret,                 \* the u64 the last syscall returned in rax
  granted_by           \* history: granted_by[i] is the pid whose call created
                       \* capabilities[i] (not kept by the kernel)

\* KernelState and the id counters: what the kernel keeps.
store == <<processes, ports, capabilities, current_process_id,
           next_port_id, next_cap_id, next_process_id>>
vars == <<store, ret, granted_by>>

CapRec == [id : Nat, owner_pid : Nat, target_id : Nat,
           rights : SUBSET RightBits, revoked : BOOLEAN]

\* Capability::new
NewCap(id, owner, target, rights) ==
  [id |-> id, owner_pid |-> owner, target_id |-> target,
   rights |-> rights, revoked |-> FALSE]

\* `iter().find(|p| p.id == x)`: the index of the first entry with that id,
\* 0 when there is none.
PortIndex(x) == SelectInSeq(ports, LAMBDA p : p.id = x)
CapIndex(x) == SelectInSeq(capabilities, LAMBDA c : c.id = x)
ProcessExists(pid) == pid \in Range(processes)

\* has_capability: some capability of pid names the target, is not revoked
\* and carries the right.
HasCapability(pid, target, right) ==
  \E c \in Range(capabilities) :
    /\ c.owner_pid = pid
    /\ c.target_id = target
    /\ ~c.revoked
    /\ right \in c.rights

\* A subset test written as an overlap test, used as a mutant.
RightsOverlap(req, held) == req \cap held # {}

\* cap_move's subset test `(rights & src_cap.rights) != rights`, negated.
RightsSubset(req, held) == req \subseteq held

\* Faults a counter update could have, used as mutants.
BumpCapIdMissing == next_cap_id' = next_cap_id
BumpPortIdMissing == next_port_id' = next_port_id

\* `*cap_id += 1` and `*next_id += 1` under the NEXT_CAP_ID / NEXT_PORT_ID locks.
BumpCapId == next_cap_id' = next_cap_id + 1
BumpPortId == next_port_id' = next_port_id + 1

\* A handler that returns an error code, or a value it only computed, has
\* changed nothing.
Fail(code) == /\ ret' = code
              /\ UNCHANGED <<store, granted_by>>

(***************************************************************************)
(* port_allocate: a port owned by the caller, and the caller's             *)
(* SEND|RECEIVE|DESTROY capability on it, in one step under the lock.      *)
(***************************************************************************)
PortAllocate ==
  LET cur == current_process_id IN
  /\ Len(ports) < MaxPorts /\ Len(capabilities) < MaxCaps
  /\ ports' = Append(ports, NewPort(next_port_id, cur))
  /\ BumpPortId
  /\ capabilities' = Append(capabilities,
                            NewCap(next_cap_id, cur, next_port_id, MintRights))
  /\ granted_by' = Append(granted_by, cur)
  /\ BumpCapId
  /\ ret' = next_port_id
  /\ UNCHANGED <<processes, current_process_id, next_process_id>>

(***************************************************************************)
(* port_send(port_id, msg, len): the length check, then, under the lock,   *)
(* the port lookup, the SEND right, the full test and the push.            *)
(***************************************************************************)
PortSend(x, m, len) ==
  LET i == PortIndex(x) IN
  \/ len # MsgWords /\ Fail(E_INVAL)
  \/ len = MsgWords /\ i = 0 /\ Fail(E_PORT_INVALID)
  \/ /\ len = MsgWords /\ i # 0
     /\ ~HasCapability(current_process_id, x, CAP_SEND)
     /\ Fail(E_NO_RIGHTS)
  \/ /\ len = MsgWords /\ i # 0
     /\ HasCapability(current_process_id, x, CAP_SEND)
     /\ IsFull(ports[i])
     /\ Fail(E_PORT_FULL)
  \/ /\ len = MsgWords /\ i # 0
     /\ HasCapability(current_process_id, x, CAP_SEND)
     /\ ~IsFull(ports[i])
     /\ ports' = [ports EXCEPT ![i] = PushMessage(@, m)]
     /\ ret' = E_OK
     /\ UNCHANGED <<granted_by, processes, capabilities, current_process_id,
                    next_port_id, next_cap_id, next_process_id>>

(***************************************************************************)
(* port_receive(port_id, buf, len): as port_send with the RECEIVE right;   *)
(* an empty queue returns E_PORT_INVALID, a message returns 8.             *)
(***************************************************************************)
PortReceive(x, len) ==
  LET i == PortIndex(x) IN
  \/ len # MsgWords /\ Fail(E_INVAL)
  \/ len = MsgWords /\ i = 0 /\ Fail(E_PORT_INVALID)
  \/ /\ len = MsgWords /\ i # 0
     /\ ~HasCapability(current_process_id, x, CAP_RECEIVE)
     /\ Fail(E_NO_RIGHTS)
  \/ /\ len = MsgWords /\ i # 0
     /\ HasCapability(current_process_id, x, CAP_RECEIVE)
     /\ IsEmpty(ports[i])
     /\ Fail(E_PORT_INVALID)
  \/ /\ len = MsgWords /\ i # 0
     /\ HasCapability(current_process_id, x, CAP_RECEIVE)
     /\ ~IsEmpty(ports[i])
     /\ ports' = [ports EXCEPT ![i] = PopMessage(@)]
     /\ ret' = MsgWords
     /\ UNCHANGED <<granted_by, processes, capabilities, current_process_id,
                    next_port_id, next_cap_id, next_process_id>>

(***************************************************************************)
(* cap_move(src, dst, rights): the source lookup, owner, revocation,       *)
(* subset and destination checks in that order, then a new capability for  *)
(* dst on the same target; the source is left as it is.  Each rung of the  *)
(* ladder is an action of its own.                                         *)
(***************************************************************************)
CapMoveNoSrc(src, dst, rights) ==
  /\ CapIndex(src) = 0
  /\ Fail(E_CAP_INVALID)

CapMoveNotOwner(src, dst, rights) ==
  LET i == CapIndex(src) IN
  /\ i # 0
  /\ capabilities[i].owner_pid # current_process_id
  /\ Fail(E_NO_RIGHTS)

CapMoveRevoked(src, dst, rights) ==
  LET i == CapIndex(src) IN
  /\ i # 0
  /\ capabilities[i].owner_pid = current_process_id
  /\ capabilities[i].revoked
  /\ Fail(E_CAP_INVALID)

\* cap_move without its owner check, used as a mutant.
SrcUsableAnyOwner(src) ==
  LET i == CapIndex(src) IN
  /\ i # 0
  /\ ~capabilities[i].revoked

\* The checks cap_move makes before the subset test, all passed.
SrcUsable(src) ==
  LET i == CapIndex(src) IN
  /\ i # 0
  /\ capabilities[i].owner_pid = current_process_id
  /\ ~capabilities[i].revoked

CapMoveNotSubset(src, dst, rights) ==
  /\ SrcUsable(src)
  /\ ~RightsSubset(rights, capabilities[CapIndex(src)].rights)
  /\ Fail(E_NO_RIGHTS)

CapMoveNoDst(src, dst, rights) ==
  /\ SrcUsable(src)
  /\ RightsSubset(rights, capabilities[CapIndex(src)].rights)
  /\ ~ProcessExists(dst)
  /\ Fail(E_PROCESS_NOT_FOUND)

CapMoveOk(src, dst, rights) ==
  LET c == capabilities[CapIndex(src)] IN
  /\ SrcUsable(src)
  /\ RightsSubset(rights, c.rights)
  /\ ProcessExists(dst)
  /\ Len(capabilities) < MaxCaps
  /\ capabilities' = Append(capabilities, NewCap(next_cap_id, dst, c.target_id, rights))
  /\ granted_by' = Append(granted_by, current_process_id)
  /\ BumpCapId
  /\ ret' = E_OK
  /\ UNCHANGED <<processes, ports, current_process_id, next_port_id, next_process_id>>

CapMove(src, dst, rights) ==
  \/ CapMoveNoSrc(src, dst, rights)
  \/ CapMoveNotOwner(src, dst, rights)
  \/ CapMoveRevoked(src, dst, rights)
  \/ CapMoveNotSubset(src, dst, rights)
  \/ CapMoveNoDst(src, dst, rights)
  \/ CapMoveOk(src, dst, rights)

\* Capability::revoke
Revoke(c) == [c EXCEPT !.revoked = TRUE]

(***************************************************************************)
(* cap_revoke(cap_id): lookup and owner check, then revoked = true.  It is *)
(* a pub fn of ipc.rs that no syscall number reaches (see Syscall below).  *)
(***************************************************************************)
CapRevoke(x) ==
  LET i == CapIndex(x) IN
  \/ i = 0 /\ Fail(E_CAP_INVALID)
  \/ i # 0 /\ capabilities[i].owner_pid # current_process_id /\ Fail(E_NO_RIGHTS)
  \/ /\ i # 0 /\ capabilities[i].owner_pid = current_process_id
     /\ capabilities' = [capabilities EXCEPT ![i] = Revoke(@)]
     /\ ret' = E_OK
     /\ UNCHANGED <<granted_by, processes, ports, current_process_id,
                    next_port_id, next_cap_id, next_process_id>>

(***************************************************************************)
(* sys_sched_spawn(entry, stack, name): null and user-range checks, then a *)
(* Ready descriptor with the next pid.  Only the pid matters to any other  *)
(* handler; the name, bounds and registers are not modelled.               *)
(***************************************************************************)
SchedSpawn(entry, stack) ==
  \/ (entry = 0 \/ stack = 0) /\ Fail(E_INVAL)
  \/ /\ entry # 0 /\ stack # 0
     /\ (entry >= UserTop \/ stack >= UserTop)
     /\ Fail(E_INVAL)
  \/ /\ entry # 0 /\ stack # 0 /\ entry < UserTop /\ stack < UserTop
     /\ Len(processes) < MaxProcs
     /\ processes' = Append(processes, next_process_id)
     /\ next_process_id' = next_process_id + 1
     /\ ret' = next_process_id
     /\ UNCHANGED <<granted_by, ports, capabilities, current_process_id, next_port_id, next_cap_id>>

\* sys_sched_yield and sys_time return constants.
SchedYield == Fail(E_OK)
Time == Fail(TimeValue)

\* sys_sched_switch(target): the pid must be in the table; no other check.
SchedSwitch(t) ==
  \/ ~ProcessExists(t) /\ Fail(E_PROCESS_NOT_FOUND)
  \/ /\ ProcessExists(t)
     /\ current_process_id' = t
     /\ ret' = E_OK
     /\ UNCHANGED <<granted_by, processes, ports, capabilities, next_port_id, next_cap_id, next_process_id>>

(***************************************************************************)
(* sys_vm_allocate(hint, size, flags): the size and alignment checks, then *)
(* the address 0x1000 + hint, a u64 sum, returned if below the user-space  *)
(* ceiling.  Nothing is mapped and no kernel state changes; flags is never *)
(* read.  `hint & 0xFFF` is hint modulo the page size, a power of two.     *)
(***************************************************************************)
VmAllocate(hint, size) ==
  LET addr == (PageSize + hint) % WordSize IN
  \/ (size = 0 \/ size > MaxVmSize) /\ Fail(E_INVAL)
  \/ size \in 1 .. MaxVmSize /\ hint % PageSize # 0 /\ Fail(E_ALIGN)
  \/ /\ size \in 1 .. MaxVmSize /\ hint % PageSize = 0
     /\ Fail(IF addr < UserTop THEN addr ELSE E_NOMEM)

\* sys_vm_deallocate(addr, size): the size and alignment checks, then E_OK.
VmDeallocate(addr, size) ==
  \/ size = 0 /\ Fail(E_INVAL)
  \/ size # 0 /\ addr % PageSize # 0 /\ Fail(E_ALIGN)
  \/ size # 0 /\ addr % PageSize = 0 /\ Fail(E_OK)

\* An unknown syscall number.
InvalidSyscall == Fail(E_INVALID_SYSCALL)

(***************************************************************************)
(* handle_syscall: one syscall of any number with any arguments, issued by *)
(* whatever user code is running.                                          *)
(***************************************************************************)
Init ==
  /\ processes = << >>
  /\ ports = << >>
  /\ capabilities = << >>
  /\ current_process_id = 0
  /\ next_port_id = 1
  /\ next_cap_id = 1
  /\ next_process_id = 2
  /\ ret = E_OK
  /\ granted_by = << >>

Syscall ==
  \/ PortAllocate
  \/ \E x \in PortArgs, m \in Msgs, len \in LenArgs : PortSend(x, m, len)
  \/ \E x \in PortArgs, len \in LenArgs : PortReceive(x, len)
  \/ \E src \in CapArgs, dst \in PidArgs, r \in RightsArgs : CapMove(src, dst, r)
  \/ \E h \in VmArgs, z \in SizeArgs : VmAllocate(h, z)
  \/ \E a \in VmArgs, z \in SizeArgs : VmDeallocate(a, z)
  \/ \E e, s \in AddrArgs : SchedSpawn(e, s)
  \/ SchedYield
  \/ \E t \in PidArgs : SchedSwitch(t)
  \/ Time
  \/ InvalidSyscall

Spec == Init /\ [][Syscall]_vars

\* The ipc.rs API as kernel code could call it: the syscalls and cap_revoke.
ApiNext == Syscall \/ \E x \in CapArgs : CapRevoke(x)

ApiSpec == Init /\ [][ApiNext]_vars
-----------------------------------------------------------------------------
TypeOK ==
  /\ processes \in Seq(Nat)
  /\ ports \in Seq(PortRec(Nat, Nat))
  /\ capabilities \in Seq(CapRec)
  /\ granted_by \in Seq(Nat) /\ Len(granted_by) = Len(capabilities)
  /\ current_process_id \in Nat
  /\ {next_port_id, next_cap_id, next_process_id} \subseteq Nat
  /\ ret \in Nat

(* Every port's ring stays coherent whatever sends and receives, from any  *)
(* caller, reach it through the id lookup: the count never exceeds         *)
(* max_queue_size and the tail is the head advanced by the count.          *)
RingsConsistent ==
  \A i \in DOMAIN ports :
    /\ ports[i].queue_size <= MaxQueueSize
    /\ ports[i].queue_tail = (ports[i].queue_head + ports[i].queue_size) % RingSlots

(* Every capability names exactly one port.  has_capability compares ids   *)
(* only, and port_send / port_receive take the first port with the id: if  *)
(* two ports ever shared an id, the holder of a capability for one would   *)
(* send to and receive from the other.                                     *)
CapsNameOnePort ==
  \A c \in Range(capabilities) :
    Cardinality({i \in DOMAIN ports : ports[i].id = c.target_id}) = 1

(* spec.md 8 invariant 5: every generated pid, port id and capability id   *)
(* is distinct from all earlier ones of its kind and below its counter, so *)
(* the find-first lookups of cap_move and cap_revoke name a single entry.  *)
IdsFresh ==
  /\ IsInjective(processes) /\ \A p \in Range(processes) : p < next_process_id
  /\ \A i, j \in DOMAIN ports : i # j => ports[i].id # ports[j].id
  /\ \A i, j \in DOMAIN capabilities :
       i # j => capabilities[i].id # capabilities[j].id
  /\ \A p \in Range(ports) : p.id < next_port_id
  /\ \A c \in Range(capabilities) : c.id < next_cap_id

(* spec.md 8 invariant 6, over whole chains of cap_move: however often     *)
(* capabilities are derived, by whichever processes, no capability ever    *)
(* carries a right that port_allocate did not mint (EXECUTE, say).         *)
NoRightsAmplification ==
  \A c \in Range(capabilities) : c.rights \subseteq MintRights

(* Every capability belongs to a process in the process table.  The kernel *)
(* boots with current_process_id = 0 and an empty table (spec.md 6 and 3:  *)
(* init is pid 1), so what the boot code allocates is owned by a pid that  *)
(* sched_switch can never return to.                                       *)
CapOwnersAreProcesses ==
  \A c \in Range(capabilities) : ProcessExists(c.owner_pid)

\* The rights each process holds on each port: one triple per right of a
\* capability that is not revoked.
HeldRights ==
  UNION {{<<c.owner_pid, c.target_id, r>> : r \in c.rights} :
           c \in {d \in Range(capabilities) : ~d.revoked}}

Authority == INSTANCE CapabilityAuthority
               WITH held <- HeldRights, minted <- {p.id : p \in Range(ports)},
                    running <- current_process_id, Pids <- {0} \cup PidArgs,
                    PortIds <- PortArgs, Rights <- RightBits

(* spec.md 4.4 and 8 invariants 4 to 6, over every interleaving of the     *)
(* syscalls and cap_revoke: the kernel implements CapabilityAuthority.     *)
(* Rights on a port appear only for the caller of the port_allocate that   *)
(* created it, and otherwise only through a cap_move by a caller that      *)
(* itself holds them in a live capability, whoever owns the source id      *)
(* passed in and whatever was revoked before.                              *)
CapabilityRefinement == Authority!Spec

\* The pid init_server gives scheduler_server: its second sched_spawn,
\* after log_server's pid 2 (servers/scheduler_server prints "PID 3").
SchedulerPid == 3

(* Only scheduler_server changes the current process, as the comment in    *)
(* sys_sched_switch says ("Only scheduler_server should call this").       *)
SwitchOnlyByScheduler ==
  [][current_process_id' # current_process_id => current_process_id = SchedulerPid]_vars

(* spec.md 8 scenario 5: a process that derived a capability to another    *)
(* can revoke that capability with cap_revoke.                             *)
GrantorCanRevoke ==
  [][\A x \in CapArgs :
       (/\ CapIndex(x) # 0
        /\ granted_by[CapIndex(x)] = current_process_id
        /\ CapRevoke(x))
       => ret' = E_OK]_vars
=============================================================================
