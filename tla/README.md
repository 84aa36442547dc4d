# TLA+ models of the gbsd microkernel

This directory holds TLA+ models of the gbsd capability microkernel (`src/kernel`)
and of the user-space servers that talk to it (`src/servers`). It also holds the TLC
configurations that check them. Every definition is translated from the Rust source.
`PROJECT.json` maps each definition to the lines it models and lists the runs, the
mutants, the findings and the hazards.

## The system

- **Kernel object store** (`kernel/src/globals.rs`). One `KernelState` sits behind the
  spin-lock `KERNEL_STATE`. It holds three `Vec`s (`processes`, `ports` and
  `capabilities`) and `current_process_id`. Three further locks guard the u32 id
  counters: `NEXT_PORT_ID` (starts at 1), `NEXT_CAP_ID` (starts at 1) and
  `NEXT_PROCESS_ID` (starts at 2). The kernel boots with `current_process_id = 0` and
  an empty process table.
- **Port** (`globals.rs`). A ring of 64 message slots with `queue_head`, `queue_tail`
  and `queue_size`:
  - the indices are taken `% 64`;
  - fullness is tested against a separate `max_queue_size` field, also 64.
- **IPC and capabilities** (`kernel/src/ipc.rs`).
  - `port_allocate` creates a port owned by the caller. It also mints a SEND, RECEIVE
    and DESTROY capability for the caller.
  - `port_send` and `port_receive` find the port by id, check the caller's capability
    and push or pop.
  - `cap_move` derives a capability with a subset of the rights for another process.
  - `cap_revoke` marks a capability revoked. Only its owner can do so, and no syscall
    number reaches it.
- **Syscall dispatch** (`kernel/src/syscall.rs`). `handle_syscall` matches the number:
  - `sched_spawn` appends a process with the next pid;
  - `sched_switch` sets `current_process_id`;
  - `sched_yield` does nothing;
  - `sys_time` returns the constant 0x1000;
  - the VM stubs return computed addresses and change nothing.
- **Servers** (`servers/*/src/main.rs`). Each server allocates a port and loops on
  `recv_message`. It dispatches on `msg[0]` only `if result == 0`.

The global lock is held for a whole syscall on a single CPU (spec.md 5). So each
syscall is one atomic step of the model, and any interleaving of syscalls by any
processes is one of the model's behaviours.

## Modules

| module | models | state / actions |
|---|---|---|
| `Port` | `Port` and its methods | no variables; `NewPort`, `IsFull`, `IsEmpty`, `PushMessage`, `FrontMessage`, `PopMessage` as operators on a port record |
| `FifoQueue` | what a port promises (spec.md 4.3) | a bounded FIFO: `Enqueue`, `Dequeue` |
| `CapabilityAuthority` | what the capability engine promises (spec.md 4.4) | `held` (triples pid, port, right), `minted`, `running`: `Mint`, `Delegate` (the running process passes part of what it holds), `Relinquish`, `Run` |
| `NewestLog` | what log_server's ring buffer is for | `log`, the newest `Capacity` entries: `Record` |
| `Kernel` | `KernelState`, the id counters, every handler of `ipc.rs` and `syscall.rs`, the VM stubs included (their u64 address sum on a scaled word) | one action per handler, and for `cap_move` one per rung of its error ladder; `ret` is the value returned in rax; `granted_by` is a history variable |
| `LogServer` | `log_server`: `LogRingBuffer` and the main loop, composed with its port | `buffer`, `head`, `tail`, `count`, `port`; history variables `sent`, `handled`, `received`; `ClientSend` (`port_send`), `ServerStep` (one loop turn: `recv_message`, then LOG_WRITE → `LogRingBuffer::write`, or a print-only arm). Refines `NewestLog` and, on its port, `FifoQueue` |
| `InitServer` | `init_server`'s `_start`, composed with `Kernel` | `pc` (position in `_start`), `init_port`, `svc_port` (the local port of `start_*_server`), `services` (`SERVICES`); `InitAllocatePort`, `StartLogServer`, `StartSchedulerServer` (each an `allocate_port` step and a `spawn_process` step that writes the descriptor), `EventLoop` (`recv_message` on `init_port`). Each step is one Kernel syscall by `current_process_id` |
| `SchedulerServer` | `scheduler_server`: `Scheduler` and the main loop | `ready_queue`, `sleeping` (sequences of pids and `<<pid, wake_time>>`), `current_pid`, the server's `port`; `Send` (a client's `port_send`), `ServerStep` (one loop turn: `wake_expired_tasks(sys_time())`, `recv_message`, then the TIMER_TICK / TASK_YIELD / TASK_SLEEP handler). `Wake` is the wake loop as a RECURSIVE operator |
| `VfsServer` | `vfs_server`: the tmpfs inode table and the main loop | `inodes`, `next_inode_id`, `port`; `ClientSend`, `ServerStep` (recv, then `VFS_OPEN` → `create_file` and a reply, or a print-only arm) |
| `NetstackServer` | `netstack_server`: the socket table and the main loop | `sockets`, `next_socket_id`, `port`; `ClientSend`, `ServerStep` (recv, then `SOCKET_CREATE` → `create_socket` and a reply, or a print-only arm) |
| `Ext4Server` | `ext4_server`: the main loop, composed with its port | `port`, `result` (what `recv_message` returned); history variables `sent`, `handled`; `ClientSend`, `ServerStep` (recv, then the match on `msg[0]`, whose four arms only print) |
| `MCLogServer`, `MCKernel`, `MCExt4Server`, `MCInitServer`, `MCSchedulerServer`, `MCVfsServer`, `MCNetstackServer` | model values and bounds for TLC | |

Modelling choices:
- A message (8 u64 words) is one model value. The kernel copies the words as a unit
  and never inspects them.
- Rights are sets of names: `&` becomes intersection and the subset test becomes
  `\subseteq`.
- Error codes are `ErrorBase + n`. `ErrorBase` stands for 0xFFFFFFFF_00000000, scaled
  to 2^30 to fit TLC's integers. Only the distinctness of codes matters.
- `iter().find` is `SelectInSeq`, which takes the first match.
- Each model keeps the code's order of checks and its early returns. `Fail(code)`
  returns a code and changes no kernel state.
- Every server dispatches only `if result == 0`, and `port_receive` never returns 0
  (see `server_loop`). The server modules take the value the loop dispatches on as
  the constant `DispatchOn`. The code's value is 0, and the `server_loop` run checks
  ext4_server's loop with it. The log, scheduler, vfs and netstack runs set it to 8, the value
  `port_receive` returns for a message, so that the handlers behind the check are
  examined as they would run once the check is fixed.
- Each server's `recv_message` wrapper is `RecvMessage`: `port_receive` with length
  8 on the server's port, giving the value left in rax and the port after.
- The server modules hold only the server's own port, as a `Port` value. A client's
  send is `PushMessage` guarded by `IsFull`, as `port_send` does it. A server
  message is a record of the words its handlers read (`msg[0]` to `msg[3]`).
- A wrapper's `result as u32` (init_server, log_server) is `AsU32`: a scaled error
  code `ErrorBase + n` becomes `n`, the low 32 bits on the scale of `ErrorBase`.
- u64 address arithmetic (`vm_allocate`'s `0x1000 + hint`) is taken modulo
  `WordSize`, 2^64 scaled, so that its wrap is kept.

## Runs

| run | cfg | expect | what it shows |
|---|---|---|---|
| `log` | `MCLogServer.cfg` | pass | see below |
| `kernel` | `MCKernel.cfg` | pass | see below |
| `init_boot` | `MCInitServer.cfg` | violation | `CapOwnersAreProcesses`: init_server's first `allocate_port` runs as the boot pid 0, so the first port and capability belong to no process (spec.md boots with init at pid 1) |
| `kernel_switch` | `MCKernelSwitch.cfg` | violation | `SwitchOnlyByScheduler`: pid 0 switches to a fresh pid, against the comment in `sys_sched_switch` |
| `kernel_grantor` | `MCKernelGrantor.cfg` | violation | `GrantorCanRevoke`: after `cap_move`, the grantor's `cap_revoke` returns E_NO_RIGHTS (spec.md 8 scenario 5) |
| `server_loop` | `MCExt4ServerNoDispatch.cfg` | violation | `EveryRequestHandled` of `Ext4Server`: ext4_server's loop as written (`DispatchOn` 0) pops every block request and dispatches none, because `port_receive` returns 8, not 0. The same test is in every server's loop |
| `scheduler` | `MCSchedulerServer.cfg` | pass | `WakeMatchesReference`: on every reachable sleeping list and ready queue, extended by any further sleepers, the swap-with-last wake loop keeps exactly the pending sleepers and appends the expired pids behind the old queue, up to its capacity. `ExpiredSleeperWoken`: under weak fairness of the loop, an entry whose wake time has come (`<=` now) is eventually removed |
| `scheduler_one_place` | `MCSchedulerEachTaskInOnePlace.cfg` | violation | `EachTaskInOnePlace`: TASK_SLEEP with an empty ready queue leaves the sleeper as `current_pid`; once woken it is also in the ready queue |
| `scheduler_lost` | `MCSchedulerNoTaskLost.cfg` | violation | `NoTaskLost` (an action property): TASK_YIELD enqueues the pid in `msg[1]` and makes the next ready task current without queueing the old `current_pid`; a single TASK_YIELD naming any pid but `current_pid` drops the current task for good (the shortest trace) |
| `vfs` | `MCVfsServer.cfg` | pass | `InodeIdsUnique`: the root keeps id 0 at index 0 and inode ids stay distinct and below `next_inode_id`, over any mix of requests, replies and a full table |
| `vfs_self_reply` | `MCVfsOneFilePerOpen.cfg` | violation | `OneFilePerOpen`: VFS_OPEN replies to the server's own port; the reply `[1, 0, ..]` is read back as a VFS_OPEN and creates a second file owned by pid 0 |
| `netstack` | `MCNetstackServer.cfg` | pass | `SocketIdsUnique`: socket ids stay distinct, positive and below `next_socket_id`, so each id SOCKET_CREATE replies with names one socket. A `create_socket` that forgets `next_socket_id += 1` breaks it |

The `kernel` run checks five properties over every interleaving of syscalls and
`cap_revoke`, by any current process:
- `IdsFresh`: ids are distinct and below their counters.
- `CapsNameOnePort`: every capability names exactly one port.
- `NoRightsAmplification`: no capability ever carries a right beyond SEND, RECEIVE
  and DESTROY, over chains of `cap_move`.
- `RingsConsistent`: every ring stays coherent.
- `CapabilityRefinement`: the kernel implements `CapabilityAuthority` (INSTANCE ...
  WITH). The rights a process holds on a port are the rights of its capabilities
  that are not revoked, and `running` is `current_process_id`. So rights on a port
  appear only for the caller of the `port_allocate` that made it, or through a
  `cap_move` by a caller that holds them itself. A `cap_move` that skipped its owner
  check would pass `NoRightsAmplification` but fails this.

The syscalls include `vm_allocate` and `vm_deallocate`. They change no kernel state,
and the kernel run reaches the wrap of `0x1000 + hint` to address 0 (see the hazards
in `PROJECT.json`).

The `log` run checks log_server with dispatch on 8:
- `LogBufferRefinement`: the ring read from `tail` for `count` entries implements
  `NewestLog` (INSTANCE ... WITH). It holds across the wrap of `head` and the
  overwrite of the oldest entry at capacity.
- `PortFifoRefinement`: the server's port, filled by `port_send` and drained by the
  loop's `port_receive`, implements `FifoQueue`. Each receive returns the oldest
  message, across wrap-around of the port's ring.

The log run states no liveness property. Every request would be handled there only
because `DispatchOn` is 8, while the code tests `result == 0`. That passing result
would hide the bug that `server_loop` shows. So "every request is eventually
dispatched" (`EveryRequestHandled`) is checked only on `Ext4Server`, with the code's
test, where it fails.

Every property of a passing run has a mutant in `PROJECT.json`: a plausible bug in
the code it is about, which TLC finds. Examples are a missing counter bump, an
overlap test in place of the subset test, and an off-by-one in `is_full`.

## Bounds

- **Ring.** 2 slots with the capacity equal to the ring. The ring fills, wraps and
  empties within a few steps, and that is where the `% 64` arithmetic can go wrong.
  The log run sends two different LOG_WRITEs, so an out-of-order delivery would be
  observable.
- **Log buffer.** 2 entries for the code's 16384, and 3 sends, so the buffer wraps
  and overwrites its oldest entry.
- **Kernel tables.** MaxPorts 2, MaxCaps 3, MaxProcs 2.
  - These allow two ports, a derived capability, and a spawned pid to switch to.
  - The argument sets hold valid and invalid ids: port 1 and 2, capabilities 1 to 3,
    pids 0, 2 and 3.
  - Addresses are 0, 1 and UserTop, the value that is just out of range.
  - VM: page 2, 1 GB scaled to 4, 2^64 scaled to 32. Hints 0 (aligned), 1
    (unaligned) and 30 (the last page, whose sum wraps). Sizes 0, 1 and 5 (above
    the limit).
  - Lengths are 7 and 8.
  - The rights arguments are a subset, a full set and an amplifying one (SEND with
    EXECUTE).
- **Servers.** 2 ring slots; 3 or 4 client sends. Three tasks (pids 1 to 3), one more than
  the ready queue and the sleeping list hold, with sleep durations 0 (expires at once) and 1 (pending). Ready queue and sleeping list
  capacity 2, so both limits are reached. An inode table of 3 entries (root and two
  files) and a socket table of 2. These capacities stand for the code's 256: the
  early return at the limit is reached with the sends allowed, and the wake loop's
  swap is exercised on lists of two.
- **init.** init's boot sequence is fixed: three ports, three capabilities and two
  processes. The addresses are the code's, scaled down by 2^20.
- **Duplicate states.** The kernel run uses `VIEW StoreView` (the kernel store
  without `ret`), so states that differ only in the last return value are not
  explored twice.

## Fairness

- `Kernel` has no fairness, since its properties are safety properties.
- `SchedulerServer` and `Ext4Server` assume weak fairness of `ServerStep`. These loops never block or yield: `recv_message`
  returns at once. So once the server runs it keeps taking turns.
- `LogServer`, `VfsServer`, `NetstackServer` and `InitServer` check only safety, with no fairness.

## Not modelled

- ext4_server's `BlockCache` is created but never used: `get`, `get_mut` and `insert` have no
  caller, so `Ext4Server` models the loop alone. Code that never runs has no hazards
  to list.
- The init and log request arms other than LOG_WRITE only print, and they are
  unreachable behind the recv check.
- `Port` has no run of its own. The kernel run checks ring coherence for every port,
  and the log run checks the FIFO refinement on a server's port.
- netstack's self-reply (its SOCKET_CREATE reply also goes to its own
  port) is the same defect as `vfs_self_reply`. It is listed as a hazard and has no
  run of its own.
- vfs `write_file` and the file-handle table, and netstack's bind/connect/send arms,
  only print or are never called from the loop.
- `sys_time` returns the constant 0x1000, marked a dummy in the code, so a sleep of
  any positive duration never ends. `ExpiredSleeperWoken` covers the sleepers whose
  time has come; the never-ending sleep is listed as a hazard with no run.
- `wake_time = sys_time() + duration` wraps (or panics in a debug build) only for a
  `msg[2]` within 0x1000 of 2^64. The durations are 0 and 1, so the wrap is not
  modelled.
- The IDT handlers only halt.
- Boot, heap and paging are a black box in spec.md.
- User-pointer copies are not modelled.
- Counter wrap at 2^32 is not modelled, because the heap is exhausted long before it.
