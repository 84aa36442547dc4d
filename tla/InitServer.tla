----------------------------- MODULE InitServer -----------------------------
(***************************************************************************)
(* servers/init_server/src/main.rs composed with the Kernel: _start        *)
(* allocates init's own port, start_log_server and start_scheduler_server *)
(* each allocate a port and spawn a process and record both in SERVICES,   *)
(* then the event loop receives on init's port for ever.  Every syscall is *)
(* a Kernel action run by current_process_id, which nothing has switched   *)
(* away from the boot value when init runs.  pc is init's position in      *)
(* _start; the local variables log_port / sched_port are svc_port.         *)
(*                                                                         *)
(* The syscall wrappers return `result as u32`: an error code              *)
(* 0xFFFFFFFF_0000000N becomes N, modelled by AsU32 on the scaled codes.   *)
(* Names, binary_addr and the printing are left out.  No process holds     *)
(* SEND on init_port but init itself, so the loop's match arms (which only *)
(* print) are never reached and are not modelled.                          *)
(***************************************************************************)
EXTENDS Kernel

CONSTANTS
  LogServerAddr,        \* LOG_SERVER_ADDR 0x100000, scaled below UserTop
  LogServerStack,       \* 0x500000, scaled
  SchedulerServerAddr,  \* SCHEDULER_SERVER_ADDR 0x200000, scaled
  SchedulerServerStack  \* 0x600000, scaled

LOG_SERVER_IDX == 0
SCHEDULER_SERVER_IDX == 1
MAX_SERVICES == 10

SERVICE_STATUS_STOPPED == 0
SERVICE_STATUS_RUNNING == 2

VARIABLES
  pc,         \* where _start is
  init_port,  \* _start's init_port
  svc_port,   \* the port start_*_server allocated before its spawn
  services    \* SERVICES: index -> [port, pid, status]

initVars == <<pc, init_port, svc_port, services>>
allVars == <<vars, initVars>>

ServiceRec == [port : Nat, pid : Nat, status : {SERVICE_STATUS_STOPPED, SERVICE_STATUS_RUNNING}]

\* `result as u32` of allocate_port / spawn_process.
AsU32(v) == IF v >= ErrorBase THEN v - ErrorBase ELSE v

\* The static SERVICES table: every descriptor zeroed and STOPPED.
InitServices ==
  [i \in 0 .. MAX_SERVICES - 1 |->
     [port |-> 0, pid |-> 0, status |-> SERVICE_STATUS_STOPPED]]

\* `let init_port = allocate_port();`
InitAllocatePort ==
  /\ pc = "init_port"
  /\ PortAllocate
  /\ init_port' = AsU32(ret')
  /\ pc' = "log_port"
  /\ UNCHANGED <<svc_port, services>>

\* `let log_port = allocate_port();` / `let sched_port = allocate_port();`
ServiceAllocatePort(at, then) ==
  /\ pc = at
  /\ PortAllocate
  /\ svc_port' = AsU32(ret')
  /\ pc' = then
  /\ UNCHANGED <<init_port, services>>

\* `let pid = spawn_process(addr, stack);` and the descriptor writes:
\* desc.port = the port allocated above, desc.pid = pid, status RUNNING.
ServiceSpawn(at, idx, entry, stack, then) ==
  /\ pc = at
  /\ SchedSpawn(entry, stack)
  /\ services' = [services EXCEPT ![idx] =
                    [port |-> svc_port, pid |-> AsU32(ret'),
                     status |-> SERVICE_STATUS_RUNNING]]
  /\ pc' = then
  /\ UNCHANGED <<init_port, svc_port>>

StartLogServer ==
  \/ ServiceAllocatePort("log_port", "log_spawn")
  \/ ServiceSpawn("log_spawn", LOG_SERVER_IDX, LogServerAddr, LogServerStack, "sched_port")

StartSchedulerServer ==
  \/ ServiceAllocatePort("sched_port", "sched_spawn")
  \/ ServiceSpawn("sched_spawn", SCHEDULER_SERVER_IDX, SchedulerServerAddr,
                  SchedulerServerStack, "loop")

\* recv_message(port, &mut msg): SYS_PORT_RECEIVE with len 8 in rdx.
RecvMessage(p) == PortReceive(p, MsgWords)

\* One turn of the event loop: recv_message(init_port, &mut msg).
EventLoop ==
  /\ pc = "loop"
  /\ RecvMessage(init_port)
  /\ UNCHANGED initVars

InitServerInit ==
  /\ Init
  /\ pc = "init_port"
  /\ init_port = 0
  /\ svc_port = 0
  /\ services = InitServices

InitServerNext == InitAllocatePort \/ StartLogServer \/ StartSchedulerServer \/ EventLoop

InitServerSpec == InitServerInit /\ [][InitServerNext]_allVars
=============================================================================
