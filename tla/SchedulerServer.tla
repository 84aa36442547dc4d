--------------------------- MODULE SchedulerServer ---------------------------
(***************************************************************************)
(* servers/scheduler_server/src/main.rs: the Scheduler state (a ready ring *)
(* of pids, a sleeping list of (pid, wake_time), current_pid) and the main *)
(* loop: wake_expired_tasks(sys_time()), recv_message on the scheduler's   *)
(* port, then the TIMER_TICK / TASK_YIELD / TASK_SLEEP handlers.           *)
(*                                                                         *)
(* Any process holding SEND on the port may send; a message names the task *)
(* it concerns in msg[1], and the model lets any task of Tasks send        *)
(* YIELD and SLEEP naming itself.  sys_time is the kernel's: the constant  *)
(* 0x1000.  The loop dispatches only when recv's result equals DispatchOn: *)
(* 0 in the code, against the 8 port_receive returns (see LogServer); the  *)
(* runs of this module set it to 8 to examine the handlers themselves.     *)
(***************************************************************************)
EXTENDS Port, SequencesExt

CONSTANTS
  Tasks,        \* pids that send YIELD / SLEEP
  Durations,    \* sleep durations clients ask for (msg[2])
  QueueCap,     \* capacity of ready_queue: 256 in the code
  SleepCap,     \* capacity of sleeping: 256 in the code
  DispatchOn,   \* the result the loop dispatches on: `if result == 0`
  ErrorBase,    \* 0xFFFFFFFF_00000000, scaled as in Kernel
  MaxSends      \* bound: messages clients send

MSG_TIMER_TICK == 1
MSG_TASK_YIELD == 2
MSG_TASK_SLEEP == 3

\* sys_time(): the kernel returns the constant 0x1000.
Now == 4096
MsgWords == 8
E_PORT_INVALID == ErrorBase + 1

VARIABLES
  port,         \* the scheduler's port in the kernel
  ready_queue,  \* ready_queue[queue_head ..] for queue_size entries, oldest first
  sleeping,     \* sleeping[0 .. sleeping_count - 1] as a sequence of <<pid, wake_time>>
  current_pid,  \* Scheduler::current_pid
  result,       \* what recv_message last returned
  sends         \* messages clients have sent

vars == <<port, ready_queue, sleeping, current_pid, result, sends>>

\* Scheduler::enqueue: silently does nothing when queue_size is 256.
Enqueue(q, pid) == IF Len(q) < QueueCap THEN Append(q, pid) ELSE q

\* `self.sleeping[i] = self.sleeping[self.sleeping_count - 1];
\*  self.sleeping_count -= 1;`
SwapRemove(sl, i) == SubSeq([sl EXCEPT ![i] = sl[Len(sl)]], 1, Len(sl) - 1)

\* A wake loop that advances i after a swap, skipping the entry swapped in,
\* used as a mutant.
RECURSIVE WakeSkipSwapped(_, _, _)
WakeSkipSwapped(sl, q, i) ==
  IF i > Len(sl) THEN <<sl, q>>
  ELSE IF sl[i][2] <= Now
       THEN WakeSkipSwapped(SwapRemove(sl, i), Enqueue(q, sl[i][1]), i + 1)
       ELSE WakeSkipSwapped(sl, q, i + 1)

\* A wake loop whose expiry test is `wake_time < now`, off by one at the
\* boundary, used as a mutant.
RECURSIVE WakeStrict(_, _, _)
WakeStrict(sl, q, i) ==
  IF i > Len(sl) THEN <<sl, q>>
  ELSE IF sl[i][2] < Now
       THEN WakeStrict(SwapRemove(sl, i), Enqueue(q, sl[i][1]), i)
       ELSE WakeStrict(sl, q, i + 1)

\* The while loop of wake_expired_tasks from index i: an expired entry is
\* enqueued and replaced by the last one, which is examined next at the same
\* index; a pending entry is skipped.  The result is <<sleeping, ready>>.
RECURSIVE Wake(_, _, _)
Wake(sl, q, i) ==
  IF i > Len(sl) THEN <<sl, q>>
  ELSE IF sl[i][2] <= Now
       THEN Wake(SwapRemove(sl, i), Enqueue(q, sl[i][1]), i)
       ELSE Wake(sl, q, i + 1)

WakeExpiredTasks(sl, q) == Wake(sl, q, 1)

\* `if let Some(next) = scheduler.dequeue() { current_pid = next;
\*  sched_switch(next) }`: nothing changes when the ready queue is empty.
Switch(q) ==
  \/ /\ q = << >>
     /\ ready_queue' = q
     /\ UNCHANGED current_pid
  \/ /\ q # << >>
     /\ ready_queue' = Tail(q)
     /\ current_pid' = Head(q)

\* The handlers, applied to the sleeping list and ready queue as
\* wake_expired_tasks left them at the top of the loop turn.
TimerTick(sl, q) ==
  /\ sleeping' = sl
  /\ Switch(IF current_pid # 0 THEN Enqueue(q, current_pid) ELSE q)

TaskYield(m, sl, q) ==
  /\ sleeping' = sl
  /\ Switch(Enqueue(q, m.pid))

\* A sleep that forgets the sleeping_count < 256 test, used as a mutant.
AddSleeperNoCap(sl, pid, wake) == Append(sl, <<pid, wake>>)

\* `if scheduler.sleeping_count < 256 { sleeping[sleeping_count] = (pid,
\*  wake_time); sleeping_count += 1; }`: dropped when the list is full.
AddSleeper(sl, pid, wake) ==
  IF Len(sl) < SleepCap THEN Append(sl, <<pid, wake>>) ELSE sl

\* wake_time = sys_time() + duration
TaskSleep(m, sl, q) ==
  /\ sleeping' = AddSleeper(sl, m.pid, Now + m.dur)
  /\ Switch(q)

Ignore(sl, q) ==
  /\ sleeping' = sl
  /\ ready_queue' = q
  /\ UNCHANGED current_pid

\* `match msg[0]`
Handle(m, sl, q) ==
  \/ m.kind = MSG_TIMER_TICK /\ TimerTick(sl, q)
  \/ m.kind = MSG_TASK_YIELD /\ TaskYield(m, sl, q)
  \/ m.kind = MSG_TASK_SLEEP /\ TaskSleep(m, sl, q)
  \/ m.kind \notin {MSG_TIMER_TICK, MSG_TASK_YIELD, MSG_TASK_SLEEP} /\ Ignore(sl, q)

Init ==
  /\ port = NewPort(1, 3)
  /\ ready_queue = << >>
  /\ sleeping = << >>
  /\ current_pid = 1
  /\ result = 0
  /\ sends = 0

\* A client's port_send to the scheduler's port.
Send(m) ==
  /\ sends < MaxSends
  /\ ~IsFull(port)
  /\ port' = PushMessage(port, m)
  /\ sends' = sends + 1
  /\ UNCHANGED <<ready_queue, sleeping, current_pid, result>>

\* recv_message(port, &mut msg): SYS_PORT_RECEIVE with len 8.  port_receive
\* pops the front message and returns 8, or returns E_PORT_INVALID on an
\* empty queue.  The result is <<what rax holds, the port after>>.
RecvMessage(p) ==
  IF IsEmpty(p) THEN <<E_PORT_INVALID, p>> ELSE <<MsgWords, PopMessage(p)>>

\* One turn of the main loop, in the code's order.
ServerStep ==
  LET w == WakeExpiredTasks(sleeping, ready_queue) IN
  /\ result' = RecvMessage(port)[1]
  /\ port' = RecvMessage(port)[2]
  /\ \/ result' = DispatchOn /\ Handle(FrontMessage(port), w[1], w[2])
     \/ result' # DispatchOn /\ Ignore(w[1], w[2])
  /\ UNCHANGED sends

Next == (\E m \in Msgs : Send(m)) \/ ServerStep

(* The loop never blocks: recv_message returns at once, so once the server *)
(* runs it keeps taking turns.                                             *)
Spec == Init /\ [][Next]_vars /\ WF_vars(ServerStep)
-----------------------------------------------------------------------------
SleepingPids == {sleeping[i][1] : i \in DOMAIN sleeping}

TypeOK ==
  /\ port \in PortRec({1}, {3})
  /\ ready_queue \in Seq(Tasks \cup {1}) /\ Len(ready_queue) <= QueueCap
  /\ sleeping \in Seq(Tasks \X {Now + d : d \in Durations})
  /\ Len(sleeping) <= SleepCap
  /\ current_pid \in Tasks \cup {1}
  /\ result \in {MsgWords, E_PORT_INVALID, 0}
  /\ sends \in 0 .. MaxSends

\* Sleepers the reference check adds to the state's sleeping list: every
\* list the bound allows, with wake times expired or pending.
SleepLists == UNION {[1 .. n -> Tasks \X {Now, Now + 1}] : n \in 0 .. SleepCap}

(* wake_expired_tasks, with its swap-with-last removal that revisits index *)
(* i, does what the loop is for, on the current sleeping list and ready    *)
(* queue extended by any further sleepers: the sleeping list keeps exactly *)
(* the pending entries, and the ready queue keeps its old entries in       *)
(* front, followed by expired pids, as many as fit below the capacity.     *)
WakeMatchesReference ==
  \A extra \in SleepLists :
    LET sl == sleeping \o extra
        q == ready_queue
        r == WakeExpiredTasks(sl, q)
        expired == SelectSeq(sl, LAMBDA e : e[2] <= Now)
        pending == SelectSeq(sl, LAMBDA e : e[2] > Now)
        woken == SubSeq(r[2], Len(q) + 1, Len(r[2]))
    IN /\ ToBag(r[1]) = ToBag(pending)
       /\ SubSeq(r[2], 1, Len(q)) = q
       /\ Len(r[2]) = IF Len(q) + Len(expired) < QueueCap
                      THEN Len(q) + Len(expired) ELSE QueueCap
       /\ ToBag(woken) \sqsubseteq ToBag([i \in DOMAIN expired |-> expired[i][1]])

(* A task is in one place at a time: it is the current task, or in the    *)
(* ready queue once, or in the sleeping list once.  The TASK_SLEEP handler *)
(* comments "Switch to next ready task" and TIMER_TICK "Put current task   *)
(* back in queue".                                                         *)
EachTaskInOnePlace ==
  /\ IsInjective(ready_queue) /\ IsInjective([i \in DOMAIN sleeping |-> sleeping[i][1]])
  /\ current_pid \notin Range(ready_queue) \cup SleepingPids
  /\ Range(ready_queue) \cap SleepingPids = {}

(* A sleeping entry whose wake_time has come (wake_time <= sys_time(), as  *)
(* for a sleep of duration 0) is eventually removed by wake_expired_tasks, *)
(* which the loop runs at the top of every turn, whatever the swaps of     *)
(* earlier removals moved into its slot.                                   *)
ExpiredSleeperWoken ==
  \A p \in Tasks : (<<p, Now>> \in Range(sleeping)) ~> (<<p, Now>> \notin Range(sleeping))

(* A task the scheduler knows (current_pid, queued, or sleeping) is never *)
(* dropped by a turn of the loop.  TIMER_TICK puts current_pid back in the *)
(* queue before switching, but TASK_YIELD and TASK_SLEEP enqueue the pid   *)
(* named in msg[1] ("Put yielding task back in queue") and then overwrite  *)
(* current_pid with the next ready task: a request handled after an        *)
(* earlier message on the port has already moved current_pid away from    *)
(* its sender switches away from a task that is queued nowhere.            *)
Known == {current_pid} \cup Range(ready_queue) \cup SleepingPids

NoTaskLost == [][\A p \in Known : p \in Known']_vars
=============================================================================
