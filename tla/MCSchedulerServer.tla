------------------------- MODULE MCSchedulerServer -------------------------
EXTENDS SchedulerServer

\* Three tasks, one more than the ready queue and the sleeping list hold; a
\* timer tick, a yield and a sleep of 0 or 1 ticks from each, and one
\* message of an unknown type.
MCTasks == {1, 2, 3}
MCDurations == {0, 1}
MCMsgs ==
  {[kind |-> MSG_TIMER_TICK, pid |-> 0, dur |-> 0], [kind |-> 7, pid |-> 0, dur |-> 0]}
  \cup {[kind |-> MSG_TASK_YIELD, pid |-> p, dur |-> 0] : p \in MCTasks}
  \cup {[kind |-> MSG_TASK_SLEEP, pid |-> p, dur |-> d] : p \in MCTasks, d \in MCDurations}
=============================================================================
