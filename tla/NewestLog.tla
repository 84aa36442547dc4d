------------------------------ MODULE NewestLog ------------------------------
(***************************************************************************)
(* What log_server's ring buffer is for: a log that keeps the newest       *)
(* Capacity entries in the order they were written, the oldest dropped     *)
(* when a new one arrives at capacity.                                     *)
(***************************************************************************)
EXTENDS Naturals, Sequences

CONSTANTS Entries, Capacity

VARIABLE log   \* the retained entries, oldest first

Init == log = << >>

Record(e) ==
  log' = IF Len(log) < Capacity THEN Append(log, e) ELSE Append(Tail(log), e)

Next == \E e \in Entries : Record(e)

Spec == Init /\ [][Next]_log
=============================================================================
