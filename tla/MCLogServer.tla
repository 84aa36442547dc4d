----------------------------- MODULE MCLogServer -----------------------------
(***************************************************************************)
(* Model values for LogServer: two LOG_WRITEs from pid 5 with different    *)
(* timestamps, so that order and overwrite are observable, a LOG_FLUSH and *)
(* an unknown type.  A ring of 2 entries and 3 sends make the buffer wrap  *)
(* and overwrite its oldest entry; a port of 2 slots wraps as well.        *)
(***************************************************************************)
EXTENDS LogServer

MCMsgs ==
  {[op |-> LOG_WRITE, a1 |-> t, a2 |-> 1, a3 |-> 5] : t \in {1, 2}} \cup
  {[op |-> o, a1 |-> 0, a2 |-> 0, a3 |-> 0] : o \in {LOG_FLUSH, 9}}
=============================================================================
