----------------------------- MODULE MCExt4Server -----------------------------
(***************************************************************************)
(* Model values for Ext4Server: a read and a write of block 7, a sync and *)
(* an unknown type; a port of 2 slots and 3 sends, so the ring wraps.     *)
(***************************************************************************)
EXTENDS Ext4Server

MCMsgs ==
  {[op |-> o, a1 |-> 7] : o \in {BLOCK_READ, BLOCK_WRITE}} \cup
  {[op |-> o, a1 |-> 0] : o \in {BLOCK_SYNC, 9}}
=============================================================================
