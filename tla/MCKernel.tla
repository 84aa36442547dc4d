------------------------------ MODULE MCKernel ------------------------------
(***************************************************************************)
(* Model values for Kernel.  Two ports of two slots each, three            *)
(* capabilities and two spawned processes (pids 2 and 3) are enough for an *)
(* allocation, a derivation to another process, a chain of two            *)
(* derivations, a full ring and a switch between processes.  Arguments     *)
(* include ids that do not exist yet (port 2, cap 3, pid 3), the boot pid  *)
(* 0 that is never in the table, and the rights mask SEND|EXECUTE of       *)
(* spec.md 8 scenario 4.                                                   *)
(***************************************************************************)
EXTENDS Kernel

MCErrorBase == 2^30
MCUserTop == 16
MCPortArgs == {1, 2}
MCCapArgs == {1, 2, 3}
MCPidArgs == {0, 2, 3}
MCRightsArgs == {{CAP_SEND}, {CAP_SEND, CAP_RECEIVE}, {CAP_SEND, CAP_EXECUTE}}
MCAddrArgs == {0, 1, MCUserTop}
MCLenArgs == {7, 8}
\* VM hints: aligned, unaligned, and the last page below 2^64 (WordSize 32,
\* PageSize 2), whose 0x1000 + hint wraps.  Sizes: 0, valid, above 1 GB.
MCVmArgs == {0, 1, 30}
MCSizeArgs == {0, 1, 5}

\* No action reads ret or granted_by, so states that differ only in them
\* have the same successors: runs that check invariants of the store
\* alone explore the store.
StoreView == store
=============================================================================
