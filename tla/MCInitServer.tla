---------------------------- MODULE MCInitServer ----------------------------
(***************************************************************************)
(* Model values for InitServer.  init's boot sequence allocates three      *)
(* ports and spawns two processes, each allocation minting one capability. *)
(* The addresses are LOG/SCHEDULER_SERVER_ADDR and their stacks scaled     *)
(* down by 2^20, below the scaled UserTop as the real ones are below       *)
(* 0x800000000000.                                                         *)
(***************************************************************************)
EXTENDS InitServer

MCErrorBase == 2^30
MCUserTop == 16
=============================================================================
