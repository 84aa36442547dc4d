------------------------- MODULE CapabilityAuthority -------------------------
(***************************************************************************)
(* What the capability engine promises (spec.md 4.4 and 8 invariants 4 to *)
(* 6), with the kernel's records abstracted away: which rights each        *)
(* process holds on each port.  Authority enters only when the running     *)
(* process mints a fresh port, and flows only from the running process,    *)
(* which can hand another process any part of what it itself holds on a    *)
(* port, and can give up rights it holds.  Any process may come to run.    *)
(***************************************************************************)
CONSTANTS
  Pids,        \* processes
  PortIds,     \* port ids
  Rights,      \* every right a capability can carry
  MintRights   \* what a fresh port gives its creator

VARIABLES
  held,     \* the triples <<pid, port, right>> some live capability grants
  minted,   \* the port ids created so far
  running   \* the process whose calls are being served

vars == <<held, minted, running>>

\* The rights p holds on port t.
Holds(p, t) == {r \in Rights : <<p, t, r>> \in held}

Init ==
  /\ held = {}
  /\ minted = {}
  /\ running \in Pids

\* A fresh port, and all of MintRights on it for its creator.
Mint(t) ==
  /\ t \notin minted
  /\ minted' = minted \cup {t}
  /\ held' = held \cup {<<running, t, r>> : r \in MintRights}
  /\ UNCHANGED running

\* The running process passes part of what it holds on t to q.
Delegate(q, t) ==
  /\ \E R \in SUBSET Holds(running, t) : held' = held \cup {<<q, t, r>> : r \in R}
  /\ UNCHANGED <<minted, running>>

\* The running process gives up some of its rights on t.
Relinquish(t) ==
  /\ \E R \in SUBSET Holds(running, t) : held' = held \ {<<running, t, r>> : r \in R}
  /\ UNCHANGED <<minted, running>>

Run(p) ==
  /\ running' = p
  /\ UNCHANGED <<held, minted>>

Next ==
  \/ \E t \in PortIds : Mint(t) \/ Relinquish(t) \/ \E q \in Pids : Delegate(q, t)
  \/ \E p \in Pids : Run(p)

Spec == Init /\ [][Next]_vars
=============================================================================
