----------------------------- MODULE LeaseLock -----------------------------
(***************************************************************************)
(* What l3_node/task_engine/dag_coordinator.py promises its callers about  *)
(* one DAG: a lease.  At any time at most one node is the holder; a node   *)
(* becomes the holder only if there is none, if it already is, or if the   *)
(* lease of the previous one has run out; a lease is never longer than the *)
(* time to live; only the holder gives the lock up.                        *)
(* The detailed specification is DagLock.                                  *)
(***************************************************************************)
EXTENDS Integers

CONSTANTS Node,    \* the node ids that claim the DAG
          NoNode,  \* no holder
          Ttl      \* JACHIN_COORDINATOR_LOCK_TTL

VARIABLES clock, holder, until

vars == <<clock, holder, until>>

Init == clock = 0 /\ holder = NoNode /\ until = 0

(* n takes the lock, or makes the lease it has last longer. *)
Acquire(n) ==
  /\ holder \in {NoNode, n} \/ clock >= until
  /\ holder' = n
  /\ until' \in Nat
  /\ until' <= clock + Ttl
  /\ UNCHANGED clock

Vacate(n) ==
  /\ holder = n
  /\ holder' = NoNode
  /\ until' = 0
  /\ UNCHANGED clock

Tick == clock' = clock + 1 /\ UNCHANGED <<holder, until>>

Next == Tick \/ \E n \in Node : Acquire(n) \/ Vacate(n)

Spec == Init /\ [][Next]_vars
=============================================================================
