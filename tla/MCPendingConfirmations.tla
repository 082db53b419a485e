----------------------- MODULE MCPendingConfirmations -----------------------
(* A small instance of PendingConfirmations.  *)
EXTENDS PendingConfirmations, TLC

(* Sessions, orders and the places of turns are interchangeable. *)
Symmetry == Permutations(Session) \cup Permutations(Order) \cup Permutations(Slot)
=============================================================================
