----------------------------- MODULE MCDagLock -----------------------------
(* Small instances of DagLock: node ids and tokens are model values.       *)
EXTENDS DagLock, TLC

CONSTANTS n1, n2, n3, p1, p2, p3

(* One coordinator runs the calls of every node. *)
Shared == [n \in Node |-> p1]

(* Each node is a process of its own on the shared database file. *)
OwnProcess ==
  [n \in Node |-> CASE n = n1 -> p1 [] n = n2 -> p2 [] n = n3 -> p3]

TokenSymmetry == Permutations(Token)

(* With one coordinator the nodes are interchangeable too. *)
SharedSymmetry == TokenSymmetry \cup Permutations(Node)
=============================================================================
