---------------------------- MODULE MCDagHandoff ----------------------------
(* Two nodes, one of which also runs agents in a scheduler thread. *)
EXTENDS DagHandoff

CONSTANTS A, B, mainA, jobA, mainB

MCNodeOf == [h \in Thread |-> IF h = mainB THEN B ELSE A]
=============================================================================
