---------------------------- MODULE MCChatTurns ----------------------------
(* Three messages; over WebSockets, two are of one connection. *)
EXTENDS ChatTurns

CONSTANTS i1, i2, i3, c1, c2

MCConnOf == [i \in Instruction |-> IF i = i2 THEN c2 ELSE c1]
=============================================================================
