------------------------------ MODULE DagBoard ------------------------------
(***************************************************************************)
(* What the file active.json of an L3 node promises as long as no two      *)
(* updates of it overlap and no planner is cut off while it writes: a      *)
(* board that lists the steps of a DAG, where every operation of           *)
(* l3_node/task_engine takes effect at once and as a whole.                *)
(***************************************************************************)
EXTENDS Naturals, FiniteSets

CONSTANTS Node, Step,
          ResumeLimit  \* the most steps a probe lists

VARIABLES board,   \* what is listed at a node: a status for each step
          intact,  \* no update of the node's file was lost or cut off
          offered  \* the packages that were made, as sets of steps

vars == <<board, intact, offered>>

Status == {"none", "pending", "failed", "completed"}
Unfinished(b) == {s \in Step : b[s] \in {"pending", "failed"}}

Init ==
  /\ board \in [Node -> {[s \in Step |-> status] : status \in {"none", "pending"}}]
  /\ intact = [n \in Node |-> TRUE]
  /\ offered = {}

Put(n, b) == UNCHANGED <<intact, offered>> /\ board' = [board EXCEPT ![n] = b]

(* A sub-agent has finished or failed: its step is marked, if it is listed. *)
Mark(n, s, status) ==
  /\ intact[n]
  /\ board[n][s] # "none"
  /\ Put(n, [board[n] EXCEPT ![s] = status])

(* A resume opens unfinished steps again, never a completed one. *)
Resume(n, S) ==
  /\ intact[n]
  /\ S \subseteq Unfinished(board[n])
  /\ Put(n, [s \in Step |-> IF s \in S THEN "pending" ELSE board[n][s]])

(* A handoff makes a package of the unfinished steps, of as many as the limit *)
(* allows; the board stays.                                                   *)
Offer(n, S) ==
  /\ intact[n] => /\ S \subseteq Unfinished(board[n])
                  /\ S = Unfinished(board[n]) \/ Cardinality(S) = ResumeLimit
  /\ offered' = offered \cup {S}
  /\ UNCHANGED <<board, intact>>

(* A package brings steps that are to be run here, also completed ones. *)
Take(n, S) ==
  /\ intact[n]
  /\ S \in offered
  /\ Put(n, [s \in Step |-> IF s \in S THEN "pending" ELSE board[n][s]])

(* A plan lists its own steps; those listed before keep their status. *)
Replan(n, S) ==
  /\ intact[n]
  /\ Put(n, [s \in Step |-> IF s \notin S THEN "none"
                            ELSE IF board[n][s] = "none" THEN "pending"
                            ELSE board[n][s]])

(* After a lost update nothing is promised of the node any more. *)
Lose(n) ==
  /\ intact' = [intact EXCEPT ![n] = FALSE]
  /\ UNCHANGED offered
  /\ \E b \in [Step -> Status] : board' = [board EXCEPT ![n] = b]

Next ==
  \E n \in Node :
    \/ \E s \in Step, status \in {"failed", "completed"} : Mark(n, s, status)
    \/ \E S \in SUBSET Step : Resume(n, S) \/ Offer(n, S) \/ Take(n, S) \/ Replan(n, S)
    \/ Lose(n)

Spec == Init /\ [][Next]_vars
=============================================================================
