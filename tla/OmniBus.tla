------------------------------ MODULE OmniBus ------------------------------
(***************************************************************************)
(* The sensory bus of an edge machine (core/event_bus.py) and its session  *)
(* actors (core/session_manager.py): the table omni_input_queue of a       *)
(* SQLite file, which any process of the user appends events to, and the   *)
(* processes that have a consumer (the daemon, `jachin shell`, the voice   *)
(* interface), each with a dispatcher and with actors, one for a session.  *)
(*                                                                         *)
(* The table outlives the processes; what a dispatcher has selected and    *)
(* what waits at an actor does not.                                        *)
(***************************************************************************)
EXTENDS Naturals, Sequences, FiniteSets

CONSTANTS Process,    \* the processes with a consumer
          Session,    \* session ids and chat ids that events carry
          NoSession,  \* an event without one gets a session of its own
          Message,    \* what an event may be about
          MaxRows,    \* bound: rows of the table
          MaxFaults   \* bound: ends of processes, and calls that fail

ASSUME BusBoundAssumption == MaxRows \in Nat /\ MaxFaults \in Nat

Row == 1..MaxRows
NoRow == 0

ASSUME SessionAssumption == NoSession \notin Session /\ Session \cap Row = {}

(* The sessions: those of the events, and one for each row without. *)
Key == Session \cup Row

VARIABLES
  rows,      \* the table, by ascending id
  up,        \* the processes that run
  selected,  \* the row each dispatcher has selected
  actor,     \* of each process, the actor of a session
  faults,
  starts,    \* history: how often a process has started to work on a row
  dropped    \* history: rows whose process ended, whose actor's idle time was
             \* up, or that could not be marked as done

bus == <<rows, up, selected, actor, faults, starts, dropped>>

(* An actor: when it has been idle for too long it is about to end ("ending") *)
(* and ends ("reaped"), but it stays in the manager's dictionary.             *)
NoActor == [state |-> "none", inbox |-> <<>>, row |-> NoRow, ended |-> FALSE]

RowType == [session: Session \cup {NoSession}, about: SUBSET Message,
            status: {"pending", "processing", "done"}]

ActorType == [state: {"none", "alive", "ending", "reaped"}, inbox: Seq(Row),
              row: Row \cup {NoRow}, ended: BOOLEAN]

BusTypeOK ==
  /\ rows \in Seq(RowType) /\ Len(rows) <= MaxRows
  /\ up \in SUBSET Process
  /\ selected \in [Process -> Row \cup {NoRow}]
  /\ actor \in [Process -> [Key -> ActorType]]
  /\ faults \in 0..MaxFaults
  /\ starts \in [Process -> [Row -> Nat]]
  /\ dropped \in SUBSET Row

BusInit ==
  /\ rows = <<>>
  /\ up = {}
  /\ selected = [p \in Process |-> NoRow]
  /\ actor = [p \in Process |-> [k \in Key |-> NoActor]]
  /\ faults = 0
  /\ starts = [p \in Process |-> [r \in Row |-> 0]]
  /\ dropped = {}

Fault == faults < MaxFaults /\ faults' = faults + 1

-----------------------------------------------------------------------------
(* A row is appended: emit_omni_input and publish_input. *)
Persist(session, about) ==
  /\ Len(rows) < MaxRows
  /\ rows' = Append(rows, [session |-> session, about |-> about, status |-> "pending"])

(* Events of the desktop, the command line or the microphone. *)
Emit(session) ==
  /\ Persist(session, {})
  /\ UNCHANGED <<up, selected, actor, faults, starts, dropped>>

Launch(p) ==
  /\ p \notin up
  /\ up' = up \cup {p}
  /\ UNCHANGED <<rows, selected, actor, faults, starts, dropped>>

Pending == {r \in DOMAIN rows : rows[r].status = "pending"}

(* Mutant: rows are taken in any order. *)
BugOldest(r) == r \in Pending

(* The order of the dispatcher's SELECT. *)
Oldest(r) == r \in Pending /\ \A q \in Pending : r <= q

(* The dispatcher's SELECT, ... *)
Select(p) ==
  /\ p \in up
  /\ selected[p] = NoRow
  /\ \E r \in Row : Oldest(r) /\ selected' = [selected EXCEPT ![p] = r]
  /\ UNCHANGED <<rows, up, actor, faults, starts, dropped>>

Lane(r) == IF rows[r].session = NoSession THEN r ELSE rows[r].session

(* SessionManager.submit: what comes to an actor that has ended, or is about  *)
(* to, waits for good.                                                        *)
Submit(p, r) ==
  LET k == Lane(r)
      a == actor[p][k] IN
  /\ actor' = [actor EXCEPT ![p][k] =
       [a EXCEPT !.state = IF a.state = "none" THEN "alive" ELSE a.state,
                 !.inbox = Append(a.inbox, r)]]
  /\ dropped' = IF a.state \in {"ending", "reaped"} THEN dropped \cup {r} ELSE dropped

(* Mutant: the row is not marked when it is handed over. *)
BugClaim(p) ==
  LET r == selected[p] IN
  /\ r # NoRow
  /\ selected' = [selected EXCEPT ![p] = NoRow]
  /\ Submit(p, r)
  /\ UNCHANGED <<rows, up, faults, starts>>

(* ... its UPDATE, and the hand-over.  Whether the UPDATE found the row still *)
(* pending makes no difference: also a row that another process has claimed   *)
(* meanwhile is handed over.                                                  *)
Claim(p) ==
  LET r == selected[p] IN
  /\ r # NoRow
  /\ rows' = [rows EXCEPT ![r].status = IF @ = "pending" THEN "processing" ELSE @]
  /\ selected' = [selected EXCEPT ![p] = NoRow]
  /\ Submit(p, r)
  /\ UNCHANGED <<up, faults, starts>>

(* The file stays locked, and the dispatcher begins anew. *)
ClaimFails(p) ==
  /\ selected[p] # NoRow
  /\ Fault
  /\ selected' = [selected EXCEPT ![p] = NoRow]
  /\ UNCHANGED <<rows, up, actor, starts, dropped>>

(* An actor takes the next row of its session and starts an agent. *)
Start(p, k) ==
  LET a == actor[p][k] IN
  /\ a.state = "alive" /\ a.row = NoRow /\ a.inbox # <<>>
  /\ actor' = [actor EXCEPT ![p][k] = [a EXCEPT !.row = Head(a.inbox), !.inbox = Tail(a.inbox)]]
  /\ starts' = [starts EXCEPT ![p][Head(a.inbox)] = @ + 1]
  /\ UNCHANGED <<rows, up, selected, faults, dropped>>

(* Mutant: after an exception the row is not marked. *)
BugFinish(p, k) ==
  LET r == actor[p][k].row IN
  /\ r # NoRow /\ ~actor[p][k].ended
  /\ actor' = [actor EXCEPT ![p][k].ended = TRUE]
  /\ rows' \in {rows, [rows EXCEPT ![r].status = "done"]}
  /\ UNCHANGED <<up, selected, faults, starts, dropped>>

(* The agent has ended, with an answer or an exception, and the row is marked *)
(* done; an UPDATE that fails is only logged.                                 *)
Finish(p, k) ==
  LET r == actor[p][k].row IN
  /\ r # NoRow /\ ~actor[p][k].ended
  /\ actor' = [actor EXCEPT ![p][k].ended = TRUE]
  /\ \/ /\ rows' = [rows EXCEPT ![r].status = "done"]
        /\ UNCHANGED <<faults, dropped>>
     \/ /\ Fault
        /\ dropped' = dropped \cup {r}
        /\ UNCHANGED rows
  /\ UNCHANGED <<up, selected, starts>>

(* The output has been given to those who subscribed to the row's source. *)
Publish(p, k) ==
  /\ actor[p][k].ended
  /\ actor' = [actor EXCEPT ![p][k] = [@ EXCEPT !.row = NoRow, !.ended = FALSE]]
  /\ UNCHANGED <<rows, up, selected, starts, dropped>>

(* SESSION_IDLE_TIMEOUT goes off: nothing waits at the actor, but it does not *)
(* go on at once, and what is put into its queue until it does, stays there.  *)
(* (A session of its own has no further events.)                              *)
IdleTimeout(p, s) ==
  LET a == actor[p][s] IN
  /\ a.state = "alive" /\ a.row = NoRow /\ a.inbox = <<>>
  /\ actor' = [actor EXCEPT ![p][s].state = "ending"]
  /\ UNCHANGED <<rows, up, selected, faults, starts, dropped>>

(* The actor goes on, with a TimeoutError, and ends.                          *)
Reap(p, s) ==
  /\ actor[p][s].state = "ending"
  /\ actor' = [actor EXCEPT ![p][s].state = "reaped"]
  /\ UNCHANGED <<rows, up, selected, faults, starts, dropped>>

Waits(r, a) == \E i \in DOMAIN a.inbox : a.inbox[i] = r

(* What waits at a process's actors, or is worked on by them. *)
Held(p) ==
  {r \in Row : \E k \in Key :
     \/ actor[p][k].state = "alive" /\ Waits(r, actor[p][k])
     \/ actor[p][k].row = r /\ ~actor[p][k].ended}

(* A process ends: the daemon crashes, a shell has its answer.  The rows it   *)
(* held stay "processing" and are not taken up again by anyone.               *)
End(p) ==
  /\ p \in up
  /\ Fault
  /\ up' = up \ {p}
  /\ selected' = [selected EXCEPT ![p] = NoRow]
  /\ actor' = [actor EXCEPT ![p] = [k \in Key |-> NoActor]]
  /\ dropped' = dropped \cup Held(p)
  /\ UNCHANGED <<rows, starts>>

-----------------------------------------------------------------------------
(* A process never starts a row twice, even after it has crashed: the queue   *)
(* delivers to each consumer at most once.                                    *)
AtMostOnce == \A p \in Process, r \in Row : starts[p][r] <= 1

(* A row that is marked as being processed is held by a process that runs,    *)
(* unless its process ended, marking it done failed, or it was handed to an   *)
(* actor whose idle time was up: one that had ended, or that was about to     *)
(* (session_manager.py:43-50).  The code takes up none of these rows again.   *)
ClaimedIsHeld ==
  \A r \in DOMAIN rows :
    rows[r].status = "processing" /\ r \notin dropped => \E p \in up : r \in Held(p)

(* Within a process the events of a session are taken up in the order in      *)
(* which they came.                                                           *)
SessionInOrder ==
  [][\A p \in Process, s \in Session, r \in Row :
       actor'[p][s].row = r /\ actor[p][s].row # r =>
         \A q \in DOMAIN rows :
           rows[q].session = s /\ starts[p][q] > 0 => q < r]_bus
=============================================================================
