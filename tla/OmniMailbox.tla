---------------------------- MODULE OmniMailbox ----------------------------
(***************************************************************************)
(* From a user's Telegram message to its answer: the cloud's mailbox       *)
(* agent_message_queue (webhooks/telegram, agents/heartbeat, agents/result *)
(* of cloud/nexus), the daemon that polls it (core/daemon.py) and the      *)
(* sensory bus (OmniBus).                                                  *)
(*                                                                         *)
(* A message stays pending in the cloud until the daemon reports its       *)
(* result.  The daemon remembers the messages it has put on the bus; what  *)
(* it remembers is lost with the process, and the messages come again.     *)
(* The edge agent is paired and active, and has one chat.  The WebSocket   *)
(* of the daemon has no counterpart in the cloud: it polls.                *)
(***************************************************************************)
EXTENDS OmniBus

CONSTANTS Daemon,    \* the process that runs core/daemon.py
          Limit,     \* messages in an answer to a heartbeat: 10
          Remember,  \* messages the daemon remembers: 100
          Keep,      \* what it keeps of them when there are more: 50
          MaxEmits   \* bound: events of other sources

ASSUME MailboxAssumption ==
  /\ Message \subseteq Nat
  /\ Daemon \in Process
  /\ Limit \in Nat \ {0} /\ Remember \in Nat /\ Keep \in Nat /\ MaxEmits \in Nat

VARIABLES
  mail,      \* the status of each message, in the order of their creation
  reply,     \* the messages in the answer to a heartbeat that is under way
  emitted,   \* _emitted_message_ids of the daemon
  emits,
  answered,  \* history: messages an agent has worked on to the end
  lost       \* history: messages whose event or result failed to get through

mailbox == <<mail, reply, emitted, emits, answered, lost>>
vars == <<bus, mailbox>>

TypeOK ==
  /\ BusTypeOK
  /\ mail \in [Message -> {"none", "pending", "processed"}]
  /\ reply \in SUBSET Message
  /\ emitted \in SUBSET Message
  /\ emits \in 0..MaxEmits
  /\ answered \in SUBSET Message
  /\ lost \in SUBSET Message

Init ==
  /\ BusInit
  /\ mail = [m \in Message |-> "none"]
  /\ reply = {}
  /\ emitted = {}
  /\ emits = 0
  /\ answered = {}
  /\ lost = {}

-----------------------------------------------------------------------------
(* The webhook: a message of the user is put into the mailbox. *)
Webhook(m) ==
  /\ mail[m] = "none"
  /\ \A k \in Message : k < m => mail[k] # "none"
  /\ mail' = [mail EXCEPT ![m] = "pending"]
  /\ UNCHANGED <<bus, reply, emitted, emits, answered, lost>>

(* Older messages that are pending as well. *)
Older(m) == {k \in Message : k < m /\ mail[k] = "pending"}

(* The first messages that are pending. *)
Offer == {m \in Message : mail[m] = "pending" /\ Cardinality(Older(m)) < Limit}

(* A heartbeat: the cloud looks into the mailbox, ... *)
Heartbeat ==
  /\ Daemon \in up
  /\ reply = {}
  /\ reply' = Offer
  /\ UNCHANGED <<bus, mail, emitted, emits, answered, lost>>

HeartbeatFails ==
  /\ reply # {}
  /\ Fault
  /\ reply' = {}
  /\ UNCHANGED <<rows, up, selected, actor, starts, dropped, mail, emitted, emits, answered, lost>>

(* Mutant: nothing of a reply is new if one of its messages is not. *)
BugKnown == reply \cap emitted # {}

(* Everything in the reply has been on the bus.  If anything is new, all of   *)
(* the reply goes on the bus once more.                                       *)
Known == reply \subseteq emitted

Remembered(S) ==
  IF Cardinality(S) <= Remember THEN {S}
  ELSE {T \in SUBSET S : Cardinality(T) = Keep}

(* ... and the daemon has its answer: _process_mesh_payload.                  *)
Receive ==
  /\ reply # {}
  /\ reply' = {}
  /\ \/ /\ Known
        /\ UNCHANGED <<rows, faults, emitted, lost>>
     \/ /\ ~Known
        /\ emitted' \in Remembered(emitted \cup reply)
        /\ Persist(NoSession, reply)
        /\ UNCHANGED <<faults, lost>>
     \/ /\ ~Known                            \* the database stays locked
        /\ emitted' \in Remembered(emitted \cup reply)
        /\ Fault
        /\ lost' = lost \cup reply
        /\ UNCHANGED rows
  /\ UNCHANGED <<up, selected, actor, starts, dropped, mail, emits, answered>>

About(r) == rows[r].about

(* A row that another process takes: nobody there reports its result.         *)
TakeRow(p) ==
  /\ Claim(p)
  /\ lost' = IF p = Daemon THEN lost ELSE lost \cup About(selected[p])
  /\ UNCHANGED <<mail, reply, emitted, emits, answered>>

EndAgent(p, k) ==
  /\ Finish(p, k)
  /\ answered' = answered \cup About(actor[p][k].row)
  /\ UNCHANGED <<mail, reply, emitted, emits, lost>>

(* Mutant: the result is reported when the agent starts. *)
BugStartAgent(p, k) ==
  /\ Start(p, k)
  /\ mail' = [m \in Message |->
       IF m \in About(Head(actor[p][k].inbox)) THEN "processed" ELSE mail[m]]
  /\ UNCHANGED <<reply, emitted, emits, answered, lost>>

StartAgent(p, k) == Start(p, k) /\ UNCHANGED mailbox

(* Mutant: a status that the heartbeat does not know. *)
BugReport(p, k) ==
  LET S == About(actor[p][k].row) IN
  /\ Publish(p, k)
  /\ mail' = [m \in Message |-> IF p = Daemon /\ m \in S THEN "done" ELSE mail[m]]
  /\ UNCHANGED <<faults, reply, emitted, emits, answered, lost>>

(* The output of a row: the daemon reports it to the cloud, which marks the   *)
(* messages; a report that does not get through is not repeated.              *)
Report(p, k) ==
  LET S == About(actor[p][k].row) IN
  /\ Publish(p, k)
  /\ \/ /\ p = Daemon
        /\ mail' = [m \in Message |-> IF m \in S THEN "processed" ELSE mail[m]]
        /\ UNCHANGED <<faults, lost>>
     \/ /\ p = Daemon /\ S # {}
        /\ Fault
        /\ lost' = lost \cup S
        /\ UNCHANGED mail
     \/ /\ p # Daemon
        /\ UNCHANGED <<mail, faults, lost>>
  /\ UNCHANGED <<reply, emitted, emits, answered>>

(* An event of a session.  (One without is like a reply about no message.)    *)
OtherEvent(s) ==
  /\ emits < MaxEmits
  /\ emits' = emits + 1
  /\ Emit(s)
  /\ UNCHANGED <<mail, reply, emitted, answered, lost>>

(* Mutant: the daemon finds again what it remembered. *)
BugEndProcess(p) ==
  /\ End(p)
  /\ reply' = IF p = Daemon THEN {} ELSE reply
  /\ UNCHANGED <<mail, emitted, emits, answered, lost>>

EndProcess(p) ==
  /\ End(p)
  /\ reply' = IF p = Daemon THEN {} ELSE reply
  /\ emitted' = IF p = Daemon THEN {} ELSE emitted
  /\ UNCHANGED <<mail, emits, answered, lost>>

-----------------------------------------------------------------------------
Next ==
  \/ \E m \in Message : Webhook(m)
  \/ Heartbeat \/ HeartbeatFails \/ Receive
  \/ \E s \in Session : OtherEvent(s)
  \/ \E p \in Process :
       \/ (Launch(p) \/ Select(p) \/ ClaimFails(p)) /\ UNCHANGED mailbox
       \/ TakeRow(p)
       \/ \E s \in Session : (IdleTimeout(p, s) \/ Reap(p, s)) /\ UNCHANGED mailbox
       \/ EndProcess(p)
  \/ \E p \in Process, k \in Key : StartAgent(p, k) \/ EndAgent(p, k) \/ Report(p, k)

Spec == Init /\ [][Next]_vars

(* The daemon goes on polling, its dispatcher and its actors go on; a report  *)
(* ends after ten seconds at most.  Nothing is assumed of agents and of other *)
(* processes.                                                                 *)
FairSpec ==
  /\ Spec
  /\ WF_vars(Heartbeat) /\ WF_vars(Receive)
  /\ WF_vars(Select(Daemon) /\ UNCHANGED mailbox)
  /\ WF_vars(TakeRow(Daemon))
  /\ \A k \in Key : WF_vars(StartAgent(Daemon, k)) /\ WF_vars(Report(Daemon, k))

-----------------------------------------------------------------------------
(* A message that is marked as processed has been worked on to the end. *)
ProcessedWasAnswered ==
  \A m \in Message : mail[m] = "processed" => m \in answered

(* The rows of a message whose result the daemon is going to report. *)
UnderWay(m) ==
  {r \in DOMAIN rows :
     /\ m \in About(r)
     /\ \/ rows[r].status = "pending"
        \/ r \in Held(Daemon)
        \/ \E k \in Key : actor[Daemon][k].row = r}

(* A message the daemon will not take again is under way: on the bus, with an *)
(* agent of the daemon, or about to be reported.                              *)
NothingForgotten ==
  \A m \in Message :
    mail[m] = "pending" /\ m \in emitted /\ m \notin lost => UnderWay(m) # {}

(* An agent of the daemon works on a message. *)
AtWork(m) ==
  \E k \in Key :
    LET r == actor[Daemon][k].row IN r # NoRow /\ m \in About(r) /\ ~actor[Daemon][k].ended

Crowded(m) == Cardinality(Older(m)) >= Limit

(* The bound on the table keeps a message off the bus. *)
Unwritten(m) == Len(rows) = MaxRows /\ UnderWay(m) = {}

(* A message does not wait for ever while the daemon is up, whatever crashes  *)
(* and failing polls lie in between: unless its event or its result was lost, *)
(* an agent never ends, or as many older messages as a heartbeat takes stay   *)
(* unanswered.                                                                *)
Delivered ==
  \A m \in Message :
    <>[](Daemon \in up /\ mail[m] = "pending" /\ m \notin lost) =>
      <>[](AtWork(m) \/ Crowded(m) \/ Unwritten(m))
=============================================================================
