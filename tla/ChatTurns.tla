----------------------------- MODULE ChatTurns -----------------------------
(***************************************************************************)
(* The turns of one chat above its instruction queue (SessionQueue), for   *)
(* the three ways by which messages come to an L3 node:                    *)
(*   siq   Lark messages, with JACHIN_IM_SIQ_ENABLE:                       *)
(*         im_channels/im_siq_bridge.py.  An instruction is executed by a  *)
(*         thread of the event loop's executor, which goes on when the     *)
(*         instruction is timed out.                                       *)
(*   pool  Lark messages without it: im_channels/dispatcher.py.  A thread  *)
(*         of a pool holds the lock of the chat; the session queue is not  *)
(*         used.                                                           *)
(*   ws    messages of WebSocket connections, with JACHIN_WS_SIQ_ENABLE:   *)
(*         ws_siq_bridge.py.  A connection waits for its turn to end       *)
(*         before it reads its next message.                               *)
(* Lark turns of all chats keep their histories in one file,               *)
(* l3_lark_sessions.json (lark_session.py), read, opened (which empties    *)
(* it) and written without a lock.  Visitor is a turn of another chat (in  *)
(* PARALLEL mode every turn has a history of its own, and there is none).  *)
(*                                                                         *)
(* A worker executes every instruction by the execute_fn it was started    *)
(* with, that of the instruction that started it (fn, by).  Those of Lark  *)
(* messages differ in the id of the user only, and are not told apart.     *)
(*                                                                         *)
(* A turn adds one entry to a history; that only the last messages are     *)
(* kept is not modelled, nor what the excerpts of messages that had to     *)
(* wait add to the text of a turn, nor the histories of WebSocket turns,   *)
(* which the event loop saves.                                             *)
(***************************************************************************)
EXTENDS SessionQueue

CONSTANTS Connection, ConnOf,   \* the connection of a message (ws)
          Chat, OtherChat, Visitor

ASSUME ConnAssumption == ConnOf \in [Instruction -> Connection]
ASSUME VisitorAssumption == Visitor \notin Instruction \cup {NoInstruction}

(* The chats have keys of their own, other than the ids of instructions. *)
ASSUME ChatAssumption == Chat # OtherChat /\ {Chat, OtherChat} \cap Instruction = {}

(* An id is a uuid4: there are finitely many. *)
ASSUME IdAssumption == IsFiniteSet(Instruction)

Turn == Instruction \cup {Visitor}

(* The keys of the file: in PARALLEL mode every instruction has one (scope). *)
Key == {Chat, OtherChat} \cup Instruction

VARIABLES
  channel,
  inbox,      \* messages on their way from the thread of Lark to the event loop
  count,      \* _im_chat_inflight of the chat
  fn,         \* of each worker, the instruction that it was started with (ws)
  by,         \* of each instruction, the one whose execute_fn executes it (ws)
  turn,       \* where a turn is, its messages, and what it has read of the file
  store,      \* l3_lark_sessions.json
  caller,     \* what the coroutine of a connection does (ws)
  loaded,     \* history: turns that have read the history of Chat, in order
  saved,      \* history: turns that were written to the file
  failed,     \* history: turns that did not end well (ws)
  collected,  \* history: instructions that went with their session object
  outlived,   \* history: a thread went on after its instruction's timeout
  crossed     \* history: a thread used the file while another one was saving

turnVars == <<channel, inbox, count, fn, by, turn, store, caller,
              loaded, saved, failed, collected, outlived, crossed>>
allVars == <<vars, turnVars>>

NoLists == [k \in Key |-> <<>>]
Json(lists) == [form |-> "json", lists |-> lists]
Empty == [form |-> "empty", lists |-> NoLists]
Garbled == [form |-> "garbled", lists |-> NoLists]

TurnPc == {"none", "arrived", "queued", "refused", "given", "agent", "open",
           "write", "over", "dropped"}
Lists == [Key -> Seq(Turn)]

TurnTypeOK ==
  /\ TypeOK
  /\ channel \in {"siq", "pool", "ws"}
  /\ inbox \in Seq(Instruction)
  /\ count \in 0..Cardinality(Instruction)
  /\ fn \in [Loop -> Instruction \cup {NoInstruction}]
  /\ by \in [Instruction -> Instruction \cup {NoInstruction}]
  /\ turn \in [Turn -> [pc: TurnPc, base: Seq(Turn), data: Lists]]
  /\ store \in [form: {"json", "empty", "garbled"}, lists: Lists]
  /\ caller \in [Instruction -> {"none", "waiting", "woken", "gone"}]
  /\ loaded \in Seq(Turn) /\ saved \in SUBSET Turn
  /\ failed \in SUBSET Instruction /\ collected \in SUBSET Instruction
  /\ outlived \in BOOLEAN /\ crossed \in BOOLEAN

TurnInit ==
  /\ Init
  /\ channel \in {"siq", "pool", "ws"}
  /\ channel = "pool" => mode = "SERIAL"
  /\ inbox = <<>>
  /\ count = 0
  /\ fn = [l \in Loop |-> NoInstruction]
  /\ by = [i \in Instruction |-> NoInstruction]
  /\ turn = [t \in Turn |-> [pc |-> IF t # Visitor THEN "none"
                                    ELSE IF mode = "SERIAL" THEN "agent" ELSE "over",
                             base |-> <<>>, data |-> NoLists]]
  /\ store = Json(NoLists)
  /\ caller = [i \in Instruction |-> "none"]
  /\ loaded = <<>>
  /\ saved = {}
  /\ failed = {}
  /\ collected = {}
  /\ outlived = FALSE
  /\ crossed = FALSE

At(t, pc) == turn' = [turn EXCEPT ![t].pc = pc]

-----------------------------------------------------------------------------
(* on_message, in the thread of the Lark connection: the message is counted   *)
(* and handed to the event loop, or to the pool.  (Ids are interchangeable.)  *)
Receive(i) ==
  /\ channel # "ws"
  /\ turn[i].pc = "none"
  /\ i = CHOOSE j \in Instruction : turn[j].pc = "none"
  /\ count' = count + 1
  /\ IF channel = "siq"
       THEN inbox' = Append(inbox, i) /\ At(i, "arrived")
       ELSE UNCHANGED inbox /\ At(i, "given")
  /\ UNCHANGED <<vars, channel, fn, by, store, caller,
                 loaded, saved, failed, collected, outlived, crossed>>

(* A connection reads its next message only when it does not wait.            *)
Reads(c) == \A i \in Instruction : ConnOf[i] = c => caller[i] # "waiting"

(* A message is next at submit_instruction: of Lark messages the first that   *)
(* was received, of others any that a connection reads.                       *)
NextUp(i) ==
  \/ /\ channel = "siq"
     /\ inbox # <<>> /\ i = Head(inbox)
     /\ inbox' = Tail(inbox)
     /\ UNCHANGED caller
  \/ /\ channel = "ws"
     /\ Reads(ConnOf[i])
     /\ caller' = [caller EXCEPT ![i] =
          IF told'[i] = "rejected" THEN "gone" ELSE "waiting"]
     /\ UNCHANGED inbox

(* schedule_im_message_via_siq and schedule_ws_turn_via_siq: a worker that is *)
(* started gets the execute_fn of this message, one that is there keeps the   *)
(* one it has.  A rejected message remains counted.                           *)
SubmitTurn(i) ==
  /\ \/ /\ SubmitParallel(i)
        /\ At(i, "given")
        /\ by' = [by EXCEPT ![i] = IF channel = "ws" THEN i ELSE @]
        /\ UNCHANGED fn
     \/ /\ SubmitQueued(i)
        /\ At(i, "queued")
        /\ fn' = IF channel = "ws" /\ loop' # loop THEN [fn EXCEPT ![task'] = i] ELSE fn
        /\ UNCHANGED by
     \/ /\ SubmitRejected(i)
        /\ At(i, "refused")
        /\ UNCHANGED <<fn, by>>
  /\ NextUp(i)
  /\ UNCHANGED <<channel, count, store, loaded, saved, failed, collected,
                 outlived, crossed>>

(* The worker calls its execute_fn with the instruction. *)
TakeTurn(l) ==
  /\ Take(l)
  /\ At(Head(queue), "given")
  /\ by' = [by EXCEPT ![Head(queue)] = fn[l]]
  /\ UNCHANGED <<channel, inbox, count, fn, store, caller,
                 loaded, saved, failed, collected, outlived, crossed>>

-----------------------------------------------------------------------------
(* The threads of Lark turns: _do_agent_work.                                 *)
Working(t) == turn[t].pc \in {"agent", "open", "write"}
Saving == {t \in Turn : turn[t].pc \in {"open", "write"}}

KeyOf(t) == IF t = Visitor THEN OtherChat ELSE IF mode = "PARALLEL" THEN t ELSE Chat

(* Mutant: the lock is given back before the history is saved. *)
BugAdmitted(t) ==
  channel = "pool" /\ t # Visitor => \A u \in Instruction : turn[u].pc # "agent"

(* The lock of the chat, which is taken only when there is no session queue.  *)
Admitted(t) ==
  channel = "pool" /\ t # Visitor => \A u \in Instruction : ~Working(u)

(* The finally block of _do_agent_work_tracked. *)
Uncount(t) == count' = IF t = Visitor THEN count ELSE IF count <= 1 THEN 0 ELSE count - 1

(* load_lark_session; a file that does not parse is an empty history. *)
Load(t) ==
  /\ channel # "ws"
  /\ turn[t].pc = "given"
  /\ Admitted(t)
  /\ turn' = [turn EXCEPT ![t].pc = "agent", ![t].base = store.lists[KeyOf(t)]]
  /\ loaded' = IF KeyOf(t) = Chat THEN Append(loaded, t) ELSE loaded
  /\ crossed' = (crossed \/ store.form # "json")
  /\ UNCHANGED <<vars, channel, inbox, count, fn, by, store, caller,
                 saved, failed, collected, outlived>>

(* The same text was there less than 30 seconds ago. *)
SkipDuplicate(i) ==
  /\ channel # "ws"
  /\ turn[i].pc = "given"
  /\ Admitted(i)
  /\ At(i, "over")
  /\ Uncount(i)
  /\ UNCHANGED <<vars, channel, inbox, fn, by, store, caller,
                 loaded, saved, failed, collected, outlived, crossed>>

(* The agent has answered or raised, and its turn is in the messages or not.  *)
(* save_lark_session reads the file, and takes one that does not parse for    *)
(* none.                                                                      *)
ReadStore(t) ==
  /\ turn[t].pc = "agent"
  /\ \E base \in {turn[t].base, Append(turn[t].base, t)} :
       /\ base # <<>>
       /\ turn' = [turn EXCEPT ![t] = [pc |-> "open", base |-> base, data |-> store.lists]]
  /\ crossed' = (crossed \/ Saving # {})
  /\ UNCHANGED <<vars, channel, inbox, count, fn, by, store, caller,
                 loaded, saved, failed, collected, outlived>>

(* There are no messages to save; that is so, too, when the user has cleared  *)
(* the conversation: the file keeps it.                                       *)
SaveNothing(t) ==
  /\ turn[t].pc = "agent"
  /\ At(t, "over")
  /\ Uncount(t)
  /\ UNCHANGED <<vars, channel, inbox, fn, by, store, caller,
                 loaded, saved, failed, collected, outlived, crossed>>

(* write_text opens the file, ... *)
OpenStore(t) ==
  /\ turn[t].pc = "open"
  /\ store' = Empty
  /\ At(t, "write")
  /\ UNCHANGED <<vars, channel, inbox, count, fn, by, caller,
                 loaded, saved, failed, collected, outlived, crossed>>

Written(t) == [turn[t].data EXCEPT ![KeyOf(t)] = turn[t].base]

(* ... and writes it; of what another thread has written meanwhile the tail   *)
(* may stay behind.  The answer is sent, and the thread ends.                 *)
WriteStore(t) ==
  /\ turn[t].pc = "write"
  /\ store' \in {Json(Written(t))} \cup (IF store = Empty THEN {} ELSE {Garbled})
  /\ saved' = IF \E k \in DOMAIN turn[t].base : turn[t].base[k] = t
                THEN saved \cup {t} ELSE saved
  /\ turn' = [turn EXCEPT ![t] = [pc |-> "over", base |-> <<>>, data |-> NoLists]]
  /\ Uncount(t)
  /\ UNCHANGED <<vars, channel, inbox, fn, by, caller,
                 loaded, failed, collected, outlived, crossed>>

-----------------------------------------------------------------------------
(* Mutant: the count is taken back also for an instruction that is timed out. *)
BugOverrun(i) ==
  /\ turn[i].pc # "over"
  /\ count' = IF count <= 1 THEN 0 ELSE count - 1
  /\ IF Working(i)
       THEN outlived' = TRUE /\ UNCHANGED turn
       ELSE At(i, "dropped") /\ UNCHANGED outlived

(* An instruction is timed out before its thread has ended: that goes on, or, *)
(* if it had to wait for the executor, never starts, and remains counted.     *)
Overrun(i) ==
  /\ turn[i].pc # "over"
  /\ IF Working(i)
       THEN outlived' = TRUE /\ UNCHANGED turn
       ELSE At(i, "dropped") /\ UNCHANGED outlived
  /\ UNCHANGED count

(* Mutant: the event is not set. *)
BugWakes(j) == UNCHANGED caller

(* done.set() of an execute_fn: it wakes the connection whose message started *)
(* the worker, if it waits.                                                   *)
Wakes(j) == caller' = [caller EXCEPT ![j] = IF @ = "waiting" THEN "woken" ELSE @]

Fails(i) ==
  /\ At(i, "over")
  /\ failed' = failed \cup {i}
  /\ UNCHANGED <<count, caller, outlived>>

(* execute_fn of instruction i ends: its thread has ended, or it is timed     *)
(* out; or the turn of a connection has ended, failed, or was timed out.      *)
TurnEnds(i) ==
  /\ \/ /\ channel = "siq" /\ turn[i].pc = "over"
        /\ UNCHANGED <<turn, count, caller, failed, outlived>>
     \/ /\ channel = "siq"
        /\ Overrun(i)
        /\ UNCHANGED <<caller, failed>>
     \/ /\ channel = "ws"
        /\ At(i, "over")
        /\ Wakes(by[i])
        /\ UNCHANGED <<count, failed, outlived>>
     \/ channel = "ws" /\ Fails(i)
  /\ UNCHANGED <<channel, inbox, fn, by, store, loaded, saved, collected, crossed>>

FinishTurn(l) == Finish(l) /\ TurnEnds(loop[l].inst)

EndParallelTurn(i) == EndParallel(i) /\ TurnEnds(i)

(* A voice turn that is cancelled takes its worker with it. *)
CancelTurn(l) ==
  /\ channel = "ws"
  /\ Cancelled(l)
  /\ Fails(loop[l].inst)
  /\ UNCHANGED <<channel, inbox, fn, by, store, loaded, saved, collected, crossed>>

(* The connection has waited for the timeout of an instruction and ten        *)
(* seconds more, from its submission on.                                      *)
GiveUp(i) ==
  /\ caller[i] = "waiting"
  /\ caller' = [caller EXCEPT ![i] = "gone"]
  /\ UNCHANGED <<vars, channel, inbox, count, fn, by, turn, store,
                 loaded, saved, failed, collected, outlived, crossed>>

CollectSession ==
  /\ Collect
  /\ collected' = collected \cup {queue[k] : k \in DOMAIN queue}
  /\ UNCHANGED <<channel, inbox, count, fn, by, turn, store, caller,
                 loaded, saved, failed, outlived, crossed>>

-----------------------------------------------------------------------------
Worker(l) ==
  \/ TakeTurn(l) \/ FinishTurn(l) \/ CancelTurn(l)
  \/ (Leave(l) /\ UNCHANGED turnVars)

TurnNext ==
  \/ \E i \in Instruction :
       Receive(i) \/ SubmitTurn(i) \/ EndParallelTurn(i) \/ SkipDuplicate(i) \/ GiveUp(i)
  \/ \E t \in Turn : Load(t) \/ ReadStore(t) \/ SaveNothing(t) \/ OpenStore(t) \/ WriteStore(t)
  \/ \E l \in Loop : Worker(l) \/ (IdleTimeout(l) /\ UNCHANGED turnVars)
  \/ CollectSession

TurnSpec == TurnInit /\ [][TurnNext]_allVars

(* The fairness of SessionQueue: an instruction is timed out, if nothing else *)
(* ends it.                                                                   *)
FairTurns == TurnSpec /\ \A l \in Loop : WF_allVars(Worker(l))

-----------------------------------------------------------------------------
(* A list has entries of another one, each once, in the order of that one.    *)
Follows(list, order) ==
  /\ \A k \in DOMAIN list : \E m \in DOMAIN order : order[m] = list[k]
  /\ \A j, k \in DOMAIN list : j < k =>
       /\ list[j] # list[k]
       /\ \E m, n \in DOMAIN order : m < n /\ order[m] = list[j] /\ order[n] = list[k]

(* The history of the chat in the file is that of the turns that were saved,  *)
(* in the order in which they were begun, and no chat loses a turn: unless a  *)
(* thread has outlived its instruction, or threads of several turns used the  *)
(* file at the same time.  In SERIAL mode this rests on the session queue, or *)
(* on the lock of the chat; in PARALLEL mode every turn has its own history.  *)
HistoryInOrder ==
  store.form = "json" /\ ~crossed /\ ~outlived =>
    /\ \A t \in saved : \E k \in DOMAIN store.lists[KeyOf(t)] : store.lists[KeyOf(t)][k] = t
    /\ mode = "SERIAL" =>
         /\ \A k \in DOMAIN store.lists[Chat] : store.lists[Chat][k] \in saved
         /\ Follows(store.lists[Chat], loaded)

(* The messages of the chat that wait, are executed, or whose thread goes on. *)
UnderWay ==
  {i \in Instruction :
     \/ turn[i].pc \in {"arrived", "given", "agent", "open", "write"}
     \/ Queued(i)}

(* Messages that no thread will ever take back from the count: refused by a   *)
(* full queue, timed out before a thread was free, or gone with the session.  *)
Leaked == {i \in Instruction : turn[i].pc \in {"refused", "dropped"}} \cup collected

(* The count of a Lark chat's messages in flight, by which a new message is   *)
(* told that it has to wait, is that of the messages under way and of those   *)
(* that leaked: the chat never looks idle while it is busy.                   *)
InFlightAccounted ==
  channel # "ws" => count = Cardinality(UnderWay) + Cardinality(Leaked)

(* A connection whose message is neither queued nor executed waits for its    *)
(* event only because the worker was started with another message, whose      *)
(* event it set, because the turn failed, or because it went with the session.*)
WaitsAccounted ==
  \A i \in Instruction :
    caller[i] = "waiting" /\ i \notin UnderWay =>
      \/ by[i] \notin {i, NoInstruction}
      \/ i \in failed \cup collected
=============================================================================
