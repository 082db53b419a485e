------------------------- MODULE ChatTurns_proofs -------------------------
(***************************************************************************)
(* Proofs about ChatTurns: that its turns are steps of the instruction     *)
(* queue of SessionQueue, whose theorems hold of them, too; the types; the *)
(* count of the messages in flight; the connections that wait; and the     *)
(* order of the history in the file.                                       *)
(***************************************************************************)
EXTENDS ChatTurns, SessionQueue_proofs

(* Where an instruction is between the channel, the queue, the session     *)
(* object that went, and the workers and tasks that execute it.            *)
Begun == {"given", "agent", "open", "write", "over"}

Executing(i) == i \in parallel \/ \E l \in Loop : loop[l].pc = "busy" /\ loop[l].inst = i

InboxInv ==
  /\ \A k \in DOMAIN inbox : channel = "siq" /\ turn[inbox[k]].pc = "arrived"
  /\ \A j, k \in DOMAIN inbox : j # k => inbox[j] # inbox[k]

QueueTurnInv ==
  /\ \A k \in DOMAIN queue : turn[queue[k]].pc = "queued"
  /\ \A j, k \in DOMAIN queue : j # k => queue[j] # queue[k]

ToldInv ==
  \A i \in Instruction :
    /\ turn[i].pc \in {"none", "arrived"} => told[i] = "none"
    /\ turn[i].pc = "queued" => told[i] = "queued" /\ (Queued(i) \/ i \in collected)
    /\ i \in collected => turn[i].pc = "queued" /\ ~Queued(i)

ExecutingInv ==
  /\ \A l \in Loop : loop[l].pc = "busy" =>
       /\ loop[l].inst \in Instruction
       /\ told[loop[l].inst] = "queued"
       /\ turn[loop[l].inst].pc \in Begun
  /\ \A i \in parallel : turn[i].pc \in Begun

PlaceInv == InboxInv /\ QueueTurnInv /\ ToldInv /\ ExecutingInv

-----------------------------------------------------------------------------
(* The count is that of the messages that have come and whose thread has   *)
(* not ended, which are those under way and those that leaked.             *)
Charged == {i \in Instruction : turn[i].pc \notin {"none", "over"}}

CountInv ==
  /\ channel = "ws" => count = 0
  /\ channel # "ws" => IsFiniteSet(Charged) /\ count = Cardinality(Charged)

-----------------------------------------------------------------------------
(* A worker has the execute_fn of a message, and executes every            *)
(* instruction by it.  No message of a connection gets to a thread of      *)
(* _do_agent_work.                                                         *)
SocketInv ==
  /\ \A l \in Loop : loop[l].pc # "off" => fn[l] # NoInstruction
  /\ saved \cap Instruction = {}
  /\ \A i \in Instruction :
       /\ turn[i].pc \in {"none", "queued", "refused", "given", "over"}
       /\ turn[i].pc \in {"given", "over"} => by[i] # NoInstruction
       /\ caller[i] = "waiting" =>
            /\ turn[i].pc \in {"queued", "given", "over"}
            /\ turn[i].pc = "over" => by[i] # i \/ i \in failed

WaitInv ==
  /\ channel = "ws" => SocketInv
  /\ channel # "ws" => \A i \in Instruction : caller[i] = "none"

-----------------------------------------------------------------------------
(* Only the instruction that is executed has a thread; without a queue     *)
(* only the one that holds the lock of the chat.                           *)
ThreadInv ==
  /\ channel = "siq" /\ ~outlived =>
       \A i \in Instruction : turn[i].pc \in Begun \ {"over"} => Executing(i)
  /\ channel = "pool" =>
       \A i, j \in Instruction : Working(i) /\ Working(j) => i = j

(* While the threads save one after the other, the file is whole unless    *)
(* the one that saves has opened it.                                       *)
StoreInv ==
  ~crossed =>
    /\ \A t, u \in Saving : t = u
    /\ \A t \in Turn : turn[t].pc = "open" => store = Json(turn[t].data)
    /\ \A t \in Turn : turn[t].pc = "write" => store = Empty
    /\ Saving = {} => store.form = "json"

(* What the file holds, or will hold again: what the thread that saves has *)
(* read of it.                                                             *)
Held(savers, lists, turns) ==
  IF savers = {} THEN lists ELSE turns[CHOOSE t \in savers : TRUE].data

Contents == Held(Saving, store.lists, turn)

(* What a turn has read is still the history of its chat, and the history  *)
(* is that of the turns that were saved, the last one begun being at work. *)
BaseInv ==
  \A t \in Turn :
    /\ turn[t].pc = "agent" => turn[t].base = Contents[KeyOf(t)]
    /\ t \in Saving =>
         turn[t].base \in {Contents[KeyOf(t)], Append(Contents[KeyOf(t)], t)}

SavedInv ==
  \A t \in saved :
    /\ turn[t].pc = "over"
    /\ \E k \in DOMAIN Contents[KeyOf(t)] : Contents[KeyOf(t)][k] = t

SerialInv ==
  mode = "SERIAL" =>
    /\ \A k \in DOMAIN Contents[Chat] : Contents[Chat][k] \in saved
    /\ Follows(Contents[Chat], loaded)
    /\ \A i \in Instruction :
         Working(i) => loaded # <<>> /\ loaded[Len(loaded)] = i

HistoryInv == ~crossed /\ ~outlived => BaseInv /\ SavedInv /\ SerialInv

-----------------------------------------------------------------------------
(* A step of the turns is a step of the queue, or leaves it as it is. *)
LEMMA QueueStep == [TurnNext]_allVars => [Next]_vars
<1> SUFFICES ASSUME TurnNext PROVE [Next]_vars
  BY DEF allVars
<1>1. ASSUME NEW i \in Instruction, SubmitTurn(i) PROVE Next
  BY <1>1, Zenon DEF SubmitTurn, Next, Submit
<1>2. ASSUME NEW i \in Instruction, EndParallelTurn(i) PROVE Next
  BY <1>2, Zenon DEF EndParallelTurn, Next
<1>3. ASSUME NEW i \in Instruction, Receive(i) \/ SkipDuplicate(i) \/ GiveUp(i)
      PROVE UNCHANGED vars
  BY <1>3, Zenon DEF Receive, SkipDuplicate, GiveUp
<1>4. ASSUME NEW t \in Turn,
             Load(t) \/ ReadStore(t) \/ SaveNothing(t) \/ OpenStore(t) \/ WriteStore(t)
      PROVE UNCHANGED vars
  BY <1>4, Zenon DEF Load, ReadStore, SaveNothing, OpenStore, WriteStore
<1>5. ASSUME NEW l \in Loop, Worker(l) \/ IdleTimeout(l) PROVE Next
  BY <1>5, Zenon DEF Worker, TakeTurn, FinishTurn, CancelTurn, Next, LoopStep
<1>6. ASSUME CollectSession PROVE Next
  BY <1>6, Zenon DEF CollectSession, Next
<1> QED
  BY <1>1, <1>2, <1>3, <1>4, <1>5, <1>6, Zenon DEF TurnNext

(* The turns of a chat use their instruction queue as SessionQueue says:   *)
(* the specification of the composed system implies that of the queue.     *)
THEOREM TurnsRunTheQueue == TurnSpec => Spec
<1>1. TurnInit => Init
  BY DEF TurnInit
<1> QED
  BY <1>1, QueueStep, PTL DEF TurnSpec, Spec

(* Instructions of a chat are executed in the order in which they were     *)
(* accepted, over all the channels by which they come.                     *)
THEOREM TurnsFifo == TurnSpec => []Fifo
  BY TurnsRunTheQueue, QueueFifo, PTL

(* A chat executes one instruction at a time in SERIAL mode, MaxParallel   *)
(* and one in PARALLEL mode, over all the channels by which they come.     *)
THEOREM TurnsConcurrency == TurnSpec => []Concurrency
  BY TurnsRunTheQueue, QueueConcurrency, PTL

-----------------------------------------------------------------------------
(* Types.  The bound of the count follows from CountInv. *)
TurnRecord == [pc: TurnPc, base: Seq(Turn), data: Lists]
StoreRecord == [form: {"json", "empty", "garbled"}, lists: Lists]

Typed ==
  /\ TypeOK
  /\ channel \in {"siq", "pool", "ws"}
  /\ inbox \in Seq(Instruction)
  /\ count \in Nat
  /\ fn \in [Loop -> Instruction \cup {NoInstruction}]
  /\ by \in [Instruction -> Instruction \cup {NoInstruction}]
  /\ turn \in [Turn -> TurnRecord]
  /\ store \in StoreRecord
  /\ caller \in [Instruction -> {"none", "waiting", "woken", "gone"}]
  /\ loaded \in Seq(Turn) /\ saved \in SUBSET Turn
  /\ failed \in SUBSET Instruction /\ collected \in SUBSET Instruction
  /\ outlived \in BOOLEAN /\ crossed \in BOOLEAN

(* A worker that is busy is so with an instruction. *)
BusyTyped == \A l \in Loop : loop[l].pc = "busy" => loop[l].inst \in Instruction

LEMMA Keys ==
  ASSUME NEW t \in Turn PROVE KeyOf(t) \in Key
  BY DEF KeyOf, Key, Turn

LEMMA NoListsTyped == NoLists \in Lists
<1>1. <<>> \in Seq(Turn)
  OBVIOUS
<1> QED
  BY <1>1 DEF NoLists, Lists

(* What At does. *)
LEMMA AtPc ==
  ASSUME turn \in [Turn -> TurnRecord], NEW t, NEW p \in TurnPc, At(t, p)
  PROVE  /\ turn' \in [Turn -> TurnRecord]
         /\ \A u \in Turn : /\ turn'[u].pc = IF u = t THEN p ELSE turn[u].pc
                            /\ turn'[u].base = turn[u].base
                            /\ turn'[u].data = turn[u].data
         /\ \A u \in Turn : u # t => turn'[u] = turn[u]
<1>1. turn' = [turn EXCEPT ![t].pc = p]
  BY DEF At
<1> QED
  BY <1>1 DEF TurnRecord

LEMMA Pcs == \A p \in {"none", "arrived", "queued", "refused", "given", "agent", "open",
                       "write", "over", "dropped"} : p \in TurnPc
  BY DEF TurnPc

LEMMA BusyStep == TypeOK /\ BusyTyped /\ [Next]_vars => BusyTyped'
<1> SUFFICES ASSUME TypeOK, BusyTyped, [Next]_vars PROVE BusyTyped'
  OBVIOUS
<1> USE DEF TypeOK, BusyTyped
<1>1. ASSUME NEW i \in Instruction, SubmitQueued(i) PROVE BusyTyped'
  BY <1>1 DEF SubmitQueued, StartWorker, Waiting
<1>2. ASSUME NEW l \in Loop, Take(l) PROVE BusyTyped'
  <2>1. Head(queue) \in Instruction
    BY <1>2 DEF Take
  <2> QED
    BY <1>2, <2>1 DEF Take
<1>3. ASSUME NEW l \in Loop, IdleTimeout(l) \/ End(l) \/ Finish(l) PROVE BusyTyped'
  BY <1>3 DEF IdleTimeout, End, Finish, Leaving, Off, Waiting
<1>4. ASSUME UNCHANGED loop PROVE BusyTyped'
  BY <1>4
<1> QED
  BY <1>1, <1>2, <1>3, <1>4
     DEF Next, Submit, SubmitParallel, SubmitRejected, EndParallel, LoopStep, Leave,
         Cancelled, Collect, vars, session, history

LEMMA EndTyped ==
  ASSUME Typed, TypeOK', NEW i \in Instruction, TurnEnds(i)
  PROVE  Typed'
<1>1. turn' \in [Turn -> TurnRecord] /\ failed' \in SUBSET Instruction
      /\ outlived' \in BOOLEAN /\ count' \in Nat
  <2>1. CASE UNCHANGED turn
    BY <2>1 DEF TurnEnds, Overrun, Fails, Typed
  <2>2. CASE At(i, "over") \/ At(i, "dropped")
    <3>1. turn' \in [Turn -> TurnRecord]
      BY <2>2, AtPc, Pcs DEF Typed
    <3> QED
      BY <3>1 DEF TurnEnds, Overrun, Fails, Typed
  <2> QED
    BY <2>1, <2>2 DEF TurnEnds, Overrun, Fails
<1>2. caller' \in [Instruction -> {"none", "waiting", "woken", "gone"}]
  BY DEF TurnEnds, Overrun, Fails, Wakes, Typed
<1> QED
  BY <1>1, <1>2 DEF TurnEnds, Typed

LEMMA TypedStep == Typed /\ BusyTyped /\ [TurnNext]_allVars => Typed'
<1> SUFFICES ASSUME Typed, BusyTyped, [TurnNext]_allVars PROVE Typed'
  OBVIOUS
<1>0. TypeOK'
  BY QueueStep, StepTypes DEF Typed
<1>1. ASSUME NEW i \in Instruction, Receive(i) PROVE Typed'
  <2>1. i \in Turn /\ turn' \in [Turn -> TurnRecord]
    BY <1>1, AtPc, Pcs DEF Receive, Typed, Turn
  <2>2. inbox' \in Seq(Instruction) /\ count' \in Nat
    <3>1. inbox \in Seq(Instruction) /\ Append(inbox, i) \in Seq(Instruction)
          /\ count + 1 \in Nat
      BY DEF Typed
    <3>2. (inbox' = inbox \/ inbox' = Append(inbox, i)) /\ count' = count + 1
      BY <1>1, Zenon DEF Receive
    <3> QED
      BY <3>1, <3>2
  <2> QED
    BY <1>0, <1>1, <2>1, <2>2 DEF Receive, Typed
<1>2. ASSUME NEW i \in Instruction, SubmitTurn(i) PROVE Typed'
  <2>1. turn' \in [Turn -> TurnRecord]
    BY <1>2, AtPc, Pcs DEF SubmitTurn, Typed
  <2>2. /\ fn' \in [Loop -> Instruction \cup {NoInstruction}]
        /\ by' \in [Instruction -> Instruction \cup {NoInstruction}]
    BY <1>2 DEF SubmitTurn, Typed
  <2>3. inbox' \in Seq(Instruction)
    <3>1. inbox \in Seq(Instruction) /\ (inbox # <<>> => Tail(inbox) \in Seq(Instruction))
      BY DEF Typed
    <3>2. inbox' = inbox \/ (inbox # <<>> /\ inbox' = Tail(inbox))
      BY <1>2 DEF SubmitTurn, NextUp
    <3> QED
      BY <3>1, <3>2
  <2>4. caller' \in [Instruction -> {"none", "waiting", "woken", "gone"}]
    BY <1>2 DEF SubmitTurn, NextUp, Typed
  <2> QED
    BY <1>0, <1>2, <2>1, <2>2, <2>3, <2>4 DEF SubmitTurn, Typed
<1>3. ASSUME NEW l \in Loop, TakeTurn(l) PROVE Typed'
  <2>1. turn' \in [Turn -> TurnRecord]
    BY <1>3, AtPc, Pcs DEF TakeTurn, Typed
  <2>2. by' \in [Instruction -> Instruction \cup {NoInstruction}]
    BY <1>3 DEF TakeTurn, Typed
  <2> QED
    BY <1>0, <1>3, <2>1, <2>2 DEF TakeTurn, Typed
<1>4. ASSUME NEW t \in Turn, Load(t) PROVE Typed'
  <2>1. store.lists[KeyOf(t)] \in Seq(Turn)
    BY Keys DEF Typed, StoreRecord, Lists
  <2>2. turn' \in [Turn -> TurnRecord]
    <3>1. turn' = [turn EXCEPT ![t].pc = "agent", ![t].base = store.lists[KeyOf(t)]]
      BY <1>4 DEF Load
    <3> QED
      BY <2>1, <3>1, Pcs DEF Typed, TurnRecord
  <2>3. loaded' \in Seq(Turn) /\ crossed' \in BOOLEAN
    BY <1>4 DEF Load, Typed
  <2> QED
    BY <1>0, <1>4, <2>2, <2>3 DEF Load, Typed
<1>5. ASSUME NEW t \in Turn, SkipDuplicate(t) \/ SaveNothing(t) PROVE Typed'
  <2>1. turn' \in [Turn -> TurnRecord]
    BY <1>5, AtPc, Pcs DEF SkipDuplicate, SaveNothing, Typed
  <2>2. count' \in Nat
    BY <1>5 DEF SkipDuplicate, SaveNothing, Uncount, Typed
  <2> QED
    BY <1>0, <1>5, <2>1, <2>2 DEF SkipDuplicate, SaveNothing, Typed
<1>6. ASSUME NEW t \in Turn, ReadStore(t) PROVE Typed'
  <2>1. turn' \in [Turn -> TurnRecord] /\ crossed' \in BOOLEAN
    <3>1. PICK base \in {turn[t].base, Append(turn[t].base, t)} :
            turn' = [turn EXCEPT ![t] = [pc |-> "open", base |-> base, data |-> store.lists]]
      BY <1>6 DEF ReadStore
    <3>2. base \in Seq(Turn) /\ store.lists \in Lists
      <4>1. turn[t].base \in Seq(Turn) /\ store.lists \in Lists
        BY DEF Typed, TurnRecord, StoreRecord
      <4>2. Append(turn[t].base, t) \in Seq(Turn)
        BY <4>1
      <4> QED
        BY <4>1, <4>2
    <3>3. [pc |-> "open", base |-> base, data |-> store.lists] \in TurnRecord
      BY <3>2, Pcs DEF TurnRecord
    <3> QED
      BY <1>6, <3>1, <3>3 DEF Typed, ReadStore
  <2> QED
    BY <1>0, <1>6, <2>1 DEF ReadStore, Typed
<1>7. ASSUME NEW t \in Turn, OpenStore(t) PROVE Typed'
  <2>1. turn' \in [Turn -> TurnRecord]
    BY <1>7, AtPc, Pcs DEF OpenStore, Typed
  <2>2. store' \in StoreRecord
    BY <1>7, NoListsTyped DEF OpenStore, Empty, StoreRecord
  <2> QED
    BY <1>0, <1>7, <2>1, <2>2 DEF OpenStore, Typed
<1>8. ASSUME NEW t \in Turn, WriteStore(t) PROVE Typed'
  <2>1. turn[t].base \in Seq(Turn) /\ turn[t].data \in Lists
    BY DEF Typed, TurnRecord
  <2>2. Written(t) \in Lists
    BY <2>1, Keys DEF Written, Lists
  <2>3. store' \in StoreRecord
    BY <1>8, <2>2, NoListsTyped DEF WriteStore, Json, Garbled, StoreRecord
  <2>4. turn' \in [Turn -> TurnRecord]
    <3>1. turn' = [turn EXCEPT ![t] = [pc |-> "over", base |-> <<>>, data |-> NoLists]]
      BY <1>8 DEF WriteStore
    <3>2. [pc |-> "over", base |-> <<>>, data |-> NoLists] \in TurnRecord
      BY NoListsTyped, Pcs DEF TurnRecord
    <3> QED
      BY <3>1, <3>2 DEF Typed
  <2>5. count' \in Nat /\ saved' \in SUBSET Turn
    BY <1>8 DEF WriteStore, Uncount, Typed
  <2> QED
    BY <1>0, <1>8, <2>3, <2>4, <2>5 DEF WriteStore, Typed
<1>9. ASSUME NEW l \in Loop, FinishTurn(l) PROVE Typed'
  <2>1. loop[l].inst \in Instruction
    BY <1>9 DEF FinishTurn, Finish, BusyTyped
  <2> QED
    BY <1>0, <1>9, <2>1, EndTyped DEF FinishTurn
<1>10. ASSUME NEW i \in Instruction, EndParallelTurn(i) PROVE Typed'
  BY <1>0, <1>10, EndTyped DEF EndParallelTurn
<1>11. ASSUME NEW l \in Loop, CancelTurn(l) PROVE Typed'
  <2>1. loop[l].inst \in Instruction
    BY <1>11 DEF CancelTurn, Cancelled, BusyTyped
  <2>2. turn' \in [Turn -> TurnRecord]
    BY <1>11, AtPc, Pcs DEF CancelTurn, Fails, Typed
  <2> QED
    BY <1>0, <1>11, <2>1, <2>2 DEF CancelTurn, Fails, Typed
<1>12. ASSUME NEW i \in Instruction, GiveUp(i) PROVE Typed'
  BY <1>0, <1>12 DEF GiveUp, Typed
<1>13. ASSUME CollectSession PROVE Typed'
  BY <1>0, <1>13 DEF CollectSession, Typed, TypeOK
<1>14. ASSUME UNCHANGED turnVars PROVE Typed'
  BY <1>0, <1>14 DEF turnVars, Typed
<1>15. Instruction \subseteq Turn
  BY DEF Turn
<1> QED
  BY <1>1, <1>2, <1>3, <1>4, <1>5, <1>6, <1>7, <1>8, <1>9, <1>10, <1>11, <1>12, <1>13,
     <1>14, <1>15 DEF TurnNext, Worker, allVars

LEMMA TypedInit == TurnInit => Typed /\ BusyTyped
<1> SUFFICES ASSUME TurnInit PROVE Typed /\ BusyTyped
  OBVIOUS
<1>1. TypeOK
  BY InitTypes DEF TurnInit
<1>2. turn \in [Turn -> TurnRecord]
  <2>1. \A t \in Turn : [pc |-> IF t # Visitor THEN "none"
                                ELSE IF mode = "SERIAL" THEN "agent" ELSE "over",
                         base |-> <<>>, data |-> NoLists] \in TurnRecord
    <3>1. <<>> \in Seq(Turn)
      OBVIOUS
    <3> QED
      BY <3>1, NoListsTyped, Pcs DEF TurnRecord
  <2> QED
    BY <2>1, Zenon DEF TurnInit
<1>3. store \in StoreRecord
  BY NoListsTyped DEF TurnInit, Json, StoreRecord
<1>4. inbox \in Seq(Instruction) /\ loaded \in Seq(Turn)
  <2>1. <<>> \in Seq(Instruction) /\ <<>> \in Seq(Turn)
    OBVIOUS
  <2> QED
    BY <2>1 DEF TurnInit
<1>5. BusyTyped
  BY DEF TurnInit, Init, BusyTyped, Off
<1>6. /\ fn \in [Loop -> Instruction \cup {NoInstruction}]
      /\ by \in [Instruction -> Instruction \cup {NoInstruction}]
      /\ caller \in [Instruction -> {"none", "waiting", "woken", "gone"}]
  BY DEF TurnInit
<1> QED
  BY <1>1, <1>2, <1>3, <1>4, <1>5, <1>6 DEF TurnInit, Typed

-----------------------------------------------------------------------------
(* What the threads do to the turns: one of them goes on. *)
ThreadStep(t) ==
  Load(t) \/ SkipDuplicate(t) \/ ReadStore(t) \/ SaveNothing(t) \/ OpenStore(t) \/ WriteStore(t)

LEMMA ThreadMoves ==
  ASSUME Typed, NEW t \in Turn, ThreadStep(t)
  PROVE  /\ turn[t].pc \in Begun \ {"over"} /\ turn'[t].pc \in Begun
         /\ \A u \in Turn : u # t => turn'[u] = turn[u]
         /\ UNCHANGED <<vars, channel, inbox, fn, by, caller, failed, collected, outlived>>
<1>1. UNCHANGED <<vars, channel, inbox, fn, by, caller, failed, collected, outlived>>
  BY DEF ThreadStep, Load, SkipDuplicate, ReadStore, SaveNothing, OpenStore, WriteStore
<1>2. turn[t].pc \in Begun \ {"over"}
  BY DEF ThreadStep, Load, SkipDuplicate, ReadStore, SaveNothing, OpenStore, WriteStore, Begun
<1>3. turn \in [Turn -> TurnRecord]
  BY DEF Typed
<1>4. turn'[t].pc \in Begun /\ \A u \in Turn : u # t => turn'[u] = turn[u]
  <2>1. CASE SkipDuplicate(t) \/ SaveNothing(t) \/ OpenStore(t)
    BY <1>3, <2>1, AtPc, Pcs DEF SkipDuplicate, SaveNothing, OpenStore, Begun
  <2>2. CASE Load(t)
    <3>1. turn' = [turn EXCEPT ![t].pc = "agent", ![t].base = store.lists[KeyOf(t)]]
      BY <2>2 DEF Load
    <3> QED
      BY <1>3, <3>1 DEF Begun, TurnRecord
  <2>3. CASE ReadStore(t)
    <3>1. PICK base : turn' = [turn EXCEPT ![t] =
                                 [pc |-> "open", base |-> base, data |-> store.lists]]
      BY <2>3 DEF ReadStore
    <3> QED
      BY <1>3, <3>1 DEF Begun
  <2>4. CASE WriteStore(t)
    <3>1. turn' = [turn EXCEPT ![t] = [pc |-> "over", base |-> <<>>, data |-> NoLists]]
      BY <2>4 DEF WriteStore
    <3> QED
      BY <1>3, <3>1 DEF Begun
  <2> QED
    BY <2>1, <2>2, <2>3, <2>4 DEF ThreadStep
<1> QED
  BY <1>1, <1>2, <1>4

(* Where it goes to, and what it has read then. *)
LEMMA ThreadRecords ==
  ASSUME Typed, NEW t \in Turn
  PROVE  /\ Load(t) => /\ turn'[t].pc = "agent"
                       /\ turn'[t].base = store.lists[KeyOf(t)]
         /\ SkipDuplicate(t) \/ SaveNothing(t) \/ WriteStore(t) => turn'[t].pc = "over"
         /\ ReadStore(t) => /\ turn'[t].pc = "open" /\ turn'[t].data = store.lists
                            /\ turn'[t].base \in {turn[t].base, Append(turn[t].base, t)}
         /\ OpenStore(t) => /\ turn'[t].pc = "write" /\ turn'[t].base = turn[t].base
                            /\ turn'[t].data = turn[t].data
<1>1. turn \in [Turn -> TurnRecord]
  BY DEF Typed
<1>2. ASSUME Load(t)
      PROVE  turn'[t].pc = "agent" /\ turn'[t].base = store.lists[KeyOf(t)]
  <2>1. turn' = [turn EXCEPT ![t].pc = "agent", ![t].base = store.lists[KeyOf(t)]]
    BY <1>2 DEF Load
  <2> QED
    BY <1>1, <2>1 DEF TurnRecord
<1>3. ASSUME SkipDuplicate(t) \/ SaveNothing(t) PROVE turn'[t].pc = "over"
  BY <1>1, <1>3, AtPc, Pcs DEF SkipDuplicate, SaveNothing
<1>4. ASSUME WriteStore(t) PROVE turn'[t].pc = "over"
  <2>1. turn' = [turn EXCEPT ![t] = [pc |-> "over", base |-> <<>>, data |-> NoLists]]
    BY <1>4 DEF WriteStore
  <2> QED
    BY <1>1, <2>1
<1>5. ASSUME ReadStore(t)
      PROVE  /\ turn'[t].pc = "open" /\ turn'[t].data = store.lists
             /\ turn'[t].base \in {turn[t].base, Append(turn[t].base, t)}
  <2>1. PICK base \in {turn[t].base, Append(turn[t].base, t)} :
          turn' = [turn EXCEPT ![t] = [pc |-> "open", base |-> base, data |-> store.lists]]
    BY <1>5 DEF ReadStore
  <2> QED
    BY <1>1, <2>1
<1>6. ASSUME OpenStore(t)
      PROVE  turn'[t].pc = "write" /\ turn'[t].base = turn[t].base
             /\ turn'[t].data = turn[t].data
  BY <1>1, <1>6, AtPc, Pcs DEF OpenStore
<1> QED
  BY <1>2, <1>3, <1>4, <1>5, <1>6

(* What the end of an instruction does to the turns. *)
LEMMA EndMoves ==
  ASSUME Typed, NEW i \in Instruction, TurnEnds(i)
  PROVE  /\ \A u \in Turn : u # i => turn'[u] = turn[u]
         /\ \/ UNCHANGED turn
            \/ turn'[i].pc = "over" /\ channel = "ws"
            \/ turn'[i].pc = "dropped" /\ channel = "siq"
               /\ ~Working(i) /\ turn[i].pc # "over"
         /\ UNCHANGED <<channel, inbox, fn, by, store, loaded, saved, collected, crossed>>
<1>1. CASE UNCHANGED turn
  BY <1>1 DEF TurnEnds
<1>2. CASE At(i, "over") /\ channel = "ws"
  BY <1>2, AtPc, Pcs DEF TurnEnds, Typed, Turn
<1>3. CASE At(i, "dropped") /\ channel = "siq" /\ ~Working(i) /\ turn[i].pc # "over"
  BY <1>3, AtPc, Pcs DEF TurnEnds, Typed, Turn
<1> QED
  BY <1>1, <1>2, <1>3 DEF TurnEnds, Overrun, Fails

-----------------------------------------------------------------------------
(* An instruction is where PlaceInv says: step by step. *)
LEMMA Elements ==
  ASSUME Typed
  PROVE  /\ \A k \in DOMAIN inbox : inbox[k] \in Instruction /\ inbox[k] \in Turn
         /\ \A k \in DOMAIN queue : queue[k] \in Instruction /\ queue[k] \in Turn
         /\ Instruction \subseteq Turn /\ parallel \subseteq Instruction
  BY DEF Typed, TypeOK, Turn
LEMMA ThreadPlaces ==
  ASSUME Typed, PlaceInv, NEW t \in Turn, ThreadStep(t)
  PROVE  PlaceInv'
<1>1. /\ turn[t].pc \in Begun \ {"over"} /\ turn'[t].pc \in Begun
      /\ \A u \in Turn : u # t => turn'[u] = turn[u]
      /\ UNCHANGED <<vars, channel, inbox, collected>>
  BY ThreadMoves
<1>2. /\ \A k \in DOMAIN inbox : inbox[k] \in Instruction /\ inbox[k] \in Turn
      /\ \A k \in DOMAIN queue : queue[k] \in Instruction /\ queue[k] \in Turn
      /\ Instruction \subseteq Turn /\ parallel \subseteq Instruction
  BY Elements
<1> USE DEF PlaceInv, vars, session, history
<1>3. InboxInv'
  BY <1>1, <1>2 DEF InboxInv, Begun
<1>4. QueueTurnInv'
  BY <1>1, <1>2 DEF QueueTurnInv, Begun
<1>5. ToldInv'
  BY <1>1, <1>2 DEF ToldInv, Begun, Queued
<1>6. ExecutingInv'
  BY <1>1, <1>2 DEF ExecutingInv
<1> QED
  BY <1>3, <1>4, <1>5, <1>6

LEMMA ReceivePlaces ==
  ASSUME Typed, PlaceInv, NEW i \in Instruction, Receive(i)
  PROVE  PlaceInv'
<1>1. /\ turn[i].pc = "none" /\ turn'[i].pc \in {"arrived", "given"}
      /\ \A u \in Turn : u # i => turn'[u] = turn[u]
      /\ UNCHANGED <<vars, channel, collected>>

  <2>1. At(i, "arrived") \/ At(i, "given")
    BY Zenon DEF Receive
  <2>2. turn[i].pc = "none" /\ UNCHANGED <<vars, channel, collected>>
    BY Zenon DEF Receive
  <2> QED
    BY <2>1, <2>2, AtPc, Pcs DEF Typed, Turn
<1>2. /\ \A k \in DOMAIN inbox : inbox[k] \in Instruction /\ inbox[k] \in Turn
      /\ \A k \in DOMAIN queue : queue[k] \in Instruction /\ queue[k] \in Turn
      /\ Instruction \subseteq Turn /\ parallel \subseteq Instruction
  BY Elements
<1> USE DEF PlaceInv, vars, session, history
<1>3. InboxInv'
  <2>1. CASE inbox' = inbox
    BY <1>1, <1>2, <2>1 DEF InboxInv
  <2>2. CASE channel = "siq" /\ inbox' = Append(inbox, i) /\ At(i, "arrived")
    <3>1. turn'[i].pc = "arrived"
      BY <2>2, AtPc, Pcs DEF Typed, Turn
    <3>2. /\ DOMAIN inbox = 1..Len(inbox) /\ Len(inbox) \in Nat
          /\ DOMAIN inbox' = 1..(Len(inbox) + 1)
          /\ \A k \in DOMAIN inbox : inbox'[k] = inbox[k]
          /\ inbox'[Len(inbox) + 1] = i
      BY <2>2 DEF Typed
    <3>3. \A k \in DOMAIN inbox : inbox[k] # i /\ inbox[k] \in Turn
      BY <1>1, <1>2 DEF InboxInv
    <3>4. \A k \in DOMAIN inbox' : k \in DOMAIN inbox \/ k = Len(inbox) + 1
      BY <3>2
    <3>5. \A k \in DOMAIN inbox' : channel' = "siq" /\ turn'[inbox'[k]].pc = "arrived"
      BY <1>1, <2>2, <3>1, <3>2, <3>3, <3>4 DEF InboxInv
    <3>6. \A j, k \in DOMAIN inbox' : j # k => inbox'[j] # inbox'[k]
      BY <3>2, <3>3, <3>4 DEF InboxInv
    <3> QED
      BY <3>5, <3>6 DEF InboxInv
  <2> QED
    BY <2>1, <2>2, Zenon DEF Receive
<1>4. QueueTurnInv'
  BY <1>1, <1>2 DEF QueueTurnInv
<1>5. ToldInv'
  BY <1>1, <1>2 DEF ToldInv, Queued
<1>6. ExecutingInv'
  BY <1>1, <1>2 DEF ExecutingInv, Begun
<1> QED
  BY <1>3, <1>4, <1>5, <1>6

(* The places of the instructions other than i, after a submission of i. *)
LEMMA SubmitPlaces ==
  ASSUME Typed, QueueInv, PlaceInv, NEW i \in Instruction, SubmitTurn(i)
  PROVE  PlaceInv'
<1>1. /\ \A k \in DOMAIN inbox : inbox[k] \in Instruction /\ inbox[k] \in Turn
      /\ \A k \in DOMAIN queue : queue[k] \in Instruction /\ queue[k] \in Turn
      /\ Instruction \subseteq Turn /\ parallel \subseteq Instruction
  BY Elements
<1>2. told[i] = "none" /\ UNCHANGED <<channel, collected>>
  BY DEF SubmitTurn, SubmitParallel, SubmitQueued, SubmitRejected
<1>3. \A u \in Turn : u # i => turn'[u] = turn[u]
  BY AtPc, Pcs DEF SubmitTurn, Typed
<1>4. \/ turn'[i].pc = "given" /\ SubmitParallel(i)
      \/ turn'[i].pc = "queued" /\ SubmitQueued(i)
      \/ turn'[i].pc = "refused" /\ SubmitRejected(i)
  BY <1>1, AtPc, Pcs DEF SubmitTurn, Typed
<1>5. /\ \A k \in Instruction : k # i => told'[k] = told[k]
      /\ told'[i] = IF turn'[i].pc = "queued" THEN "queued"
                    ELSE IF turn'[i].pc = "given" THEN "parallel" ELSE "rejected"
  BY <1>4 DEF SubmitParallel, SubmitQueued, SubmitRejected, Typed, TypeOK
<1>6. i \notin collected /\ ~Queued(i)
  BY <1>1, <1>2 DEF PlaceInv, ToldInv, QueueTurnInv, Queued
<1>7. InboxInv'
  <2>1. CASE channel = "ws"
    BY <1>2, <2>1 DEF SubmitTurn, NextUp, PlaceInv, InboxInv
  <2>2. CASE channel = "siq" /\ inbox # <<>> /\ i = Head(inbox) /\ inbox' = Tail(inbox)
    <3>1. /\ 1 \in DOMAIN inbox /\ i = inbox[1]
          /\ \A k \in DOMAIN inbox' : /\ k + 1 \in DOMAIN inbox /\ 1 # k + 1
                                      /\ k \in Nat /\ inbox'[k] = inbox[k + 1]
      BY <2>2 DEF Typed
    <3>2. \A k \in DOMAIN inbox' : inbox'[k] # i /\ turn'[inbox'[k]].pc = "arrived"
      BY <1>1, <1>3, <3>1 DEF PlaceInv, InboxInv
    <3>3. \A j, k \in DOMAIN inbox' : j # k => inbox'[j] # inbox'[k]
      BY <3>1 DEF PlaceInv, InboxInv
    <3> QED
      BY <1>2, <2>2, <3>2, <3>3 DEF InboxInv
  <2> QED
    BY <2>1, <2>2 DEF SubmitTurn, NextUp
<1>8. /\ QueueTurnInv'
      /\ \A k \in Instruction : Queued(k)' <=> Queued(k) \/ (k = i /\ turn'[i].pc = "queued")
  <2>1. CASE SubmitQueued(i) /\ turn'[i].pc = "queued"
    <3>1. /\ DOMAIN queue = 1..Len(queue) /\ Len(queue) \in Nat
          /\ DOMAIN queue' = 1..(Len(queue) + 1)
          /\ \A k \in DOMAIN queue : queue'[k] = queue[k]
          /\ queue'[Len(queue) + 1] = i
      BY <2>1 DEF SubmitQueued, Typed, TypeOK
    <3>2. \A k \in DOMAIN queue' : k \in DOMAIN queue \/ k = Len(queue) + 1
      BY <3>1
    <3>3. \A k \in DOMAIN queue : queue[k] # i
      BY <1>6 DEF Queued
    <3>4. \A k \in DOMAIN queue' : turn'[queue'[k]].pc = "queued"
      BY <1>1, <1>3, <2>1, <3>1, <3>2, <3>3 DEF PlaceInv, QueueTurnInv
    <3>5. \A j, k \in DOMAIN queue' : j # k => queue'[j] # queue'[k]
      BY <3>1, <3>2, <3>3 DEF PlaceInv, QueueTurnInv
    <3>6. DOMAIN queue \subseteq DOMAIN queue' /\ Len(queue) + 1 \in DOMAIN queue'
      BY <3>1
    <3> QED
      BY <2>1, <3>1, <3>2, <3>4, <3>5, <3>6 DEF QueueTurnInv, Queued
  <2>2. CASE queue' = queue /\ turn'[i].pc # "queued"
    BY <1>1, <1>3, <1>6, <2>2 DEF PlaceInv, QueueTurnInv, Queued
  <2> QED
    BY <1>4, <2>1, <2>2 DEF SubmitParallel, SubmitRejected, session
<1>9. ToldInv'
  BY <1>1, <1>2, <1>3, <1>4, <1>5, <1>6, <1>8 DEF PlaceInv, ToldInv
<1>10. ExecutingInv'
  <2>1. /\ \A l \in Loop : loop'[l].pc = "busy" => loop'[l] = loop[l]
        /\ \A j \in parallel' : j \in parallel \/ (j = i /\ turn'[i].pc = "given")
    <3>1. CASE SubmitParallel(i) /\ turn'[i].pc = "given"
      BY <3>1 DEF SubmitParallel
    <3>2. CASE SubmitQueued(i)
      BY <3>2 DEF SubmitQueued, StartWorker, Waiting, Typed, TypeOK
    <3>3. CASE SubmitRejected(i)
      BY <3>3 DEF SubmitRejected, session
    <3> QED
      BY <1>4, <3>1, <3>2, <3>3
  <2>2. \A l \in Loop : loop[l].pc = "busy" => loop[l].inst # i
    BY <1>2 DEF PlaceInv, ExecutingInv
  <2>3. i \notin parallel
    BY <1>2 DEF QueueInv, Counted
  <2> QED
    BY <1>1, <1>3, <1>5, <2>1, <2>2, <2>3 DEF PlaceInv, ExecutingInv, Begun
<1> QED
  BY <1>7, <1>8, <1>9, <1>10 DEF PlaceInv

LEMMA TakePlaces ==
  ASSUME Typed, QueueInv, PlaceInv, NEW l \in Loop, TakeTurn(l)
  PROVE  PlaceInv'
<1>1. /\ \A k \in DOMAIN inbox : inbox[k] \in Instruction /\ inbox[k] \in Turn
      /\ \A k \in DOMAIN queue : queue[k] \in Instruction /\ queue[k] \in Turn
      /\ Instruction \subseteq Turn /\ parallel \subseteq Instruction
  BY Elements
<1>2. PICK i \in Instruction : /\ queue # <<>> /\ i = queue[1] /\ 1 \in DOMAIN queue
                               /\ i = Head(queue)
  BY DEF TakeTurn, Take, Typed, TypeOK
<1>3. /\ turn'[i].pc = "given"
      /\ \A u \in Turn : u # i => turn'[u] = turn[u]
  BY <1>1, <1>2, AtPc, Pcs DEF TakeTurn, Typed
<1>4. /\ loop' = [loop EXCEPT ![l] = [pc |-> "busy", inst |-> i]]
      /\ queue' = Tail(queue) /\ told' = told /\ parallel' = parallel
      /\ UNCHANGED <<channel, inbox, collected>>
  BY <1>2 DEF TakeTurn, Take
<1>5. turn[i].pc = "queued" /\ told[i] = "queued" /\ i \notin collected
  BY <1>2 DEF PlaceInv, QueueTurnInv, ToldInv, Queued
<1>6. \A k \in DOMAIN queue' : /\ k + 1 \in DOMAIN queue /\ 1 # k + 1 /\ k \in Nat
                               /\ queue'[k] = queue[k + 1]
  BY <1>2, <1>4 DEF Typed, TypeOK
<1>7. \A k \in DOMAIN queue : k # 1 => k - 1 \in DOMAIN queue' /\ queue'[k - 1] = queue[k]
  BY <1>2, <1>4 DEF Typed, TypeOK
<1>8. \A k \in DOMAIN queue' : queue'[k] # i
  BY <1>2, <1>6 DEF PlaceInv, QueueTurnInv
<1>9. \A j \in Instruction : Queued(j)' <=> Queued(j) /\ j # i
  BY <1>2, <1>6, <1>7, <1>8 DEF Queued
<1>10. InboxInv'
  BY <1>1, <1>3, <1>4, <1>5 DEF PlaceInv, InboxInv
<1>11. QueueTurnInv'
  BY <1>1, <1>3, <1>6, <1>8 DEF PlaceInv, QueueTurnInv
<1>12. ToldInv'
  BY <1>1, <1>3, <1>4, <1>5, <1>9 DEF PlaceInv, ToldInv
<1>13. ExecutingInv'
  <2>1. \A m \in Loop : loop'[m] = IF m = l THEN [pc |-> "busy", inst |-> i] ELSE loop[m]
    BY <1>4 DEF Typed, TypeOK
  <2> QED
    BY <1>1, <1>3, <1>4, <1>5, <2>1 DEF PlaceInv, ExecutingInv, Begun
<1> QED
  BY <1>10, <1>11, <1>12, <1>13 DEF PlaceInv

(* An instruction that ends was executed by one worker or one task: it is  *)
(* not executed any more.                                                  *)
LEMMA EndPlaces ==
  ASSUME Typed, PlaceInv, NEW i \in Instruction,
         turn[i].pc \in Begun,
         turn'[i].pc \in Begun \/ (turn'[i].pc = "dropped" /\ ~Executing(i)'),
         \A u \in Turn : u # i => turn'[u] = turn[u],
         \A l \in Loop : loop'[l].pc = "busy" => loop'[l] = loop[l],
         parallel' \subseteq parallel,
         UNCHANGED <<channel, inbox, queue, told, collected>>
  PROVE  PlaceInv'
<1>1. /\ \A k \in DOMAIN inbox : inbox[k] \in Instruction /\ inbox[k] \in Turn
      /\ \A k \in DOMAIN queue : queue[k] \in Instruction /\ queue[k] \in Turn
      /\ Instruction \subseteq Turn /\ parallel \subseteq Instruction
  BY Elements
<1>2. InboxInv'
  BY <1>1 DEF PlaceInv, InboxInv, Begun
<1>3. QueueTurnInv'
  BY <1>1 DEF PlaceInv, QueueTurnInv, Begun
<1>4. ToldInv'
  BY <1>1 DEF PlaceInv, ToldInv, Begun, Queued
<1>5. ExecutingInv'
  BY <1>1 DEF PlaceInv, ExecutingInv, Executing
<1> QED
  BY <1>2, <1>3, <1>4, <1>5 DEF PlaceInv

LEMMA FinishPlaces ==
  ASSUME Typed, QueueInv, PlaceInv, NEW l \in Loop, FinishTurn(l) \/ CancelTurn(l)
  PROVE  PlaceInv'
<1>1. PICK i \in Instruction : /\ loop[l].pc = "busy" /\ loop[l].inst = i
                               /\ turn[i].pc \in Begun /\ told[i] = "queued"
  BY DEF FinishTurn, Finish, CancelTurn, Cancelled, PlaceInv, ExecutingInv
<1>2. loop'[l].pc # "busy" /\ \A m \in Loop : m # l => loop'[m] = loop[m]
  BY DEF FinishTurn, Finish, CancelTurn, Cancelled, End, Waiting, Off, Typed, TypeOK
<1>3. UNCHANGED <<channel, inbox, queue, told, parallel, collected>>
  BY DEF FinishTurn, Finish, CancelTurn, Cancelled, End, TurnEnds, history
<1>4. ~Executing(i)'
  <2>1. \A m \in Loop : m # l => loop[m].pc # "busy"
    BY <1>1 DEF QueueInv, OneWorker
  <2>2. i \notin parallel
    BY <1>1 DEF QueueInv, Counted
  <2> QED
    BY <1>2, <1>3, <2>1, <2>2 DEF Executing
<1>5. /\ \A u \in Turn : u # i => turn'[u] = turn[u]
      /\ turn'[i].pc \in Begun \/ turn'[i].pc = "dropped"
  <2>1. CASE FinishTurn(l)
    BY <1>1, <2>1, EndMoves DEF FinishTurn, Begun
  <2>2. CASE CancelTurn(l)
    BY <1>1, <2>2, AtPc, Pcs DEF CancelTurn, Fails, Begun, Typed, Turn
  <2> QED
    BY <2>1, <2>2
<1> QED
  BY <1>1, <1>2, <1>3, <1>4, <1>5, EndPlaces

LEMMA EndParallelPlaces ==
  ASSUME Typed, QueueInv, PlaceInv, NEW i \in Instruction, EndParallelTurn(i)
  PROVE  PlaceInv'
<1>1. /\ i \in parallel /\ parallel' = parallel \ {i}
      /\ UNCHANGED <<channel, inbox, queue, loop, told, collected>>
  BY DEF EndParallelTurn, EndParallel, TurnEnds, history
<1>2. turn[i].pc \in Begun /\ told[i] = "parallel"
  BY <1>1 DEF PlaceInv, ExecutingInv, QueueInv, Counted
<1>3. ~Executing(i)'
  BY <1>1, <1>2 DEF Executing, PlaceInv, ExecutingInv
<1>4. /\ \A u \in Turn : u # i => turn'[u] = turn[u]
      /\ turn'[i].pc \in Begun \/ turn'[i].pc = "dropped"
  BY <1>2, EndMoves DEF EndParallelTurn, Begun
<1> QED
  BY <1>1, <1>2, <1>3, <1>4, EndPlaces

LEMMA CollectPlaces ==
  ASSUME Typed, PlaceInv, CollectSession
  PROVE  PlaceInv'
<1>1. /\ queue' = <<>> /\ collected' = collected \cup {queue[k] : k \in DOMAIN queue}
      /\ UNCHANGED <<channel, inbox, loop, parallel, told, turn>>
  BY DEF CollectSession, Collect
<1>2. \A i \in Instruction : i \in collected' <=> i \in collected \/ Queued(i)
  BY <1>1 DEF Queued
<1>3. \A i \in Instruction : Queued(i) => turn[i].pc = "queued"
  BY DEF PlaceInv, QueueTurnInv, Queued
<1>4. \A i \in Instruction : ~Queued(i)'
  BY <1>1 DEF Queued
<1>5. InboxInv' /\ QueueTurnInv' /\ ExecutingInv'
  BY <1>1 DEF PlaceInv, InboxInv, QueueTurnInv, ExecutingInv
<1>6. ToldInv'
  BY <1>1, <1>2, <1>3, <1>4 DEF PlaceInv, ToldInv
<1> QED
  BY <1>5, <1>6 DEF PlaceInv

(* Steps that touch neither a turn nor the queue. *)
LEMMA RestPlaces ==
  ASSUME Typed, PlaceInv,
         \A l \in Loop : loop'[l].pc = "busy" => loop'[l] = loop[l],
         UNCHANGED <<channel, inbox, queue, parallel, told, turn, collected>>
  PROVE  PlaceInv'
<1>1. InboxInv' /\ QueueTurnInv'
  BY DEF PlaceInv, InboxInv, QueueTurnInv
<1>2. ToldInv'
  BY DEF PlaceInv, ToldInv, Queued
<1>3. ExecutingInv'
  BY DEF PlaceInv, ExecutingInv
<1> QED
  BY <1>1, <1>2, <1>3 DEF PlaceInv

LEMMA IdlePlaces ==
  ASSUME Typed, PlaceInv, NEW l \in Loop,
         (Leave(l) /\ UNCHANGED turnVars) \/ (IdleTimeout(l) /\ UNCHANGED turnVars)
  PROVE  PlaceInv'
<1>1. \A m \in Loop : loop'[m].pc = "busy" => loop'[m] = loop[m]
  BY DEF Leave, End, IdleTimeout, Off, Leaving, Typed, TypeOK
<1>2. UNCHANGED <<channel, inbox, queue, parallel, told, turn, collected>>
  BY DEF Leave, End, IdleTimeout, turnVars, history
<1> QED
  BY <1>1, <1>2, RestPlaces

LEMMA PlaceStep == Typed /\ QueueInv /\ PlaceInv /\ [TurnNext]_allVars => PlaceInv'
<1> SUFFICES ASSUME Typed, QueueInv, PlaceInv, [TurnNext]_allVars PROVE PlaceInv'
  OBVIOUS
<1>1. Instruction \subseteq Turn
  BY DEF Turn
<1>2. ASSUME NEW t \in Turn, ThreadStep(t) PROVE PlaceInv'
  BY <1>2, ThreadPlaces
<1>3. ASSUME NEW i \in Instruction,
             Receive(i) \/ SubmitTurn(i) \/ EndParallelTurn(i)
      PROVE PlaceInv'
  BY <1>3, ReceivePlaces, SubmitPlaces, EndParallelPlaces
<1>4. ASSUME NEW i \in Instruction, GiveUp(i) PROVE PlaceInv'
  BY <1>4, RestPlaces DEF GiveUp, vars, session, history
<1>5. ASSUME NEW l \in Loop, Worker(l) \/ (IdleTimeout(l) /\ UNCHANGED turnVars)
      PROVE PlaceInv'
  BY <1>5, TakePlaces, FinishPlaces, IdlePlaces DEF Worker
<1>6. ASSUME CollectSession PROVE PlaceInv'
  BY <1>6, CollectPlaces
<1>7. ASSUME UNCHANGED allVars PROVE PlaceInv'
  BY <1>7, RestPlaces DEF allVars, turnVars, vars, session, history
<1> QED
  BY <1>1, <1>2, <1>3, <1>4, <1>5, <1>6, <1>7 DEF TurnNext, ThreadStep

-----------------------------------------------------------------------------
(* The count changes when a message comes and when its thread ends. *)
LEMMA CountSame ==
  ASSUME CountInv, UNCHANGED <<channel, count>>,
         channel = "ws" \/ Charged' = Charged
  PROVE  CountInv'
  BY DEF CountInv

LEMMA CountDown ==
  ASSUME Typed, CountInv, NEW t \in Turn,
         turn[t].pc \notin {"none", "over"}, turn'[t].pc = "over",
         \A u \in Turn : u # t => turn'[u] = turn[u],
         Uncount(t), UNCHANGED channel
  PROVE  CountInv'
<1>1. CASE channel = "ws"
  BY <1>1 DEF CountInv, Uncount
<1>2. CASE channel # "ws" /\ t = Visitor
  <2>1. Charged' = Charged
    BY <1>2, VisitorAssumption DEF Charged, Turn
  <2>2. count' = count
    BY <1>2 DEF Uncount
  <2> QED
    BY <2>1, <2>2, CountSame
<1>3. CASE channel # "ws" /\ t # Visitor
  <2>1. t \in Charged /\ Charged' = Charged \ {t}
    BY <1>3 DEF Charged, Turn
  <2>2. IsFiniteSet(Charged) /\ count = Cardinality(Charged)
    BY <1>3 DEF CountInv
  <2>3. IsFiniteSet(Charged') /\ Cardinality(Charged') = Cardinality(Charged) - 1
    BY <2>1, <2>2, FS_RemoveElement
  <2>4. Cardinality(Charged) \in Nat /\ Cardinality(Charged') \in Nat
    BY <2>2, <2>3, FS_CardinalityType
  <2>5. count' = count - 1
    BY <1>3, <2>2, <2>3, <2>4 DEF Uncount
  <2> QED
    BY <1>3, <2>2, <2>3, <2>5 DEF CountInv
<1> QED
  BY <1>1, <1>2, <1>3

LEMMA CountStep == Typed /\ QueueInv /\ PlaceInv /\ CountInv /\ [TurnNext]_allVars => CountInv'
<1> SUFFICES ASSUME Typed, QueueInv, PlaceInv, CountInv, [TurnNext]_allVars PROVE CountInv'
  OBVIOUS
<1>0. Instruction \subseteq Turn
  BY DEF Turn
<1>1. ASSUME NEW i \in Instruction, Receive(i) PROVE CountInv'
  <2>1. /\ turn[i].pc = "none" /\ (At(i, "arrived") \/ At(i, "given"))
        /\ count' = count + 1 /\ channel # "ws" /\ channel' = channel
    BY <1>1, Zenon DEF Receive
  <2>2. i \notin Charged /\ Charged' = Charged \cup {i}
    BY <1>0, <2>1, AtPc, Pcs DEF Charged, Typed
  <2>3. IsFiniteSet(Charged) /\ count = Cardinality(Charged)
    BY <2>1 DEF CountInv
  <2>4. IsFiniteSet(Charged') /\ Cardinality(Charged') = Cardinality(Charged) + 1
    BY <2>2, <2>3, FS_AddElement
  <2> QED
    BY <2>1, <2>3, <2>4 DEF CountInv
<1>2. ASSUME NEW i \in Instruction, SubmitTurn(i) PROVE CountInv'
  <2>1. /\ \A u \in Turn : u # i => turn'[u] = turn[u]
        /\ turn'[i].pc \in {"given", "queued", "refused"}
    BY <1>0, <1>2, AtPc, Pcs DEF SubmitTurn, Typed
  <2>2. channel = "ws" \/ turn[i].pc = "arrived"
    <3>1. inbox # <<>> => 1 \in DOMAIN inbox /\ Head(inbox) = inbox[1]
      BY DEF Typed
    <3> QED
      BY <1>2, <3>1 DEF SubmitTurn, NextUp, PlaceInv, InboxInv
  <2>3. channel = "ws" \/ Charged' = Charged
    BY <1>0, <2>1, <2>2 DEF Charged
  <2>4. UNCHANGED <<channel, count>>
    BY <1>2 DEF SubmitTurn
  <2> QED
    BY <2>3, <2>4, CountSame
<1>3. ASSUME NEW l \in Loop, TakeTurn(l) PROVE CountInv'
  <2>1. 1 \in DOMAIN queue /\ Head(queue) = queue[1] /\ queue[1] \in Instruction
    BY <1>3 DEF TakeTurn, Take, Typed, TypeOK
  <2>2. turn[queue[1]].pc = "queued"
    BY <2>1 DEF PlaceInv, QueueTurnInv
  <2>3. \A u \in Turn : turn'[u].pc = IF u = queue[1] THEN "given" ELSE turn[u].pc
    BY <1>3, <2>1, AtPc, Pcs DEF TakeTurn, Typed
  <2>4. Charged' = Charged
    BY <1>0, <2>1, <2>2, <2>3 DEF Charged
  <2> QED
    BY <1>3, <2>4, CountSame DEF TakeTurn
<1>4. ASSUME NEW t \in Turn, SkipDuplicate(t) \/ SaveNothing(t) \/ WriteStore(t) PROVE CountInv'
  <2>1. /\ turn[t].pc \in Begun \ {"over"}
        /\ \A u \in Turn : u # t => turn'[u] = turn[u]
        /\ UNCHANGED channel
    BY <1>4, ThreadMoves DEF ThreadStep
  <2>2. turn'[t].pc = "over"
    BY <1>4, ThreadRecords
  <2>3. Uncount(t)
    BY <1>4 DEF SkipDuplicate, SaveNothing, WriteStore
  <2> QED
    BY <2>1, <2>2, <2>3, CountDown DEF Begun
<1>5. ASSUME NEW t \in Turn, Load(t) \/ ReadStore(t) \/ OpenStore(t) PROVE CountInv'
  <2>1. /\ turn[t].pc \in Begun \ {"over"}
        /\ \A u \in Turn : u # t => turn'[u] = turn[u]
        /\ UNCHANGED channel
    BY <1>5, ThreadMoves DEF ThreadStep
  <2>2. turn'[t].pc \in {"agent", "open", "write"} /\ count' = count
    BY <1>5, ThreadRecords DEF Load, ReadStore, OpenStore
  <2>3. Charged' = Charged
    BY <1>0, <2>1, <2>2 DEF Charged, Begun
  <2> QED
    BY <2>1, <2>2, <2>3, CountSame
<1>6. ASSUME NEW i \in Instruction, turn[i].pc \in Begun, TurnEnds(i) PROVE CountInv'
  <2>1. CASE channel = "ws"
    BY <1>6, <2>1, CountSame DEF TurnEnds, Fails
  <2>2. CASE channel # "ws"
    <3>1. Charged' = Charged
      BY <1>0, <1>6, <2>2, EndMoves DEF Charged, Begun
    <3>2. UNCHANGED <<channel, count>>
      BY <1>6, <2>2 DEF TurnEnds, Overrun
    <3> QED
      BY <3>1, <3>2, CountSame
  <2> QED
    BY <2>1, <2>2
<1>7. ASSUME NEW l \in Loop, FinishTurn(l) PROVE CountInv'
  BY <1>6, <1>7 DEF FinishTurn, Finish, PlaceInv, ExecutingInv
<1>8. ASSUME NEW i \in Instruction, EndParallelTurn(i) PROVE CountInv'
  BY <1>6, <1>8 DEF EndParallelTurn, EndParallel, PlaceInv, ExecutingInv
<1>9. ASSUME NEW l \in Loop, CancelTurn(l) PROVE CountInv'
  BY <1>9, CountSame DEF CancelTurn, Fails
<1>10. ASSUME UNCHANGED <<channel, count, turn>> PROVE CountInv'
  BY <1>10, CountSame DEF Charged
<1>11. ASSUME NEW i \in Instruction, GiveUp(i) PROVE CountInv'
  BY <1>10, <1>11 DEF GiveUp
<1>12. ASSUME CollectSession PROVE CountInv'
  BY <1>10, <1>12 DEF CollectSession
<1> QED
  BY <1>0, <1>1, <1>2, <1>3, <1>4, <1>5, <1>7, <1>8, <1>9, <1>10, <1>11, <1>12
     DEF TurnNext, Worker, allVars, turnVars

-----------------------------------------------------------------------------
(* The messages under way and the leaked ones are those that are counted.  *)
LEMMA Accounts == Typed /\ PlaceInv /\ CountInv => InFlightAccounted
<1> SUFFICES ASSUME Typed, PlaceInv, CountInv, channel # "ws"
             PROVE  count = Cardinality(UnderWay) + Cardinality(Leaked)
  BY DEF InFlightAccounted
<1>0. \A i \in Instruction : Queued(i) => turn[i].pc = "queued"
  BY DEF PlaceInv, QueueTurnInv, Queued
<1>1. UnderWay \cap Leaked = {}
  BY <1>0 DEF UnderWay, Leaked, PlaceInv, ToldInv
<1>2. UnderWay \cup Leaked = Charged
  <2>1. ASSUME NEW i \in Instruction PROVE i \in UnderWay \cup Leaked <=> i \in Charged
    <3>1. i \in Turn
      BY DEF Turn
    <3>2. turn[i].pc \in TurnPc
      BY <3>1 DEF Typed, TurnRecord
    <3> QED
      BY <1>0, <3>2 DEF UnderWay, Leaked, Charged, PlaceInv, ToldInv, TurnPc
  <2>2. UnderWay \subseteq Instruction /\ Leaked \subseteq Instruction
    BY DEF UnderWay, Leaked, Typed
  <2>3. Charged \subseteq Instruction
    BY DEF Charged
  <2> QED
    BY <2>1, <2>2, <2>3
<1>3. IsFiniteSet(Charged) /\ count = Cardinality(Charged)
  BY DEF CountInv
<1>4. IsFiniteSet(UnderWay) /\ IsFiniteSet(Leaked)
  BY <1>2, <1>3, FS_Subset
<1>5. Cardinality(Charged) = Cardinality(UnderWay) + Cardinality(Leaked)
  <2>1. Cardinality(UnderWay \cup Leaked) =
          Cardinality(UnderWay) + Cardinality(Leaked) - Cardinality(UnderWay \cap Leaked)
    BY <1>4, FS_Union
  <2>2. Cardinality(UnderWay \cap Leaked) = 0
    BY <1>1, FS_EmptySet
  <2>3. Cardinality(UnderWay) \in Nat /\ Cardinality(Leaked) \in Nat
    BY <1>4, FS_CardinalityType
  <2>4. Cardinality(UnderWay \cup Leaked) = Cardinality(Charged)
    BY <1>2, Zenon
  <2> QED
    BY <2>1, <2>2, <2>3, <2>4
<1> QED
  BY <1>3, <1>5

LEMMA CountBounded == Typed /\ CountInv => TurnTypeOK
<1> SUFFICES ASSUME Typed, CountInv PROVE TurnTypeOK
  OBVIOUS
<1>1. IsFiniteSet(Instruction) /\ Cardinality(Instruction) \in Nat
  BY IdAssumption, FS_CardinalityType
<1>2. Charged \subseteq Instruction
  BY DEF Charged
<1>3. Cardinality(Charged) <= Cardinality(Instruction) /\ Cardinality(Charged) \in Nat
  BY <1>1, <1>2, FS_Subset, FS_CardinalityType
<1>4. count \in 0..Cardinality(Instruction)
  BY <1>1, <1>3 DEF CountInv, Typed
<1> QED
  BY <1>4 DEF Typed, TurnTypeOK, TurnRecord, StoreRecord

LEMMA PlaceInit == TurnInit => PlaceInv
  BY VisitorAssumption
  DEF TurnInit, Init, PlaceInv, InboxInv, QueueTurnInv, ToldInv, ExecutingInv, Off, Turn,
       Queued

LEMMA CountInit == TurnInit => CountInv
<1> SUFFICES ASSUME TurnInit PROVE CountInv
  OBVIOUS
<1>1. \A i \in Instruction : turn[i].pc = "none"
  BY VisitorAssumption DEF TurnInit, Turn
<1>2. Charged = {} /\ count = 0
  BY <1>1 DEF Charged, TurnInit
<1> QED
  BY <1>2, FS_EmptySet DEF CountInv

(* The part of the invariant that the others rest on. *)
BaseTurnInv == Typed /\ BusyTyped /\ QueueInv /\ PlaceInv /\ CountInv

LEMMA BaseAlways == TurnSpec => []BaseTurnInv
<1>1. TurnInit => BaseTurnInv
  BY TypedInit, QueueInvInit, PlaceInit, CountInit DEF BaseTurnInv, TurnInit
<1>2. BaseTurnInv /\ [TurnNext]_allVars => BaseTurnInv'
  BY TypedStep, BusyStep, QueueStep, QueueInvStep, PlaceStep, CountStep
     DEF BaseTurnInv, Typed
<1> QED
  BY <1>1, <1>2, PTL DEF TurnSpec

(* The variables of ChatTurns keep their types, and the count of the       *)
(* messages in flight never exceeds their number.                          *)
THEOREM TurnTypes == TurnSpec => []TurnTypeOK
  BY BaseAlways, CountBounded, PTL DEF BaseTurnInv

(* The count of a Lark chat is that of the messages under way and of those *)
(* that leaked: whatever is rejected, timed out, collected or skipped, the *)
(* chat does not look idle while it is busy.                               *)
THEOREM TurnsAreCounted == TurnSpec => []InFlightAccounted
  BY BaseAlways, Accounts, PTL DEF BaseTurnInv

-----------------------------------------------------------------------------
(* The connections that wait: step by step. *)
LEMMA OtherWaits == Typed /\ WaitInv /\ channel # "ws" /\ [TurnNext]_allVars => WaitInv'
<1> SUFFICES ASSUME Typed, WaitInv, channel # "ws", [TurnNext]_allVars PROVE WaitInv'
  OBVIOUS
<1>1. ASSUME UNCHANGED <<channel, caller>> PROVE WaitInv'
  BY <1>1 DEF WaitInv
<1>2. ASSUME NEW i \in Instruction, TurnEnds(i) PROVE WaitInv'
  BY <1>1, <1>2 DEF TurnEnds, Overrun
<1>3. ASSUME NEW i \in Instruction,
             Receive(i) \/ SubmitTurn(i) \/ SkipDuplicate(i) \/ GiveUp(i)
      PROVE WaitInv'
  <2>1. CASE Receive(i)
    BY <1>1, <2>1, Zenon DEF Receive
  <2>2. CASE SubmitTurn(i)
    BY <1>1, <2>2 DEF SubmitTurn, NextUp
  <2>3. CASE SkipDuplicate(i)
    BY <1>1, <2>3 DEF SkipDuplicate
  <2>4. CASE GiveUp(i)
    BY <2>4 DEF GiveUp, WaitInv
  <2> QED
    BY <1>3, <2>1, <2>2, <2>3, <2>4
<1>4. ASSUME NEW t \in Turn,
             Load(t) \/ ReadStore(t) \/ SaveNothing(t) \/ OpenStore(t) \/ WriteStore(t)
      PROVE WaitInv'
  BY <1>1, <1>4, ThreadMoves DEF ThreadStep
<1>5. ASSUME NEW l \in Loop, TakeTurn(l) \/ CancelTurn(l) PROVE WaitInv'
  BY <1>1, <1>5 DEF TakeTurn, CancelTurn
<1>6. ASSUME CollectSession PROVE WaitInv'
  BY <1>1, <1>6 DEF CollectSession
<1>7. ASSUME UNCHANGED turnVars PROVE WaitInv'
  BY <1>1, <1>7 DEF turnVars
<1>8. ASSUME NEW l \in Loop, FinishTurn(l) PROVE TurnEnds(loop[l].inst)
  BY <1>8 DEF FinishTurn
<1>9. ASSUME NEW l \in Loop, FinishTurn(l) PROVE WaitInv'
  BY <1>1, <1>8, <1>9 DEF TurnEnds, Overrun
<1> QED
  BY <1>2, <1>3, <1>4, <1>5, <1>6, <1>7, <1>9
     DEF TurnNext, Worker, EndParallelTurn, allVars

(* The turn of a connection has ended: its event is that of the turn that  *)
(* started the worker, or the turn has failed.                             *)
LEMMA SocketEnds ==
  ASSUME Typed, SocketInv, NEW i \in Instruction, turn[i].pc \in Begun, channel = "ws",
         TurnEnds(i) \/ (Fails(i) /\ UNCHANGED <<by, fn, saved>>),
         \A l \in Loop : loop'[l].pc # "off" => loop[l].pc # "off"
  PROVE  SocketInv'
<1>0. Instruction \subseteq Turn
  BY DEF Turn
<1>1. turn[i].pc \in {"given", "over"} /\ by[i] # NoInstruction
  BY DEF SocketInv, Begun
<1>2. At(i, "over") /\ UNCHANGED <<by, fn, saved>>
  BY DEF TurnEnds, Fails
<1>3. /\ turn'[i].pc = "over"
      /\ \A u \in Turn : u # i => turn'[u] = turn[u]
  BY <1>0, <1>2, AtPc, Pcs DEF Typed
<1>4. /\ failed \subseteq failed'
      /\ \A j \in Instruction : caller'[j] = "waiting" => caller[j] = "waiting"
      /\ caller'[i] = "waiting" => by[i] # i \/ i \in failed'
  BY DEF TurnEnds, Fails, Wakes, Typed
<1>5. \A l \in Loop : loop'[l].pc # "off" => fn'[l] # NoInstruction
  BY <1>2 DEF SocketInv
<1>6. ASSUME NEW j \in Instruction
      PROVE  /\ turn'[j].pc \in {"none", "queued", "refused", "given", "over"}
             /\ turn'[j].pc \in {"given", "over"} => by'[j] # NoInstruction
             /\ caller'[j] = "waiting" =>
                  /\ turn'[j].pc \in {"queued", "given", "over"}
                  /\ turn'[j].pc = "over" => by'[j] # j \/ j \in failed'
  BY <1>0, <1>1, <1>2, <1>3, <1>4 DEF SocketInv
<1> QED
  BY <1>2, <1>5, <1>6 DEF SocketInv

LEMMA SocketSubmits ==
  ASSUME Typed, SocketInv, NEW i \in Instruction, channel = "ws", SubmitTurn(i)
  PROVE  SocketInv'
<1>0. Instruction \subseteq Turn
  BY DEF Turn
<1>1. \A u \in Turn : u # i => turn'[u] = turn[u]
  BY <1>0, AtPc, Pcs DEF SubmitTurn, Typed
<1>2. /\ turn'[i].pc \in {"given", "queued", "refused"}
      /\ turn'[i].pc = "refused" => caller'[i] # "waiting"
      /\ turn'[i].pc = "given" => by'[i] = i
  <2>1. CASE /\ SubmitParallel(i) /\ At(i, "given")
             /\ by' = [by EXCEPT ![i] = IF channel = "ws" THEN i ELSE @]
    BY <1>0, <2>1, AtPc, Pcs DEF Typed
  <2>2. CASE SubmitQueued(i) /\ At(i, "queued")
    BY <1>0, <2>2, AtPc, Pcs DEF Typed
  <2>3. CASE SubmitRejected(i) /\ At(i, "refused")
    <3>1. turn'[i].pc = "refused"
      BY <1>0, <2>3, AtPc, Pcs DEF Typed
    <3>2. told'[i] = "rejected"
      BY <2>3 DEF SubmitRejected, Typed, TypeOK
    <3>3. caller'[i] = "gone"
      BY <3>2 DEF SubmitTurn, NextUp, Typed
    <3> QED
      BY <3>1, <3>3
  <2> QED
    BY <2>1, <2>2, <2>3 DEF SubmitTurn
<1>3. /\ \A j \in Instruction : j # i => caller'[j] = caller[j] /\ by'[j] = by[j]
      /\ UNCHANGED <<saved, failed>>
  BY DEF SubmitTurn, NextUp, Typed
<1>4. \A l \in Loop : loop'[l].pc # "off" => fn'[l] # NoInstruction
  <2>1. CASE loop' = loop /\ fn' = fn
    BY <2>1 DEF SocketInv
  <2>2. CASE /\ SubmitQueued(i)
             /\ fn' = IF channel = "ws" /\ loop' # loop THEN [fn EXCEPT ![task'] = i] ELSE fn
    <3>1. CASE loop' = loop
      BY <2>1, <2>2, <3>1
    <3>2. CASE loop' # loop
      <4>1. PICK l \in Loop : task' = l /\ loop' = [loop EXCEPT ![l] = Waiting]
        BY <2>2, <3>2 DEF SubmitQueued, StartWorker
      <4>2. fn' = [fn EXCEPT ![l] = i]
        BY <2>2, <3>2, <4>1
      <4>3. \A m \in Loop : m # l => fn'[m] = fn[m] /\ loop'[m] = loop[m]
        BY <4>1, <4>2 DEF Typed, TypeOK
      <4>4. fn'[l] = i /\ i # NoInstruction
        BY <4>2, NoneAssumption DEF Typed
      <4> QED
        BY <4>3, <4>4 DEF SocketInv
    <3> QED
      BY <3>1, <3>2
  <2> QED
    BY <2>1, <2>2 DEF SubmitTurn, SubmitParallel, SubmitRejected, session
<1>5. i # NoInstruction
  BY NoneAssumption
<1>6. ASSUME NEW j \in Instruction
      PROVE  /\ turn'[j].pc \in {"none", "queued", "refused", "given", "over"}
             /\ turn'[j].pc \in {"given", "over"} => by'[j] # NoInstruction
             /\ caller'[j] = "waiting" =>
                  /\ turn'[j].pc \in {"queued", "given", "over"}
                  /\ turn'[j].pc = "over" => by'[j] # j \/ j \in failed'
  <2>1. CASE j = i
    BY <1>2, <1>5, <2>1
  <2>2. CASE j # i
    <3>1. turn'[j] = turn[j]
      BY <1>0, <1>1, <2>2
    <3> QED
      BY <1>3, <2>2, <3>1 DEF SocketInv
  <2> QED
    BY <2>1, <2>2
<1> QED
  BY <1>3, <1>4, <1>6 DEF SocketInv

LEMMA SocketTakes ==
  ASSUME Typed, PlaceInv, SocketInv, NEW l \in Loop, TakeTurn(l)
  PROVE  SocketInv'
<1>0. Instruction \subseteq Turn
  BY DEF Turn
<1>1. PICK i \in Instruction : i = Head(queue) /\ turn[i].pc = "queued"
  <2>1. 1 \in DOMAIN queue /\ Head(queue) = queue[1] /\ queue[1] \in Instruction
    BY DEF TakeTurn, Take, Typed, TypeOK
  <2> QED
    BY <2>1 DEF PlaceInv, QueueTurnInv
<1>2. /\ turn'[i].pc = "given"
      /\ \A u \in Turn : u # i => turn'[u] = turn[u]
  BY <1>0, <1>1, AtPc, Pcs DEF TakeTurn, Typed
<1>3. /\ by'[i] = fn[l] /\ \A j \in Instruction : j # i => by'[j] = by[j]
      /\ UNCHANGED <<fn, saved, failed, caller>>
  BY <1>1 DEF TakeTurn, Typed
<1>4. fn[l] # NoInstruction
  BY DEF SocketInv, TakeTurn, Take
<1>5. \A m \in Loop : loop'[m].pc # "off" => fn'[m] # NoInstruction
  BY <1>3, <1>4 DEF SocketInv, TakeTurn, Take, Typed, TypeOK
<1>6. ASSUME NEW j \in Instruction
      PROVE  /\ turn'[j].pc \in {"none", "queued", "refused", "given", "over"}
             /\ turn'[j].pc \in {"given", "over"} => by'[j] # NoInstruction
             /\ caller'[j] = "waiting" =>
                  /\ turn'[j].pc \in {"queued", "given", "over"}
                  /\ turn'[j].pc = "over" => by'[j] # j \/ j \in failed'
  BY <1>0, <1>2, <1>3, <1>4 DEF SocketInv
<1> QED
  BY <1>3, <1>5, <1>6 DEF SocketInv

LEMMA SocketSame ==
  ASSUME SocketInv,
         \A i \in Instruction : turn'[i].pc = turn[i].pc,
         \A i \in Instruction : caller'[i] = "waiting" => caller[i] = "waiting",
         \A l \in Loop : loop'[l].pc # "off" => loop[l].pc # "off",
         saved' \cap Instruction = {},
         UNCHANGED <<fn, by, failed>>
  PROVE  SocketInv'
  BY DEF SocketInv

LEMMA SocketThreads ==
  ASSUME Typed, SocketInv, channel = "ws", NEW t \in Turn, ThreadStep(t)
  PROVE  SocketInv'
<1>1. turn[t].pc \in {"agent", "open", "write"}
  BY DEF ThreadStep, Load, SkipDuplicate, ReadStore, SaveNothing, OpenStore, WriteStore
<1>2. t = Visitor /\ t \notin Instruction
  BY <1>1, VisitorAssumption DEF SocketInv, Turn
<1>3. /\ \A i \in Instruction : turn'[i].pc = turn[i].pc
      /\ UNCHANGED <<vars, fn, by, caller, failed>>
  <2>1. Instruction \subseteq Turn
    BY DEF Turn
  <2> QED
    BY <1>2, <2>1, ThreadMoves
<1>4. saved' \cap Instruction = {}
  BY <1>2 DEF SocketInv, ThreadStep, Load, SkipDuplicate, ReadStore, SaveNothing, OpenStore,
              WriteStore
<1> QED
  BY <1>3, <1>4, SocketSame DEF vars, session

LEMMA WaitStep == Typed /\ QueueInv /\ PlaceInv /\ WaitInv /\ [TurnNext]_allVars => WaitInv'
<1> SUFFICES ASSUME Typed, QueueInv, PlaceInv, WaitInv, channel = "ws", [TurnNext]_allVars
             PROVE  WaitInv'
  BY OtherWaits
<1>0. SocketInv /\ Instruction \subseteq Turn
  BY DEF WaitInv, Turn
<1>1. channel' = channel
  <2>1. \A i \in Instruction : Receive(i) => channel' = channel
    BY Zenon DEF Receive
  <2>2. \A i \in Turn : ThreadStep(i) => channel' = channel
    BY ThreadMoves
  <2> QED
    BY <1>0, <2>1, <2>2
       DEF TurnNext, Worker, SubmitTurn, TakeTurn, ThreadStep, EndParallelTurn, FinishTurn,
           TurnEnds, CancelTurn, GiveUp, CollectSession, turnVars, allVars
<1>2. SUFFICES SocketInv'
  BY <1>1 DEF WaitInv
<1>3. ASSUME NEW t \in Turn, ThreadStep(t) PROVE SocketInv'
  BY <1>0, <1>3, SocketThreads
<1>4. ASSUME NEW i \in Instruction, SubmitTurn(i) PROVE SocketInv'
  BY <1>0, <1>4, SocketSubmits
<1>5. ASSUME NEW i \in Instruction, Receive(i) PROVE SocketInv'
  BY <1>5, Zenon DEF Receive
<1>6. ASSUME NEW i \in Instruction, GiveUp(i) PROVE SocketInv'
  BY <1>0, <1>6, SocketSame DEF GiveUp, Typed, vars, session, SocketInv
<1>7. ASSUME NEW l \in Loop, TakeTurn(l) PROVE SocketInv'
  BY <1>0, <1>7, SocketTakes
<1>8. ASSUME NEW l \in Loop, FinishTurn(l) \/ CancelTurn(l) PROVE SocketInv'
  <2>1. PICK i \in Instruction : /\ loop[l].pc = "busy" /\ i = loop[l].inst
                                 /\ turn[i].pc \in Begun
    BY <1>8 DEF FinishTurn, Finish, CancelTurn, Cancelled, PlaceInv, ExecutingInv
  <2>2. TurnEnds(i) \/ (Fails(i) /\ UNCHANGED <<by, fn, saved>>)
    BY <1>8, <2>1 DEF FinishTurn, CancelTurn
  <2>3. \A m \in Loop : loop'[m].pc # "off" => loop[m].pc # "off"
    BY <1>8, <2>1 DEF FinishTurn, Finish, CancelTurn, Cancelled, End, Off, Waiting,
                      Typed, TypeOK
  <2> QED
    BY <1>0, <2>1, <2>2, <2>3, SocketEnds
<1>9. ASSUME NEW i \in Instruction, EndParallelTurn(i) PROVE SocketInv'
  <2>1. turn[i].pc \in Begun /\ TurnEnds(i) /\ loop' = loop
    BY <1>9 DEF EndParallelTurn, EndParallel, PlaceInv, ExecutingInv
  <2> QED
    BY <1>0, <2>1, SocketEnds
<1>10. ASSUME NEW l \in Loop, (Leave(l) \/ IdleTimeout(l)) /\ UNCHANGED turnVars
       PROVE SocketInv'
  <2>1. \A m \in Loop : loop'[m].pc # "off" => loop[m].pc # "off"
    BY <1>10 DEF Leave, End, IdleTimeout, Off, Leaving, Typed, TypeOK
  <2> QED
    BY <1>0, <1>10, <2>1, SocketSame DEF turnVars, SocketInv
<1>11. ASSUME CollectSession PROVE SocketInv'
  BY <1>0, <1>11, SocketSame DEF CollectSession, Collect, SocketInv
<1>12. ASSUME UNCHANGED allVars PROVE SocketInv'
  BY <1>0, <1>12, SocketSame DEF allVars, turnVars, vars, session, SocketInv
<1> QED
  BY <1>0, <1>3, <1>4, <1>5, <1>6, <1>7, <1>8, <1>9, <1>10, <1>11, <1>12
     DEF TurnNext, Worker, ThreadStep

LEMMA WaitInit == TurnInit => WaitInv
<1> SUFFICES ASSUME TurnInit PROVE WaitInv
  OBVIOUS
<1>1. \A i \in Instruction : turn[i].pc = "none" /\ caller[i] = "none"
  BY VisitorAssumption DEF TurnInit, Turn
<1>2. \A l \in Loop : loop[l].pc = "off"
  BY DEF TurnInit, Init, Off
<1>3. saved = {}
  BY DEF TurnInit
<1> QED
  BY <1>1, <1>2, <1>3 DEF WaitInv, SocketInv

LEMMA Waits == Typed /\ PlaceInv /\ WaitInv => WaitsAccounted
<1> SUFFICES ASSUME Typed, PlaceInv, WaitInv, NEW i \in Instruction,
                    caller[i] = "waiting", i \notin UnderWay,
                    i \notin failed \cup collected
             PROVE  by[i] \notin {i, NoInstruction}
  BY DEF WaitsAccounted
<1>1. SocketInv
  BY DEF WaitInv
<1>2. turn[i].pc = "over"
  BY <1>1 DEF SocketInv, UnderWay, PlaceInv, ToldInv
<1> QED
  BY <1>1, <1>2 DEF SocketInv

(* A connection does not wait for an event that nobody will set, unless    *)
(* its worker was started with another message, its turn failed, or it     *)
(* went with the session.                                                  *)
THEOREM WaitsAreAccounted == TurnSpec => []WaitsAccounted
<1>1. BaseTurnInv /\ WaitInv /\ [TurnNext]_allVars => WaitInv'
  BY WaitStep DEF BaseTurnInv
<1>2. BaseTurnInv /\ WaitInv => WaitsAccounted
  BY Waits DEF BaseTurnInv
<1> QED
  BY <1>1, <1>2, WaitInit, BaseAlways, PTL DEF TurnSpec

-----------------------------------------------------------------------------
(* The steps of the threads apart, no turn begins or ends to use the file. *)
OtherMove ==
  /\ \A t \in Turn :
       /\ turn'[t].base = turn[t].base /\ turn'[t].data = turn[t].data
       /\ Working(t) \/ turn'[t].pc \in {"agent", "open", "write"} => turn'[t].pc = turn[t].pc
       /\ t \in saved /\ turn[t].pc = "over" => turn'[t].pc = "over"
  /\ UNCHANGED <<store, loaded, saved, crossed>>

LEMMA AtMove ==
  ASSUME Typed, NEW i \in Instruction, NEW p \in TurnPc, At(i, p), ~Working(i),
         p \notin {"agent", "open", "write"}, i \in saved => turn[i].pc # "over" \/ p = "over",
         UNCHANGED <<store, loaded, saved, crossed>>
  PROVE  OtherMove
<1>1. i \in Turn
  BY DEF Turn
<1>2. \A u \in Turn : /\ turn'[u].pc = IF u = i THEN p ELSE turn[u].pc
                      /\ turn'[u].base = turn[u].base
                      /\ turn'[u].data = turn[u].data
  BY AtPc DEF Typed
<1> QED
  BY <1>1, <1>2 DEF OtherMove, Working

LEMMA SameMove ==
  ASSUME UNCHANGED <<turn, store, loaded, saved, crossed>> PROVE OtherMove
  BY DEF OtherMove

LEMMA EndMove ==
  ASSUME Typed, PlaceInv, WaitInv, NEW i \in Instruction, turn[i].pc \in Begun,
         TurnEnds(i) \/ (channel = "ws" /\ Fails(i) /\ UNCHANGED <<store, loaded, saved, crossed>>)
  PROVE  OtherMove
<1>1. UNCHANGED <<store, loaded, saved, crossed>>
  BY DEF TurnEnds
<1>2. CASE UNCHANGED turn
  BY <1>1, <1>2, SameMove
<1>3. CASE channel = "ws" /\ At(i, "over")
  <2>1. ~Working(i)
    BY <1>3 DEF WaitInv, SocketInv, Working
  <2> QED
    BY <1>1, <1>3, <2>1, AtMove, Pcs
<1>4. CASE At(i, "dropped") /\ ~Working(i) /\ turn[i].pc # "over"
  BY <1>1, <1>4, AtMove, Pcs
<1> QED
  BY <1>2, <1>3, <1>4 DEF TurnEnds, Overrun, Fails

LEMMA Moves ==
  Typed /\ PlaceInv /\ WaitInv /\ [TurnNext]_allVars =>
    OtherMove \/ \E t \in Turn : ThreadStep(t)
<1> SUFFICES ASSUME Typed, PlaceInv, WaitInv, [TurnNext]_allVars,
                    \A t \in Turn : ~ThreadStep(t)
             PROVE  OtherMove
  OBVIOUS
<1>0. Instruction \subseteq Turn
  BY DEF Turn
<1>1. ASSUME NEW i \in Instruction, Receive(i) PROVE OtherMove
  <2>1. /\ turn[i].pc = "none" /\ UNCHANGED <<store, loaded, saved, crossed>>
        /\ At(i, "arrived") \/ At(i, "given")
    BY <1>1, Zenon DEF Receive
  <2> QED
    BY <2>1, AtMove, Pcs DEF Working
<1>2. ASSUME NEW i \in Instruction, SubmitTurn(i) PROVE OtherMove
  <2>1. ~Working(i) /\ (i \in saved => turn[i].pc # "over")
    <3>1. CASE channel = "siq"
      <4>1. turn[i].pc = "arrived"
        BY <1>2, <3>1 DEF SubmitTurn, NextUp, PlaceInv, InboxInv, Typed
      <4> QED
        BY <4>1 DEF Working
    <3>2. CASE channel = "ws"
      BY <3>2 DEF WaitInv, SocketInv, Working
    <3> QED
      BY <1>2, <3>1, <3>2 DEF SubmitTurn, NextUp
  <2>2. UNCHANGED <<store, loaded, saved, crossed>>
    BY <1>2 DEF SubmitTurn
  <2>3. At(i, "given") \/ At(i, "queued") \/ At(i, "refused")
    BY <1>2 DEF SubmitTurn
  <2> QED
    BY <2>1, <2>2, <2>3, AtMove, Pcs
<1>3. ASSUME NEW l \in Loop, TakeTurn(l) PROVE OtherMove
  <2>1. 1 \in DOMAIN queue /\ Head(queue) = queue[1] /\ queue[1] \in Instruction
    BY <1>3 DEF TakeTurn, Take, Typed, TypeOK
  <2>2. turn[queue[1]].pc = "queued"
    BY <2>1 DEF PlaceInv, QueueTurnInv
  <2>3. At(queue[1], "given") /\ UNCHANGED <<store, loaded, saved, crossed>>
    BY <1>3, <2>1 DEF TakeTurn
  <2> QED
    BY <2>1, <2>2, <2>3, AtMove, Pcs DEF Working
<1>4. ASSUME NEW l \in Loop, FinishTurn(l) \/ CancelTurn(l) PROVE OtherMove
  <2>1. PICK i \in Instruction : i = loop[l].inst /\ turn[i].pc \in Begun
    BY <1>4 DEF FinishTurn, Finish, CancelTurn, Cancelled, PlaceInv, ExecutingInv
  <2>2. TurnEnds(i) \/ (channel = "ws" /\ Fails(i) /\ UNCHANGED <<store, loaded, saved, crossed>>)
    BY <1>4, <2>1 DEF FinishTurn, CancelTurn
  <2> QED
    BY <2>1, <2>2, EndMove
<1>5. ASSUME NEW i \in Instruction, EndParallelTurn(i) PROVE OtherMove
  BY <1>5, EndMove DEF EndParallelTurn, EndParallel, PlaceInv, ExecutingInv
<1>6. ASSUME NEW i \in Instruction, GiveUp(i) PROVE OtherMove
  BY <1>6, SameMove DEF GiveUp
<1>7. ASSUME CollectSession PROVE OtherMove
  BY <1>7, SameMove DEF CollectSession
<1>8. ASSUME UNCHANGED turnVars PROVE OtherMove
  BY <1>8, SameMove DEF turnVars
<1> QED
  BY <1>0, <1>1, <1>2, <1>3, <1>4, <1>5, <1>6, <1>7, <1>8
     DEF TurnNext, Worker, ThreadStep, allVars

(* What no step changes, or changes back. *)
LEMMA Latches ==
  Typed /\ [TurnNext]_allVars =>
    /\ UNCHANGED <<mode, channel>>
    /\ outlived => outlived'
    /\ crossed => crossed'
<1> SUFFICES ASSUME Typed, [TurnNext]_allVars
             PROVE  UNCHANGED <<mode, channel>> /\ (outlived => outlived')
                    /\ (crossed => crossed')
  OBVIOUS
<1>1. mode' = mode
  BY QueueStep
     DEF Next, Submit, SubmitParallel, SubmitQueued, SubmitRejected, EndParallel, LoopStep,
         Take, Leave, End, Finish, Cancelled, IdleTimeout, Collect, vars
<1>2. ASSUME NEW i \in Instruction, Receive(i)
      PROVE  UNCHANGED <<channel, outlived, crossed>>
  BY <1>2, Zenon DEF Receive
<1>3. ASSUME NEW i \in Instruction, TurnEnds(i)
      PROVE  UNCHANGED <<channel, crossed>> /\ (outlived => outlived')
  BY <1>3 DEF TurnEnds, Overrun, Fails
<1>4. ASSUME NEW t \in Turn, ThreadStep(t)
      PROVE  UNCHANGED <<channel, outlived>> /\ (crossed => crossed')
  <2>1. UNCHANGED <<channel, outlived>>
    BY <1>4, ThreadMoves
  <2>2. crossed => crossed'
    BY <1>4 DEF ThreadStep, Load, SkipDuplicate, ReadStore, SaveNothing, OpenStore, WriteStore
  <2> QED
    BY <2>1, <2>2
<1>5. ASSUME NEW l \in Loop, FinishTurn(l)
      PROVE  UNCHANGED <<channel, crossed>> /\ (outlived => outlived')
  BY <1>5 DEF FinishTurn, TurnEnds, Overrun, Fails
<1>6. Instruction \subseteq Turn
  BY DEF Turn
<1> QED
  BY <1>1, <1>2, <1>3, <1>4, <1>5, <1>6
     DEF TurnNext, Worker, ThreadStep, SubmitTurn, TakeTurn, EndParallelTurn, CancelTurn, Fails,
         GiveUp, CollectSession, turnVars, allVars

-----------------------------------------------------------------------------
(* Who has a thread: step by step. *)
LEMMA WorkersShrink ==
  Typed /\ PlaceInv /\ WaitInv /\ [TurnNext]_allVars =>
    \A i \in Turn : Working(i)' => Working(i) \/ (Load(i) /\ turn[i].pc = "given")
<1> SUFFICES ASSUME Typed, PlaceInv, WaitInv, [TurnNext]_allVars, NEW i \in Turn, Working(i)'
             PROVE  Working(i) \/ (Load(i) /\ turn[i].pc = "given")
  OBVIOUS
<1>1. CASE OtherMove
  BY <1>1 DEF OtherMove, Working
<1>2. ASSUME NEW t \in Turn, ThreadStep(t)
      PROVE  Working(i) \/ (Load(i) /\ turn[i].pc = "given")
  <2>1. CASE t # i
    BY <1>2, <2>1, ThreadMoves DEF Working
  <2>2. CASE t = i
    <3>1. ~(SkipDuplicate(i) \/ SaveNothing(i) \/ WriteStore(i))
      BY ThreadRecords DEF Working
    <3>2. Load(i) => turn[i].pc = "given"
      BY DEF Load
    <3>3. ReadStore(i) \/ OpenStore(i) => Working(i)
      BY DEF ReadStore, OpenStore, Working
    <3> QED
      BY <1>2, <2>2, <3>1, <3>2, <3>3 DEF ThreadStep
  <2> QED
    BY <2>1, <2>2
<1> QED
  BY <1>1, <1>2, Moves

(* An instruction that is executed still is after a step, unless it ends. *)
LEMMA StillExecuting ==
  ASSUME Typed, QueueInv, PlaceInv, [TurnNext]_allVars, NEW i \in Instruction, Executing(i)
  PROVE  Executing(i)' \/ TurnEnds(i) \/ channel = "ws"
<1>0. ASSUME UNCHANGED <<loop, parallel>> PROVE Executing(i)'
  BY <1>0 DEF Executing
<1>1. ASSUME NEW j \in Instruction, SubmitTurn(j) PROVE Executing(i)'
  <2>1. parallel \subseteq parallel'
    BY <1>1 DEF SubmitTurn, SubmitParallel, SubmitQueued, SubmitRejected, session
  <2>2. \A l \in Loop : loop[l].pc = "busy" => loop'[l] = loop[l]
    <3>1. CASE SubmitQueued(j)
      <4>1. CASE UNCHANGED loop
        BY <4>1
      <4>2. CASE \E l \in Loop : loop[l].pc = "off" /\ loop' = [loop EXCEPT ![l] = Waiting]
        BY <4>2 DEF Typed, TypeOK
      <4> QED
        BY <3>1, <4>1, <4>2 DEF SubmitQueued, StartWorker
    <3>2. CASE SubmitParallel(j) \/ SubmitRejected(j)
      BY <3>2 DEF SubmitParallel, SubmitRejected, session
    <3> QED
      BY <1>1, <3>1, <3>2 DEF SubmitTurn
  <2> QED
    BY <2>1, <2>2 DEF Executing
<1>2. ASSUME NEW l \in Loop, TakeTurn(l) PROVE Executing(i)'
  BY <1>2 DEF TakeTurn, Take, Executing, Typed, TypeOK
<1>3. ASSUME NEW l \in Loop, FinishTurn(l) \/ CancelTurn(l)
      PROVE  Executing(i)' \/ TurnEnds(i) \/ channel = "ws"
  <2>1. CASE loop[l].inst = i
    BY <1>3, <2>1 DEF FinishTurn, CancelTurn
  <2>2. CASE loop[l].inst # i
    <3>1. parallel' = parallel /\ \A m \in Loop : m # l => loop'[m] = loop[m]
      BY <1>3 DEF FinishTurn, Finish, CancelTurn, Cancelled, End, Typed, TypeOK
    <3> QED
      BY <2>2, <3>1 DEF Executing
  <2> QED
    BY <2>1, <2>2
<1>4. ASSUME NEW j \in Instruction, EndParallelTurn(j) PROVE Executing(i)' \/ TurnEnds(i)
  BY <1>4 DEF EndParallelTurn, EndParallel, Executing
<1>5. ASSUME NEW l \in Loop, Leave(l) \/ IdleTimeout(l) PROVE Executing(i)'
  BY <1>5 DEF Leave, End, IdleTimeout, Executing, Typed, TypeOK, history
<1>6. ASSUME CollectSession PROVE Executing(i)'
  BY <1>0, <1>6 DEF CollectSession, Collect
<1>7. ASSUME UNCHANGED vars PROVE Executing(i)'
  BY <1>0, <1>7 DEF vars, session
<1>8. ASSUME NEW j \in Instruction, Receive(j) \/ SkipDuplicate(j) \/ GiveUp(j)
      PROVE  UNCHANGED vars
  BY <1>8, Zenon DEF Receive, SkipDuplicate, GiveUp
<1>9. ASSUME NEW t \in Turn,
             Load(t) \/ ReadStore(t) \/ SaveNothing(t) \/ OpenStore(t) \/ WriteStore(t)
      PROVE UNCHANGED vars
  BY <1>9, Zenon DEF Load, ReadStore, SaveNothing, OpenStore, WriteStore
<1> QED
  BY <1>1, <1>2, <1>3, <1>4, <1>5, <1>6, <1>7, <1>8, <1>9 DEF TurnNext, Worker, allVars

(* Only what is given to a worker or a task comes to have a thread. *)
LEMMA NewlyGiven ==
  ASSUME Typed, PlaceInv, WaitInv, [TurnNext]_allVars, channel = "siq",
         NEW i \in Instruction, turn'[i].pc \in Begun \ {"over"}, ~Executing(i)'
  PROVE  turn[i].pc \in Begun \ {"over"} /\ ~(TurnEnds(i) /\ ~outlived')
<1>0. i \in Turn
  BY DEF Turn
<1>1. ~(TurnEnds(i) /\ ~outlived')
  <2> SUFFICES ASSUME TurnEnds(i), ~outlived' PROVE FALSE
    OBVIOUS
  <2>1. \/ turn[i].pc = "over" /\ UNCHANGED turn
        \/ At(i, "dropped")
    BY DEF TurnEnds, Overrun
  <2>2. At(i, "dropped") => turn'[i].pc = "dropped"
    BY <1>0, AtPc, Pcs DEF Typed
  <2> QED
    BY <2>1, <2>2 DEF Begun
<1> SUFFICES ASSUME turn[i].pc \notin Begun \ {"over"} PROVE FALSE
  BY <1>1
<1>2. turn'[i] # turn[i]
  OBVIOUS
<1>3. ASSUME NEW t \in Turn, ThreadStep(t) PROVE FALSE
  BY <1>0, <1>2, <1>3, ThreadMoves
<1>4. ASSUME NEW j \in Instruction, Receive(j) PROVE FALSE
  <2>1. At(j, "arrived")
    BY <1>4, Zenon DEF Receive
  <2> QED
    BY <1>0, <1>2, <2>1, AtPc, Pcs DEF Typed, Begun
<1>5. ASSUME NEW j \in Instruction, SubmitTurn(j) PROVE FALSE
  <2>1. CASE SubmitParallel(j) /\ At(j, "given")
    <3>1. j = i
      BY <1>0, <1>2, <2>1, AtPc, Pcs DEF Typed
    <3> QED
      BY <2>1, <3>1 DEF SubmitParallel, Executing
  <2>2. CASE At(j, "queued") \/ At(j, "refused")
    BY <1>0, <1>2, <2>2, AtPc, Pcs DEF Typed, Begun
  <2> QED
    BY <1>5, <2>1, <2>2 DEF SubmitTurn
<1>6. ASSUME NEW l \in Loop, TakeTurn(l) PROVE FALSE
  <2>1. At(Head(queue), "given")
    BY <1>6 DEF TakeTurn
  <2>2. Head(queue) = i
    BY <1>0, <1>2, <2>1, AtPc, Pcs DEF Typed
  <2>3. loop'[l] = [pc |-> "busy", inst |-> i]
    BY <1>6, <2>2 DEF TakeTurn, Take, Typed, TypeOK
  <2> QED
    BY <2>3 DEF Executing
<1>7. ASSUME NEW j \in Instruction, TurnEnds(j) PROVE FALSE
  BY <1>0, <1>2, <1>7, EndMoves DEF Begun
<1>8. ASSUME NEW l \in Loop, FinishTurn(l) PROVE FALSE
  <2>1. loop[l].inst \in Instruction
    BY <1>8 DEF FinishTurn, Finish, PlaceInv, ExecutingInv
  <2> QED
    BY <1>7, <1>8, <2>1 DEF FinishTurn
<1>9. ASSUME UNCHANGED turn PROVE FALSE
  BY <1>2, <1>9
<1>10. Instruction \subseteq Turn
  BY DEF Turn
<1> QED
  BY <1>3, <1>4, <1>5, <1>6, <1>7, <1>8, <1>9, <1>10
     DEF TurnNext, Worker, ThreadStep, EndParallelTurn, CancelTurn, GiveUp, CollectSession,
         turnVars, allVars

LEMMA ThreadInvStep ==
  Typed /\ QueueInv /\ PlaceInv /\ WaitInv /\ ThreadInv /\ [TurnNext]_allVars => ThreadInv'
<1> SUFFICES ASSUME Typed, QueueInv, PlaceInv, WaitInv, ThreadInv, [TurnNext]_allVars
             PROVE  ThreadInv'
  OBVIOUS
<1>0. UNCHANGED channel /\ (outlived => outlived') /\ Instruction \subseteq Turn
  BY Latches DEF Turn
<1>1. ASSUME channel = "siq", ~outlived', NEW i \in Instruction,
             turn'[i].pc \in Begun \ {"over"}, ~Executing(i)'
      PROVE  FALSE
  <2>1. turn[i].pc \in Begun \ {"over"} /\ ~TurnEnds(i)
    BY <1>1, NewlyGiven
  <2>2. Executing(i)
    BY <1>0, <1>1, <2>1 DEF ThreadInv
  <2> QED
    BY <1>1, <2>1, <2>2, StillExecuting
<1>2. ASSUME channel = "pool", NEW i \in Instruction, NEW j \in Instruction,
             Working(i)', Working(j)'
      PROVE  i = j
  <2>1. /\ Working(i) \/ Load(i)
        /\ Working(j) \/ Load(j)
    BY <1>0, <1>2, WorkersShrink
  <2>2. i # Visitor /\ j # Visitor
    BY VisitorAssumption
  <2>3. CASE Working(i) /\ Working(j)
    BY <1>2, <2>3 DEF ThreadInv
  <2>4. ASSUME NEW t \in Instruction, NEW u \in Instruction, Load(t), Working(u), Working(u)'
        PROVE  FALSE
    BY <1>2, <2>4, VisitorAssumption DEF Load, Admitted
  <2>5. CASE Load(i) /\ Load(j)
    <3>1. turn[i].pc = "given" /\ turn[j].pc = "given"
      BY <2>5 DEF Load
    <3>2. \A u \in Turn : u # i => turn'[u] = turn[u]
      BY <1>0, <2>5, ThreadMoves DEF ThreadStep
    <3> QED
      BY <1>0, <1>2, <3>1, <3>2 DEF Working
  <2> QED
    BY <1>2, <2>1, <2>3, <2>4, <2>5
<1> QED
  BY <1>0, <1>1, <1>2 DEF ThreadInv

-----------------------------------------------------------------------------
(* The file, step by step. *)
LEMMA StoreStep ==
  Typed /\ PlaceInv /\ WaitInv /\ StoreInv /\ [TurnNext]_allVars => StoreInv'
<1> SUFFICES ASSUME Typed, PlaceInv, WaitInv, StoreInv, [TurnNext]_allVars, ~crossed'
             PROVE  StoreInv'
  BY DEF StoreInv
<1>0. ~crossed
  BY Latches
<1>1. CASE OtherMove
  <2>1. Saving' = Saving
    BY <1>1 DEF OtherMove, Saving, Working
  <2> QED
    BY <1>0, <1>1, <2>1 DEF OtherMove, StoreInv, Working
<1>2. ASSUME NEW t \in Turn, ThreadStep(t), turn[t].pc \notin {"open", "write"},
             turn'[t].pc \notin {"open", "write"}, store' = store
      PROVE  StoreInv'
  <2>1. \A u \in Turn : u # t => turn'[u] = turn[u]
    BY <1>2, ThreadMoves
  <2>2. Saving' = Saving
    BY <1>2, <2>1 DEF Saving
  <2> QED
    BY <1>0, <1>2, <2>1, <2>2 DEF StoreInv
<1>3. ASSUME NEW t \in Turn, Load(t) \/ SkipDuplicate(t) \/ SaveNothing(t) PROVE StoreInv'
  <2>1. turn[t].pc \notin {"open", "write"} /\ store' = store
    BY <1>3 DEF Load, SkipDuplicate, SaveNothing
  <2>2. turn'[t].pc \notin {"open", "write"}
    BY <1>3, ThreadRecords
  <2> QED
    BY <1>2, <1>3, <2>1, <2>2 DEF ThreadStep
<1>4. ASSUME NEW t \in Turn, ReadStore(t) PROVE StoreInv'
  <2>1. Saving = {} /\ store' = store
    BY <1>4 DEF ReadStore
  <2>2. /\ \A u \in Turn : u # t => turn'[u] = turn[u]
        /\ turn'[t].pc = "open" /\ turn'[t].data = store.lists
    BY <1>4, ThreadMoves, ThreadRecords DEF ThreadStep
  <2>3. \A u \in Turn : turn[u].pc \notin {"open", "write"}
    BY <2>1 DEF Saving
  <2>4. Saving' = {t}
    BY <2>2, <2>3 DEF Saving
  <2>5. store = Json(store.lists)
    BY <1>0, <2>1 DEF StoreInv, Json, Typed, StoreRecord
  <2> QED
    BY <2>1, <2>2, <2>3, <2>4, <2>5 DEF StoreInv
<1>5. ASSUME NEW t \in Turn, OpenStore(t) \/ WriteStore(t)
      PROVE  /\ t \in Saving /\ \A u \in Saving : u = t
             /\ \A u \in Turn : u # t => turn'[u] = turn[u] /\ turn[u].pc \notin {"open", "write"}
  <2>1. t \in Saving
    BY <1>5 DEF OpenStore, WriteStore, Saving
  <2> QED
    BY <1>0, <1>5, <2>1, ThreadMoves DEF ThreadStep, StoreInv, Saving
<1>6. ASSUME NEW t \in Turn, OpenStore(t) PROVE StoreInv'
  <2>1. turn'[t].pc = "write" /\ store' = Empty
    BY <1>6, ThreadRecords DEF OpenStore
  <2>2. Saving' = {t}
    BY <1>5, <1>6, <2>1 DEF Saving
  <2> QED
    BY <1>5, <1>6, <2>1, <2>2 DEF StoreInv
<1>7. ASSUME NEW t \in Turn, WriteStore(t) PROVE StoreInv'
  <2>1. turn'[t].pc = "over"
    BY <1>7, ThreadRecords
  <2>2. Saving' = {}
    BY <1>5, <1>7, <2>1 DEF Saving
  <2>3. store' = Json(Written(t))
    BY <1>0, <1>7 DEF StoreInv, WriteStore
  <2>4. \A u \in Turn : turn'[u].pc \notin {"open", "write"}
    BY <2>2 DEF Saving
  <2> QED
    BY <2>2, <2>3, <2>4 DEF StoreInv, Json
<1> QED
  BY <1>1, <1>3, <1>4, <1>6, <1>7, Moves DEF ThreadStep

LEMMA HeldByOne ==
  ASSUME NEW S, NEW t \in S, \A u \in S : u = t, NEW lists, NEW turns
  PROVE  Held(S, lists, turns) = turns[t].data
<1>1. (CHOOSE u \in S : TRUE) = t
  OBVIOUS
<1>2. S # {}
  OBVIOUS
<1> QED
  BY <1>1, <1>2 DEF Held

LEMMA HeldByNone ==
  ASSUME NEW lists, NEW turns PROVE Held({}, lists, turns) = lists
  BY DEF Held

LEMMA HeldByRest ==
  ASSUME NEW S, NEW lists, NEW turns, NEW others,
         \A u \in S : others[u].data = turns[u].data
  PROVE  Held(S, lists, others) = Held(S, lists, turns)
  BY DEF Held

LEMMA ContentsTyped == Typed => Contents \in Lists
<1> SUFFICES ASSUME Typed PROVE Contents \in Lists
  OBVIOUS
<1>1. CASE Saving = {}
  BY <1>1 DEF Contents, Held, Typed, StoreRecord
<1>2. CASE Saving # {}
  <2>1. (CHOOSE u \in Saving : TRUE) \in Turn
    BY <1>2 DEF Saving
  <2> QED
    BY <1>2, <2>1 DEF Contents, Held, Typed, TurnRecord
<1> QED
  BY <1>1, <1>2

(* A file that parses is what is to be had. *)
LEMMA ContentsOfJson ==
  Typed /\ StoreInv /\ ~crossed /\ store.form = "json" => store.lists = Contents
<1> SUFFICES ASSUME Typed, StoreInv, ~crossed, store.form = "json"
             PROVE  store.lists = Contents
  OBVIOUS
<1>1. CASE Saving = {}
  BY <1>1, HeldByNone DEF Contents
<1>2. ASSUME NEW t \in Saving PROVE store.lists = Contents
  <2>1. t \in Turn /\ turn[t].pc \in {"open", "write"} /\ \A u \in Saving : u = t
    BY <1>2 DEF Saving, StoreInv
  <2>2. turn[t].pc # "write"
    BY <2>1 DEF StoreInv, Empty
  <2>3. store = Json(turn[t].data)
    BY <2>1, <2>2 DEF StoreInv
  <2>4. Contents = turn[t].data
    BY <1>2, <2>1, HeldByOne DEF Contents
  <2> QED
    BY <2>3, <2>4 DEF Json
<1> QED
  BY <1>1, <1>2

(* While the threads save one after the other, the contents change only    *)
(* when one of them writes, and then in its own list only.                 *)
LEMMA ContentsStep ==
  ASSUME Typed, PlaceInv, WaitInv, StoreInv, [TurnNext]_allVars, ~crossed'
  PROVE  \/ /\ ~\E t \in Turn : WriteStore(t)
            /\ Contents' = Contents
         \/ \E t \in Turn :
              /\ WriteStore(t) /\ t \in Saving /\ \A u \in Saving : u = t
              /\ Contents' = [Contents EXCEPT ![KeyOf(t)] = turn[t].base]
<1>0. ~crossed
  BY Latches
<1>1. ASSUME NEW t \in Turn, WriteStore(t)
      PROVE  /\ t \in Saving /\ \A u \in Saving : u = t
             /\ Contents' = [Contents EXCEPT ![KeyOf(t)] = turn[t].base]
  <2>1. t \in Saving /\ \A u \in Saving : u = t
    BY <1>0, <1>1 DEF WriteStore, Saving, StoreInv
  <2>2. Contents = turn[t].data
    BY <2>1, HeldByOne DEF Contents
  <2>3. turn'[t].pc = "over" /\ \A u \in Turn : u # t => turn'[u] = turn[u]
    BY <1>1, ThreadRecords, ThreadMoves DEF ThreadStep
  <2>4. Saving' = {}
    BY <2>1, <2>3 DEF Saving
  <2>5. store' = Json(Written(t))
    BY <1>0, <1>1 DEF StoreInv, WriteStore
  <2>6. Contents' = Written(t)
    BY <2>4, <2>5, HeldByNone DEF Contents, Json
  <2> QED
    BY <2>1, <2>2, <2>6 DEF Written
<1> SUFFICES ASSUME ~\E t \in Turn : WriteStore(t) PROVE Contents' = Contents
  BY <1>1
<1>2. ASSUME Saving' = Saving, store' = store,
             \A u \in Saving : turn'[u].data = turn[u].data
      PROVE  Contents' = Contents
  BY <1>2, HeldByRest DEF Contents
<1>3. CASE OtherMove
  <2>1. Saving' = Saving
    BY <1>3 DEF OtherMove, Saving, Working
  <2> QED
    BY <1>2, <1>3, <2>1 DEF OtherMove, Saving
<1>4. ASSUME NEW t \in Turn, Load(t) \/ SkipDuplicate(t) \/ SaveNothing(t)
      PROVE  Contents' = Contents
  <2>1. turn[t].pc \notin {"open", "write"} /\ store' = store
    BY <1>4 DEF Load, SkipDuplicate, SaveNothing
  <2>2. turn'[t].pc \notin {"open", "write"}
    BY <1>4, ThreadRecords
  <2>3. \A u \in Turn : u # t => turn'[u] = turn[u]
    BY <1>4, ThreadMoves DEF ThreadStep
  <2>4. Saving' = Saving
    BY <2>1, <2>2, <2>3 DEF Saving
  <2> QED
    BY <1>2, <2>1, <2>3, <2>4 DEF Saving
<1>5. ASSUME NEW t \in Turn, ReadStore(t) PROVE Contents' = Contents
  <2>1. Saving = {} /\ store' = store
    BY <1>5 DEF ReadStore
  <2>2. /\ \A u \in Turn : u # t => turn'[u] = turn[u]
        /\ turn'[t].pc = "open" /\ turn'[t].data = store.lists
    BY <1>5, ThreadMoves, ThreadRecords DEF ThreadStep
  <2>3. \A u \in Turn : turn[u].pc \notin {"open", "write"}
    BY <2>1 DEF Saving
  <2>4. t \in Saving' /\ \A u \in Saving' : u = t
    BY <2>2, <2>3 DEF Saving
  <2>5. Contents' = store.lists
    BY <2>2, <2>4, HeldByOne DEF Contents
  <2>6. Contents = store.lists
    BY <2>1, HeldByNone DEF Contents
  <2> QED
    BY <2>5, <2>6
<1>6. ASSUME NEW t \in Turn, OpenStore(t) PROVE Contents' = Contents
  <2>1. t \in Saving /\ \A u \in Saving : u = t
    BY <1>0, <1>6 DEF OpenStore, Saving, StoreInv
  <2>2. /\ turn'[t].pc = "write" /\ turn'[t].data = turn[t].data
        /\ \A u \in Turn : u # t => turn'[u] = turn[u]
    BY <1>6, ThreadRecords, ThreadMoves DEF ThreadStep
  <2>3. t \in Saving' /\ \A u \in Saving' : u = t
    BY <2>1, <2>2 DEF Saving
  <2>4. Contents = turn[t].data
    BY <2>1, HeldByOne DEF Contents
  <2>5. Contents' = turn'[t].data
    BY <2>3, HeldByOne DEF Contents
  <2> QED
    BY <2>2, <2>4, <2>5
<1> QED
  BY <1>3, <1>4, <1>5, <1>6, Moves DEF ThreadStep

-----------------------------------------------------------------------------
(* The history, step by step.  In SERIAL mode one thread works for the     *)
(* chat: the instruction that is executed has it, or the lock.             *)
Serial == mode = "SERIAL" /\ ~outlived

LEMMA OneIsExecuted ==
  ASSUME QueueInv, mode = "SERIAL", NEW i, NEW j, Executing(i), Executing(j)
  PROVE  i = j
<1>1. parallel = {}
  <2>1. IsFiniteSet(parallel) /\ Cardinality(parallel) = 0
    BY DEF QueueInv, Counted
  <2> QED
    BY <2>1, FS_EmptySet
<1>2. PICK l \in Loop : loop[l].pc = "busy" /\ loop[l].inst = i
  BY <1>1 DEF Executing
<1>3. PICK m \in Loop : loop[m].pc = "busy" /\ loop[m].inst = j
  BY <1>1 DEF Executing
<1>4. l = task /\ m = task
  BY <1>2, <1>3 DEF QueueInv, OneWorker
<1> QED
  BY <1>2, <1>3, <1>4

LEMMA OneWorks ==
  ASSUME Typed, QueueInv, WaitInv, ThreadInv, Serial,
         NEW i \in Instruction, NEW j \in Instruction, Working(i), Working(j) \/ Load(j)
  PROVE  i = j /\ ~Load(j)
<1>1. Load(j) => turn[j].pc = "given" /\ ~Working(j)
  BY DEF Load, Working
<1>2. CASE channel = "siq"
  <2>1. turn[i].pc \in Begun \ {"over"} /\ turn[j].pc \in Begun \ {"over"}
    BY <1>1 DEF Working, Begun
  <2>2. Executing(i) /\ Executing(j)
    BY <1>2, <2>1 DEF ThreadInv, Serial
  <2>3. i = j
    BY <2>2, OneIsExecuted DEF Serial
  <2> QED
    BY <1>1, <2>3
<1>3. CASE channel = "pool"
  <2>1. ~Load(j)
    BY <1>3, VisitorAssumption DEF Load, Admitted
  <2> QED
    BY <1>3, <2>1 DEF ThreadInv
<1>4. CASE channel = "ws"
  BY <1>4 DEF WaitInv, SocketInv, Working
<1> QED
  BY <1>2, <1>3, <1>4 DEF Typed

(* Two turns at work have lists of their own. *)
LEMMA OwnLists ==
  ASSUME Typed, QueueInv, WaitInv, ThreadInv, ~outlived,
         NEW t \in Turn, NEW u \in Turn, Working(t), Working(u), t # u
  PROVE  KeyOf(t) # KeyOf(u)
<1>1. CASE mode = "PARALLEL"
  BY <1>1, ChatAssumption DEF KeyOf, Turn
<1>2. CASE mode = "SERIAL"
  <2>1. CASE t = Visitor \/ u = Visitor
    BY <1>2, <2>1, ChatAssumption DEF KeyOf
  <2>2. CASE t \in Instruction /\ u \in Instruction
    BY <1>2, <2>2, OneWorks DEF Serial
  <2> QED
    BY <2>1, <2>2 DEF Turn
<1> QED
  BY <1>1, <1>2 DEF Typed, TypeOK

(* What makes up the invariant of the turns. *)
FullInv == BaseTurnInv /\ WaitInv /\ ThreadInv /\ StoreInv

LEMMA BaseInvStep ==
  ASSUME FullInv, [TurnNext]_allVars, ~crossed', ~outlived', HistoryInv
  PROVE  BaseInv'
<1>0. /\ Typed /\ QueueInv /\ PlaceInv /\ WaitInv /\ ThreadInv /\ StoreInv
      /\ ~crossed /\ ~outlived /\ UNCHANGED mode
  BY Latches DEF FullInv, BaseTurnInv
<1>1. BaseInv
  BY <1>0 DEF HistoryInv
<1>2. \A t : KeyOf(t)' = KeyOf(t)
  BY <1>0 DEF KeyOf
<1> SUFFICES ASSUME NEW t \in Turn
             PROVE  /\ turn'[t].pc = "agent" => turn'[t].base = Contents'[KeyOf(t)]
                    /\ turn'[t].pc \in {"open", "write"} =>
                         turn'[t].base \in {Contents'[KeyOf(t)], Append(Contents'[KeyOf(t)], t)}
  BY <1>2 DEF BaseInv, Saving
<1>3. /\ turn[t].pc = "agent" => turn[t].base = Contents[KeyOf(t)]
      /\ turn[t].pc \in {"open", "write"} =>
           turn[t].base \in {Contents[KeyOf(t)], Append(Contents[KeyOf(t)], t)}
  BY <1>1 DEF BaseInv, Saving
<1>4. ASSUME NEW u \in Turn, WriteStore(u), \A s \in Saving : s = u,
             Contents' = [Contents EXCEPT ![KeyOf(u)] = turn[u].base]
      PROVE  /\ turn'[t].pc = "agent" => turn'[t].base = Contents'[KeyOf(t)]
             /\ turn'[t].pc \notin {"open", "write"}
  <2>1. CASE t = u
    BY <1>4, <2>1, ThreadRecords, <1>0
  <2>2. CASE t # u
    <3>1. turn'[t] = turn[t]
      BY <1>0, <1>4, <2>2, ThreadMoves DEF ThreadStep
    <3>2. turn[t].pc \notin {"open", "write"}
      BY <1>4, <2>2 DEF Saving
    <3>3. Working(u)
      BY <1>4 DEF WriteStore, Working
    <3>4. turn[t].pc = "agent" => KeyOf(t) # KeyOf(u)
      BY <1>0, <2>2, <3>3, OwnLists DEF Working
    <3>5. KeyOf(t) \in DOMAIN Contents
      BY <1>0, ContentsTyped, Keys DEF Lists
    <3> QED
      BY <1>3, <1>4, <3>1, <3>2, <3>4, <3>5
  <2> QED
    BY <2>1, <2>2
<1>5. ASSUME ~\E u \in Turn : WriteStore(u), Contents' = Contents
      PROVE  /\ turn'[t].pc = "agent" => turn'[t].base = Contents'[KeyOf(t)]
             /\ turn'[t].pc \in {"open", "write"} =>
                  turn'[t].base \in {Contents'[KeyOf(t)], Append(Contents'[KeyOf(t)], t)}
  <2>1. CASE turn'[t] = turn[t]
    BY <1>3, <1>5, <2>1
  <2>2. CASE OtherMove
    BY <1>3, <1>5, <2>2 DEF OtherMove, Working
  <2>3. CASE Load(t)
    <3>1. store.form = "json"
      BY <2>3 DEF Load
    <3>2. store.lists = Contents
      BY <1>0, <3>1, ContentsOfJson
    <3> QED
      BY <1>0, <1>5, <2>3, <3>2, ThreadRecords
  <2>4. CASE SkipDuplicate(t) \/ SaveNothing(t)
    BY <1>0, <2>4, ThreadRecords
  <2>5. CASE ReadStore(t)
    <3>1. turn[t].pc = "agent"
      BY <2>5 DEF ReadStore
    <3> QED
      BY <1>0, <1>3, <1>5, <2>5, <3>1, ThreadRecords
  <2>6. CASE OpenStore(t)
    <3>1. turn[t].pc = "open"
      BY <2>6 DEF OpenStore
    <3> QED
      BY <1>0, <1>3, <1>5, <2>6, <3>1, ThreadRecords
  <2>7. ASSUME NEW u \in Turn, u # t, ThreadStep(u) PROVE turn'[t] = turn[t]
    BY <1>0, <2>7, ThreadMoves
  <2> QED
    BY <1>0, <1>5, <2>1, <2>2, <2>3, <2>4, <2>5, <2>6, <2>7, Moves DEF ThreadStep
<1> QED
  BY <1>0, <1>4, <1>5, ContentsStep

(* What is saved, when a thread writes. *)
LEMMA SavedMoves ==
  ASSUME FullInv, [TurnNext]_allVars, SavedInv
  PROVE  /\ saved \subseteq saved'
         /\ \A u \in saved : turn'[u].pc = "over"
         /\ \A u \in Turn : WriteStore(u) =>
              /\ u \notin saved /\ turn'[u].pc = "over"
              /\ saved' = IF \E k \in DOMAIN turn[u].base : turn[u].base[k] = u
                            THEN saved \cup {u} ELSE saved
         /\ (~\E u \in Turn : WriteStore(u)) => saved' = saved
<1>0. Typed /\ PlaceInv /\ WaitInv
  BY DEF FullInv, BaseTurnInv
<1>1. CASE OtherMove
  <2>1. saved \subseteq Turn
    BY <1>0 DEF Typed
  <2>2. ASSUME NEW u \in Turn, WriteStore(u) PROVE FALSE
    BY <1>0, <1>1, <2>2, ThreadRecords DEF OtherMove, WriteStore, Working
  <2> QED
    BY <1>1, <2>1, <2>2 DEF OtherMove, SavedInv
<1>2. ASSUME NEW t \in Turn, ThreadStep(t)
      PROVE  /\ saved \subseteq saved'
             /\ \A u \in saved : turn'[u].pc = "over"
             /\ \A u \in Turn : WriteStore(u) =>
                  /\ u \notin saved /\ turn'[u].pc = "over"
                  /\ saved' = IF \E k \in DOMAIN turn[u].base : turn[u].base[k] = u
                                THEN saved \cup {u} ELSE saved
             /\ (~\E u \in Turn : WriteStore(u)) => saved' = saved
  <2>1. turn[t].pc # "over" /\ \A u \in Turn : u # t => turn'[u] = turn[u]
    BY <1>0, <1>2, ThreadMoves
  <2>2. t \notin saved /\ saved \subseteq Turn
    BY <1>0, <2>1 DEF SavedInv, Typed
  <2>3. \A u \in saved : turn'[u].pc = "over"
    BY <2>1, <2>2 DEF SavedInv
  <2>4. ~WriteStore(t) => saved' = saved
    BY <1>2 DEF ThreadStep, Load, SkipDuplicate, ReadStore, SaveNothing, OpenStore
  <2>5. ASSUME NEW u \in Turn, WriteStore(u)
        PROVE  /\ u \notin saved /\ turn'[u].pc = "over"
               /\ saved' = IF \E k \in DOMAIN turn[u].base : turn[u].base[k] = u
                             THEN saved \cup {u} ELSE saved
    <3>1. turn[u].pc = "write" /\ turn'[u].pc = "over"
      BY <1>0, <2>5, ThreadRecords DEF WriteStore
    <3> QED
      BY <2>5, <3>1 DEF WriteStore, SavedInv
  <2>6. saved \subseteq saved'
    BY <1>2, <2>4, <2>5
  <2> QED
    BY <1>2, <2>3, <2>4, <2>5, <2>6
<1> QED
  BY <1>0, <1>1, <1>2, Moves

LEMMA SavedStep ==
  ASSUME FullInv, [TurnNext]_allVars, ~crossed', ~outlived', HistoryInv
  PROVE  SavedInv'
<1>0. /\ Typed /\ QueueInv /\ PlaceInv /\ WaitInv /\ ThreadInv /\ StoreInv
      /\ ~crossed /\ ~outlived /\ UNCHANGED mode
  BY Latches DEF FullInv, BaseTurnInv
<1>1. BaseInv /\ SavedInv
  BY <1>0 DEF HistoryInv
<1>2. \A t : KeyOf(t)' = KeyOf(t)
  BY <1>0 DEF KeyOf
<1>3. \A u \in saved : turn'[u].pc = "over"
  BY <1>1, SavedMoves
<1>4. CASE ~(\E t \in Turn : WriteStore(t)) /\ Contents' = Contents
  <2>1. saved' = saved
    BY <1>1, <1>4, SavedMoves
  <2> QED
    BY <1>1, <1>2, <1>3, <1>4, <2>1 DEF SavedInv
<1>5. ASSUME NEW t \in Turn, WriteStore(t), t \in Saving,
             Contents' = [Contents EXCEPT ![KeyOf(t)] = turn[t].base]
      PROVE  SavedInv'
  <2>1. /\ saved' = IF \E k \in DOMAIN turn[t].base : turn[t].base[k] = t
                      THEN saved \cup {t} ELSE saved
        /\ turn'[t].pc = "over" /\ t \notin saved
    BY <1>1, <1>5, SavedMoves
  <2>2. Contents'[KeyOf(t)] = turn[t].base
    BY <1>0, <1>5, ContentsTyped, Keys DEF Lists
  <2>3. ASSUME NEW u \in saved
        PROVE  \E k \in DOMAIN Contents'[KeyOf(u)] : Contents'[KeyOf(u)][k] = u
    <3>1. PICK k \in DOMAIN Contents[KeyOf(u)] : Contents[KeyOf(u)][k] = u
      BY <1>1 DEF SavedInv
    <3>2. CASE KeyOf(u) # KeyOf(t)
      <4>1. Contents'[KeyOf(u)] = Contents[KeyOf(u)]
        <5>1. u \in Turn
          BY <1>0 DEF Typed
        <5>2. KeyOf(u) \in DOMAIN Contents
          BY <1>0, <5>1, ContentsTyped, Keys DEF Lists
        <5> QED
          BY <1>5, <3>2, <5>2
      <4> QED
        BY <3>1, <4>1
    <3>3. CASE KeyOf(u) = KeyOf(t)
      <4>1. Contents[KeyOf(t)] \in Seq(Turn)
        BY <1>0, ContentsTyped, Keys DEF Lists
      <4>2. turn[t].base \in {Contents[KeyOf(t)], Append(Contents[KeyOf(t)], t)}
        BY <1>1, <1>5 DEF BaseInv
      <4>3. k \in DOMAIN turn[t].base /\ turn[t].base[k] = u
        BY <3>1, <3>3, <4>1, <4>2
      <4> QED
        BY <2>2, <3>3, <4>3
    <3> QED
      BY <3>2, <3>3
  <2>4. t \in saved' => \E k \in DOMAIN Contents'[KeyOf(t)] : Contents'[KeyOf(t)][k] = t
    BY <2>1, <2>2
  <2> QED
    BY <1>2, <1>3, <2>1, <2>3, <2>4 DEF SavedInv
<1> QED
  BY <1>0, <1>4, <1>5, ContentsStep

(* A list goes on following another one to which an entry is added, ... *)
LEMMA FollowsLonger ==
  ASSUME NEW list, NEW order \in Seq(Turn), NEW t \in Turn, Follows(list, order)
  PROVE  Follows(list, Append(order, t))
<1>1. /\ DOMAIN order \subseteq DOMAIN Append(order, t)
      /\ \A m \in DOMAIN order : Append(order, t)[m] = order[m]
  OBVIOUS
<1> QED
  BY <1>1 DEF Follows

(* ... and when the last entry of that one, which it has not, is added. *)
LEMMA FollowsLast ==
  ASSUME NEW list \in Seq(Turn), NEW order \in Seq(Turn), NEW t \in Turn,
         Follows(list, order), order # <<>>, order[Len(order)] = t,
         \A k \in DOMAIN list : list[k] # t
  PROVE  Follows(Append(list, t), order)
<1>1. /\ DOMAIN order = 1..Len(order) /\ Len(order) \in Nat /\ Len(order) \in DOMAIN order
      /\ DOMAIN list = 1..Len(list) /\ Len(list) \in Nat
      /\ DOMAIN Append(list, t) = 1..(Len(list) + 1)
      /\ \A k \in DOMAIN list : Append(list, t)[k] = list[k]
      /\ Append(list, t)[Len(list) + 1] = t
  OBVIOUS
<1>2. \A k \in DOMAIN Append(list, t) : k \in DOMAIN list \/ k = Len(list) + 1
  BY <1>1
<1>3. \A k \in DOMAIN Append(list, t) : \E m \in DOMAIN order : order[m] = Append(list, t)[k]
  BY <1>1, <1>2 DEF Follows
<1>4. ASSUME NEW j \in DOMAIN Append(list, t), NEW k \in DOMAIN Append(list, t), j < k
      PROVE  /\ Append(list, t)[j] # Append(list, t)[k]
             /\ \E m, n \in DOMAIN order : /\ m < n /\ order[m] = Append(list, t)[j]
                                           /\ order[n] = Append(list, t)[k]
  <2>1. j \in DOMAIN list /\ Append(list, t)[j] = list[j]
    BY <1>1, <1>4
  <2>2. CASE k \in DOMAIN list
    BY <1>1, <1>4, <2>1, <2>2 DEF Follows
  <2>3. CASE k = Len(list) + 1
    <3>1. PICK m \in DOMAIN order : order[m] = list[j]
      BY <2>1 DEF Follows
    <3>2. m < Len(order)
      BY <1>1, <2>1, <3>1
    <3> QED
      BY <1>1, <2>1, <2>3, <3>1, <3>2
  <2> QED
    BY <1>2, <2>2, <2>3
<1> QED
  BY <1>3, <1>4 DEF Follows

LEMMA SerialStep ==
  ASSUME FullInv, [TurnNext]_allVars, ~crossed', ~outlived', HistoryInv
  PROVE  SerialInv'
<1>0. /\ Typed /\ QueueInv /\ PlaceInv /\ WaitInv /\ ThreadInv /\ StoreInv
      /\ ~crossed /\ ~outlived /\ UNCHANGED mode /\ Instruction \subseteq Turn
  BY Latches DEF FullInv, BaseTurnInv, Turn
<1>1. BaseInv /\ SavedInv /\ SerialInv
  BY <1>0 DEF HistoryInv
<1> SUFFICES ASSUME mode = "SERIAL" PROVE SerialInv'
  BY <1>0 DEF SerialInv
<1>2. /\ \A k \in DOMAIN Contents[Chat] : Contents[Chat][k] \in saved
      /\ Follows(Contents[Chat], loaded)
      /\ \A i \in Instruction : Working(i) => loaded # <<>> /\ loaded[Len(loaded)] = i
  BY <1>1 DEF SerialInv
<1>3. Contents[Chat] \in Seq(Turn) /\ Chat \in DOMAIN Contents /\ loaded \in Seq(Turn)
  BY <1>0, ContentsTyped DEF Lists, Key, Typed
<1>4. saved \subseteq saved'
  BY <1>1, SavedMoves
<1>5. ASSUME NEW t \in Instruction, Load(t) PROVE SerialInv'
  <2>1. KeyOf(t) = Chat
    BY VisitorAssumption DEF KeyOf
  <2>2. loaded' = Append(loaded, t)
    BY <1>5, <2>1 DEF Load
  <2>3. Contents' = Contents
    <3>1. turn'[t].pc = "agent"
      BY <1>0, <1>5, ThreadRecords
    <3>2. \A u \in Turn : WriteStore(u) => u = t /\ turn'[u].pc = "over"
      BY <1>0, <1>5, ThreadRecords, ThreadMoves DEF ThreadStep, WriteStore
    <3> QED
      BY <1>0, <3>1, <3>2, ContentsStep
  <2>4. \A i \in Instruction : Working(i)' => i = t
    <3>1. \A i \in Instruction : ~Working(i)
      BY <1>0, <1>5, OneWorks DEF Serial
    <3> QED
      BY <1>0, <1>5, <3>1, ThreadMoves DEF ThreadStep, Working
  <2>5. Follows(Contents[Chat], loaded')
    BY <1>0, <1>2, <1>3, <2>2, FollowsLonger
  <2>6. loaded' # <<>> /\ loaded'[Len(loaded')] = t
    BY <1>0, <1>3, <2>2
  <2> QED
    BY <1>2, <1>4, <2>3, <2>4, <2>5, <2>6 DEF SerialInv
<1>6. ASSUME \A i \in Instruction : ~Load(i)
      PROVE  loaded' = loaded /\ \A i \in Instruction : Working(i)' => Working(i)
  <2>1. \A i \in Instruction : Working(i)' => Working(i)
    BY <1>0, <1>6, WorkersShrink
  <2>2. loaded' = loaded
    <3>1. KeyOf(Visitor) # Chat
      BY ChatAssumption DEF KeyOf
    <3>2. Load(Visitor) => loaded' = loaded
      BY <3>1 DEF Load
    <3>3. \A t \in Turn : ThreadStep(t) => loaded' = loaded
      BY <1>6, <3>2 DEF ThreadStep, SkipDuplicate, ReadStore, SaveNothing, OpenStore, WriteStore,
                        Turn
    <3> QED
      BY <1>0, <3>3, Moves DEF OtherMove
  <2> QED
    BY <2>1, <2>2
<1>7. ASSUME \A i \in Instruction : ~Load(i), Contents'[Chat] = Contents[Chat]
      PROVE  SerialInv'
  BY <1>2, <1>4, <1>6, <1>7 DEF SerialInv
<1>8. ASSUME \A i \in Instruction : ~Load(i), NEW t \in Turn, WriteStore(t), t \in Saving,
             Contents' = [Contents EXCEPT ![KeyOf(t)] = turn[t].base]
      PROVE  SerialInv'
  <2>1. CASE t = Visitor
    <3>1. KeyOf(t) # Chat
      BY <2>1, ChatAssumption DEF KeyOf
    <3> QED
      BY <1>3, <1>7, <1>8, <3>1
  <2>2. CASE t # Visitor
    <3>1. KeyOf(t) = Chat /\ t \in Instruction
      BY <2>2 DEF KeyOf, Turn
    <3>2. Contents'[Chat] = turn[t].base
      BY <1>3, <1>8, <3>1
    <3>3. CASE turn[t].base = Contents[Chat]
      BY <1>7, <1>8, <3>2, <3>3
    <3>4. CASE turn[t].base = Append(Contents[Chat], t)
      <4>1. /\ t \notin saved
            /\ saved' = IF \E k \in DOMAIN turn[t].base : turn[t].base[k] = t
                          THEN saved \cup {t} ELSE saved
        BY <1>1, <1>8, SavedMoves
      <4>2. /\ DOMAIN turn[t].base = 1..(Len(Contents[Chat]) + 1)
            /\ DOMAIN Contents[Chat] = 1..Len(Contents[Chat]) /\ Len(Contents[Chat]) \in Nat
            /\ \A k \in DOMAIN Contents[Chat] : turn[t].base[k] = Contents[Chat][k]
            /\ turn[t].base[Len(Contents[Chat]) + 1] = t
        BY <1>3, <3>4
      <4>3. saved' = saved \cup {t}
        BY <4>1, <4>2
      <4>4. \A k \in DOMAIN turn[t].base :
              k \in DOMAIN Contents[Chat] \/ k = Len(Contents[Chat]) + 1
        BY <4>2
      <4>5. \A k \in DOMAIN turn[t].base : turn[t].base[k] \in saved'
        BY <1>2, <4>2, <4>3, <4>4
      <4>6. loaded # <<>> /\ loaded[Len(loaded)] = t
        BY <1>2, <1>8, <3>1 DEF WriteStore, Working
      <4>7. \A k \in DOMAIN Contents[Chat] : Contents[Chat][k] # t
        BY <1>2, <4>1
      <4>8. Follows(turn[t].base, loaded)
        BY <1>2, <1>3, <3>4, <4>6, <4>7, FollowsLast
      <4> QED
        BY <1>2, <1>6, <1>8, <3>2, <4>5, <4>8 DEF SerialInv
    <3>5. turn[t].base \in {Contents[Chat], Append(Contents[Chat], t)}
      BY <1>1, <1>8, <3>1 DEF BaseInv
    <3> QED
      BY <3>3, <3>4, <3>5
  <2> QED
    BY <2>1, <2>2
<1> QED
  BY <1>0, <1>5, <1>7, <1>8, ContentsStep

LEMMA HistoryStep == FullInv /\ HistoryInv /\ [TurnNext]_allVars => HistoryInv'
  BY BaseInvStep, SavedStep, SerialStep DEF HistoryInv

LEMMA HistoryInit == TurnInit => ThreadInv /\ StoreInv /\ HistoryInv
<1> SUFFICES ASSUME TurnInit PROVE ThreadInv /\ StoreInv /\ HistoryInv
  OBVIOUS
<1>1. \A i \in Instruction : turn[i].pc = "none"
  BY VisitorAssumption DEF TurnInit, Turn
<1>2. \A t \in Turn : turn[t].pc \in {"none", "agent", "over"} /\ turn[t].base = <<>>
  BY DEF TurnInit
<1>3. Saving = {} /\ store = Json(NoLists)
  BY <1>2 DEF Saving, TurnInit
<1>4. ThreadInv
  BY <1>1 DEF ThreadInv, Begun, Working
<1>5. StoreInv
  BY <1>2, <1>3 DEF StoreInv, Json
<1>6. Contents = NoLists
  BY <1>3, HeldByNone DEF Contents, Json
<1>7. \A t \in Turn : Contents[KeyOf(t)] = <<>>
  BY <1>6, Keys DEF NoLists
<1>8. BaseInv
  BY <1>2, <1>3, <1>7 DEF BaseInv
<1>9. saved = {} /\ loaded = <<>>
  BY DEF TurnInit
<1>10. Contents[Chat] = <<>>
  BY <1>6 DEF NoLists, Key
<1>11. SerialInv
  BY <1>1, <1>9, <1>10 DEF SerialInv, Follows, Working
<1> QED
  BY <1>4, <1>5, <1>8, <1>9, <1>11 DEF HistoryInv, SavedInv

LEMMA InOrder == FullInv /\ HistoryInv => HistoryInOrder
<1> SUFFICES ASSUME FullInv, HistoryInv, store.form = "json", ~crossed, ~outlived
             PROVE  /\ \A t \in saved : \E k \in DOMAIN store.lists[KeyOf(t)] :
                                          store.lists[KeyOf(t)][k] = t
                    /\ mode = "SERIAL" =>
                         /\ \A k \in DOMAIN store.lists[Chat] : store.lists[Chat][k] \in saved
                         /\ Follows(store.lists[Chat], loaded)
  BY DEF HistoryInOrder
<1>1. store.lists = Contents
  BY ContentsOfJson DEF FullInv, BaseTurnInv
<1> QED
  BY <1>1 DEF HistoryInv, SavedInv, SerialInv

(* The history of a chat in the file holds every turn that was saved,      *)
(* once, in the order in which the turns were begun, whatever is timed     *)
(* out, skipped, cleared or collected: as long as no thread outlives its   *)
(* instruction and no two threads use the file at the same time.           *)
THEOREM HistoryIsInOrder == TurnSpec => []HistoryInOrder
<1>1. TurnInit => FullInv /\ HistoryInv
  BY TypedInit, QueueInvInit, PlaceInit, CountInit, WaitInit, HistoryInit
     DEF FullInv, BaseTurnInv, TurnInit
<1>2. FullInv /\ HistoryInv /\ BaseTurnInv' /\ [TurnNext]_allVars => (FullInv /\ HistoryInv)'
  BY WaitStep, ThreadInvStep, StoreStep, HistoryStep DEF FullInv, BaseTurnInv
<1> QED
  BY <1>1, <1>2, BaseAlways, InOrder, PTL DEF TurnSpec
=============================================================================
