------------------------ MODULE PendingConfirmations ------------------------
(***************************************************************************)
(* Work orders that wait for the user: the pending confirmations of the    *)
(* cognitive kernel (cognitive_kernel/pending_confirmation.py) and the     *)
(* turns that ask, answer, cancel and run them (direct_mainline.py).       *)
(*                                                                         *)
(* One JSON file per session holds the order that was asked about last.    *)
(* Turns run side by side: those of IM chats in threads of their own, the  *)
(* others on the event loop, where they wait for their tools.  A file is   *)
(* read at once and written in two steps, the truncation and the rest.     *)
(***************************************************************************)
EXTENDS Naturals, FiniteSets

CONSTANTS Session,     \* session keys (confirmation_session_key)
          Order,       \* work orders, each planned once
          Slot,        \* places for turns that are under way at once
          Gaps,        \* slots a message may lack: recipient and message, 2
          Ttl,         \* how long a question waits: 900 s
          MaxClock, MaxTurns, MaxCrashes,  \* bounds
          NoFile, Torn, NoSession, Nothing

(* What a file holds: the order, whether it lacks the name of an           *)
(* application, and how many slots of a message it lacks.                  *)
Pending == [order : Order, app : BOOLEAN, gap : 0..Gaps, expires : Nat]

ASSUME ConfirmationAssumption ==
  /\ Gaps \in Nat /\ Ttl \in Nat
  /\ MaxClock \in Nat /\ MaxTurns \in Nat /\ MaxCrashes \in Nat
  /\ NoSession \notin Session
  /\ NoFile \notin Pending /\ Torn \notin Pending /\ Nothing \notin Pending
  /\ NoFile # Torn

VARIABLES
  clock,
  store,     \* state_dir()/pending_confirmations
  turn,      \* the turns that are under way
  turns, crashes,
  planned,   \* the orders of the kernel's plans so far
  asked,     \* history: the session each order was asked about in
  until,     \* history: the time its question lapses
  answered,  \* history: orders whose question was removed by the turn that had
             \* run and verified, refused or cancelled them
  lost,      \* history: questions another turn's question was written over, or
             \* that a crash cut off
  erased,    \* history: questions removed or torn by a turn with another one
  revived    \* history: answered orders that another turn has saved again

history == <<asked, until, answered, lost, erased, revived>>
vars == <<clock, store, turn, turns, crashes, planned, history>>

(* Where a turn is.  "cancel", "slot", "confirm": it loads next; "plan": it   *)
(* takes up the plan; "ask" and "show": before and after the truncation for a *)
(* question, "save" and "patch" for a slot that was filled.                   *)
Pc == {"idle", "cancel", "slot", "confirm", "plan", "ask", "show", "save",
       "patch", "confirmed", "run", "clear"}

(* yes: the text is a confirmation; held, of: the order in hand and the       *)
(* session it was asked about in; stale: files read as expired and not yet    *)
(* removed.  History: open, the questions that were open in the turn's own    *)
(* session when it took the order; closed, what was answered when it began.   *)
Turn == [pc : Pc, session : Session \cup {NoSession}, yes : BOOLEAN,
         held : Pending \cup {Nothing}, of : Session \cup {NoSession},
         stale : SUBSET Session, open : SUBSET Order, closed : SUBSET Order]

Idle == [pc |-> "idle", session |-> NoSession, yes |-> FALSE,
         held |-> Nothing, of |-> NoSession,
         stale |-> {}, open |-> {}, closed |-> {}]

TypeOK ==
  /\ clock \in 0..MaxClock
  /\ store \in [Session -> Pending \cup {NoFile, Torn}]
  /\ turn \in [Slot -> Turn]
  /\ turns \in 0..MaxTurns
  /\ crashes \in 0..MaxCrashes
  /\ planned \in SUBSET Order
  /\ asked \in [Order -> Session \cup {NoSession}]
  /\ until \in [Order -> Nat]
  /\ answered \in SUBSET Order
  /\ lost \in SUBSET Order
  /\ erased \in SUBSET Order
  /\ revived \in SUBSET Order

Init ==
  /\ clock = 0
  /\ store = [k \in Session |-> NoFile]
  /\ turn = [s \in Slot |-> Idle]
  /\ turns = 0
  /\ crashes = 0
  /\ planned = {}
  /\ asked = [o \in Order |-> NoSession]
  /\ until = [o \in Order |-> 0]
  /\ answered = {}
  /\ lost = {}
  /\ erased = {}
  /\ revived = {}

-----------------------------------------------------------------------------
Live(f) == f \in Pending /\ clock <= f.expires
Lapsed(f) == f \in Pending /\ clock > f.expires

(* Mutant: the load looks at every file. *)
BugFound(k) == {j \in Session : Live(store[j])}

(* Where a load under key k finds an order: its own file decides when there   *)
(* is one; else the order of another session serves, if only one is live.     *)
Found(k) ==
  IF store[k] # NoFile
    THEN {j \in {k} : Live(store[j])}
    ELSE LET live == {j \in Session : Live(store[j])} IN
         IF Cardinality(live) = 1 THEN live ELSE {}

(* The files a load under key k reads as expired, and then removes. *)
Expired(k) ==
  {j \in (IF store[k] # NoFile THEN {k} ELSE Session) : Lapsed(store[j])}

(* The orders whose question is in k's file, or is being written into it. *)
Content(k) ==
  {o \in Order : \/ store[k] \in Pending /\ store[k].order = o
                 \/ \E t \in Slot : /\ turn[t].pc \in {"show", "patch"}
                                    /\ turn[t].of = k /\ turn[t].held.order = o}

(* The questions put to the user of session k that wait for an answer.        *)
Open(k) == {o \in Order : /\ asked[o] = k
                          /\ o \notin answered \cup lost \cup erased
                          /\ clock <= until[o]}

Ready(s, pc) == turn[s].pc = pc /\ turn[s].stale = {}

(* Turn s takes the order that was asked about in session j, ... *)
Take(s, j, pc, p) ==
  LET k == turn[s].session IN
  turn' = [turn EXCEPT ![s].pc = pc, ![s].held = p, ![s].of = j,
                       ![s].stale = Expired(k), ![s].open = Open(k)]

(* ... or takes none. *)
Pass(s, pc) == turn' = [turn EXCEPT ![s].pc = pc, ![s].stale = Expired(turn[s].session)]

-----------------------------------------------------------------------------
(* A text of the user of session k reaches try_execute_cognitive_direct_plan. *)
Begin(s, k) ==
  /\ turn[s] = Idle
  /\ turns < MaxTurns
  /\ turns' = turns + 1
  /\ \E pc \in {"cancel", "slot"}, yes \in BOOLEAN :
       /\ pc = "cancel" => ~yes
       /\ turn' = [turn EXCEPT ![s] = [Idle EXCEPT !.pc = pc, !.session = k,
                                         !.yes = yes, !.closed = answered]]
  /\ UNCHANGED <<clock, store, crashes, planned, history>>

(* The file of a question read as expired is removed, whatever it holds now.  *)
Drop(s, k) ==
  /\ k \in turn[s].stale
  /\ store' = [store EXCEPT ![k] = NoFile]
  /\ turn' = [turn EXCEPT ![s].stale = @ \ {k}]
  /\ erased' = erased \cup Content(k)
  /\ UNCHANGED <<clock, turns, crashes, planned, asked, until, answered, lost, revived>>

(* A turn with nothing left to do for an order. *)
Close(s) == turn' = [turn EXCEPT ![s] = Idle]

(* A turn whose load found nothing returns None. *)
End(s) ==
  /\ Ready(s, "idle") /\ turn[s] # Idle
  /\ Close(s)
  /\ UNCHANGED <<clock, store, turns, crashes, planned, history>>

(* cancel_pending_confirmation: the load. *)
Cancel(s) ==
  /\ Ready(s, "cancel")
  /\ \/ \E j \in Found(turn[s].session) : Take(s, j, "clear", store[j])
     \/ Found(turn[s].session) = {} /\ Pass(s, "idle")
  /\ UNCHANGED <<clock, store, turns, crashes, planned, history>>

(* Mutant: the file that is there is left. *)
BugClear(s) ==
  /\ Ready(s, "clear")
  /\ answered' = answered \cup {turn[s].held.order}
  /\ Close(s)
  /\ UNCHANGED <<clock, store, turns, crashes, planned, asked, until, lost, erased, revived>>

(* clear_pending_confirmation_by_key: the file goes, whatever it holds now:   *)
(* the question of another order, too.                                        *)
Clear(s) ==
  /\ Ready(s, "clear")
  /\ store' = [store EXCEPT ![turn[s].of] = NoFile]
  /\ answered' = answered \cup {turn[s].held.order}
  /\ erased' = erased \cup (Content(turn[s].of) \ {turn[s].held.order})
  /\ Close(s)
  /\ UNCHANGED <<clock, turns, crashes, planned, asked, until, lost, revived>>

(* Mutant: a reply fills both slots of a message. *)
BugFilled(p) == [p EXCEPT !.gap = @ - 2]

(* A message with one more of its slots filled. *)
Filled(p) == [p EXCEPT !.gap = @ - 1]

(* _try_resume_pending_with_slot_reply: nearly any text, a confirmation too,  *)
(* may be taken for the slot a message lacks, and some for an application's   *)
(* name.  Only the message is saved again.                                    *)
SlotReply(s) ==
  /\ Ready(s, "slot")
  /\ \/ \E j \in Found(turn[s].session) :
          LET p == store[j] IN
          \/ p.gap > 0 /\ Take(s, j, "save", Filled(p))
          \/ /\ p.app /\ ~turn[s].yes
             /\ Take(s, j, "confirmed", [p EXCEPT !.app = FALSE])
     \/ Pass(s, IF turn[s].yes THEN "confirm" ELSE "plan")
  /\ UNCHANGED <<clock, store, turns, crashes, planned, history>>

(* _try_resume_pending_confirmation *)
Confirm(s) ==
  /\ Ready(s, "confirm")
  /\ \/ \E j \in Found(turn[s].session) : Take(s, j, "confirmed", store[j])
     \/ Found(turn[s].session) = {} /\ Pass(s, "idle")
  /\ UNCHANGED <<clock, store, turns, crashes, planned, history>>

(* The kernel's plan for the text: nothing to be run here, an order that      *)
(* lacks a slot or needs a confirmation, or one that is run at once.          *)
Plan(s) ==
  /\ Ready(s, "plan")
  /\ \/ Close(s) /\ UNCHANGED planned
     \/ \E o \in Order \ planned, app \in BOOLEAN, gap \in 0..Gaps :
          /\ app => gap = 0
          /\ planned' = planned \cup {o}
          /\ turn' = [turn EXCEPT
               ![s].pc = "ask", ![s].of = turn[s].session,
               ![s].held = [order |-> o, app |-> app, gap |-> gap, expires |-> clock]]
     \/ turn' = [turn EXCEPT ![s].pc = "run"] /\ UNCHANGED planned
  /\ UNCHANGED <<clock, store, turns, crashes, history>>

(* save_pending_confirmation: the file is opened for writing, ... *)
Truncate(s) ==
  LET k == turn[s].of
      p == turn[s].held IN
  /\ \/ Ready(s, "ask") /\ turn' = [turn EXCEPT ![s].pc = "show",
                                               ![s].held.expires = clock + Ttl]
     \/ Ready(s, "save") /\ turn' = [turn EXCEPT ![s].pc = "patch",
                                                 ![s].held.expires = clock + Ttl]
  /\ store' = [store EXCEPT ![k] = Torn]
  /\ lost' = lost \cup (Content(k) \ {p.order})
  /\ UNCHANGED <<clock, turns, crashes, planned, asked, until, answered, erased, revived>>

(* ... and written.  When it has been removed since, what is written goes     *)
(* with it; when another turn has written it, the longer text's end remains.  *)
(* A question that has been saved is open, whatever became of it before.      *)
Write(s) ==
  LET k == turn[s].of
      p == turn[s].held IN
  /\ \/ Ready(s, "show") /\ Close(s)
     \/ Ready(s, "patch") /\ turn' = [turn EXCEPT ![s].pc = "confirmed"]
  /\ \E f \in {NoFile, Torn, p} :
       /\ f = NoFile <=> store[k] = NoFile
       /\ f = Torn => store[k] \in Pending
       /\ store' = [store EXCEPT ![k] = f]
       /\ lost' = IF f = p THEN (lost \cup Content(k)) \ {p.order} ELSE lost
       /\ erased' = IF f = p THEN erased \ {p.order}
                    ELSE IF f = Torn THEN erased \cup Content(k) ELSE erased
  /\ revived' = revived \cup ({p.order} \cap answered)
  /\ asked' = [asked EXCEPT ![p.order] = k]
  /\ until' = [until EXCEPT ![p.order] = p.expires]
  /\ UNCHANGED <<clock, turns, crashes, planned, answered>>

(* Mutant: the question is removed before the order is run. *)
BugDispatch(s) ==
  /\ Ready(s, "confirmed")
  /\ turn[s].held.gap = 0
  /\ turn' = [turn EXCEPT ![s].pc = "run"]
  /\ store' = [store EXCEPT ![turn[s].of] = NoFile]
  /\ UNCHANGED <<clock, turns, crashes, planned, history>>

(* _execute_confirmed_pending up to the dispatch: the order is refused for    *)
(* good, its tool is not there at the moment, a slot is still missing, or it  *)
(* is run.                                                                    *)
Dispatch(s) ==
  /\ Ready(s, "confirmed")
  /\ \/ turn' = [turn EXCEPT ![s].pc = "clear"]
     \/ Close(s)
     \/ turn[s].held.gap = 0 /\ turn' = [turn EXCEPT ![s].pc = "run"]
  /\ UNCHANGED <<clock, store, turns, crashes, planned, history>>

(* The order has been run, and verified: its question is removed. *)
Succeed(s) ==
  /\ Ready(s, "run")
  /\ IF turn[s].held = Nothing THEN Close(s)
     ELSE turn' = [turn EXCEPT ![s].pc = "clear"]
  /\ UNCHANGED <<clock, store, turns, crashes, planned, history>>

(* It was not verified, or the turn was cancelled: the question stays. *)
Fail(s) ==
  /\ Ready(s, "run")
  /\ Close(s)
  /\ UNCHANGED <<clock, store, turns, crashes, planned, history>>

Tick ==
  /\ clock < MaxClock
  /\ clock' = clock + 1
  /\ UNCHANGED <<store, turn, turns, crashes, planned, history>>

(* The node crashes and starts again; a file that was being written is torn. *)
Crash ==
  /\ crashes < MaxCrashes
  /\ crashes' = crashes + 1
  /\ turn' = [s \in Slot |-> Idle]
  /\ lost' = lost \cup {turn[s].held.order : s \in {t \in Slot : turn[t].pc = "patch"}}
  /\ UNCHANGED <<clock, store, turns, planned, asked, until, answered, erased, revived>>

Step(s) ==
  \/ \E k \in Session : Begin(s, k) \/ Drop(s, k)
  \/ End(s) \/ Cancel(s) \/ Clear(s) \/ SlotReply(s) \/ Confirm(s) \/ Plan(s)
  \/ Truncate(s) \/ Write(s) \/ Dispatch(s) \/ Succeed(s) \/ Fail(s)

Next == (\E s \in Slot : Step(s)) \/ Tick \/ Crash

Spec == Init /\ [][Next]_vars

-----------------------------------------------------------------------------
(* A question that was put to the user waits in its session's file until it   *)
(* is answered, lapses or is replaced: a failed run, a crash, a cancelled     *)
(* turn, or a reply given in another session leaves it.  The exception is     *)
(* erased: the turn of another order of the session, or one that has read an  *)
(* expired question, removes the file whatever it holds by then               *)
(* (direct_mainline.py:722, pending_confirmation.py:239), or two turns write   *)
(* it at once.                                                                *)
QuestionKept ==
  \A k \in Session : \A o \in Open(k) :
    \/ store[k] \in Pending /\ store[k].order = o
    \/ \E s \in Slot : turn[s].pc = "patch" /\ turn[s].held.order = o

(* The turns that act on an order a user was asked about. *)
Answering == {s \in Slot : /\ turn[s].held # Nothing
                           /\ turn[s].pc \in {"save", "patch", "confirmed", "run", "clear"}}

(* A reply given while a question is open in its own session is taken as the  *)
(* answer to that question, never to one of another session.  A question that *)
(* was erased is not open: it has no file any more, and the user's reply to   *)
(* it is taken for the only question of another session, if there is one      *)
(* (pending_confirmation.py:151).                                             *)
AnswersOpenQuestion ==
  \A s \in Answering : turn[s].open \subseteq {turn[s].held.order}

(* An order whose question was removed, after it had been run and verified,   *)
(* refused or cancelled, is not taken up by a reply that comes later, unless  *)
(* a turn that had it in hand as well has saved its question again.  A run    *)
(* that is not verified, or whose turn ends before it removes the question,   *)
(* does not count (direct_mainline.py:706-722): the question stays, and a     *)
(* later reply runs the order again.                                          *)
AnsweredOnce ==
  \A s \in Answering : turn[s].held.order \in turn[s].closed =>
                         turn[s].held.order \in revived
=============================================================================
