-------------------- MODULE PendingConfirmations_proofs --------------------
(***************************************************************************)
(* Proofs about PendingConfirmations, for any sessions, orders, places of  *)
(* turns and bounds: its types, and the three properties of questions and  *)
(* answers.                                                                *)
(*                                                                         *)
(* What the second invariant, SafeInv, rests on: an order belongs to one   *)
(* session, and a question is open only where it is in the session's file, *)
(* or is being written into it again; where there is no file, none is      *)
(* open.  So a load, which reads the file of its own session first, finds  *)
(* the one question that is open there, or finds none open.                *)
(***************************************************************************)
EXTENDS PendingConfirmations, TLAPS

(* The steps in which a turn acts on an order. *)
Acting == {"ask", "show", "save", "patch", "confirmed", "clear"}

(* The steps before it, which need the session of the turn. *)
Reading == {"cancel", "slot", "confirm", "plan"}

(* A turn has an order in hand together with the session it belongs to, and   *)
(* does so in every step that acts on one.                                    *)
InHand(t) ==
  /\ t.of = NoSession <=> t.held = Nothing
  /\ t.pc \in Acting => t.held # Nothing
  /\ t.pc \in Reading => t.session \in Session

HeldInv == \A s \in Slot : InHand(turn[s])

TypeInv == TypeOK /\ HeldInv

-----------------------------------------------------------------------------
(* What a load finds is an order, in the file of a session. *)
LEMMA FoundPending ==
  ASSUME TypeOK, NEW k \in Session, NEW j \in Found(k)
  PROVE  j \in Session /\ store[j] \in Pending
  BY DEF Found, Live

LEMMA ExpiredSessions ==
  ASSUME NEW k \in Session
  PROVE  Expired(k) \in SUBSET Session
  BY DEF Expired

(* The fields of an order in hand. *)
LEMMA PendingFields ==
  ASSUME NEW p \in Pending
  PROVE  /\ p.order \in Order /\ p.app \in BOOLEAN
         /\ p.gap \in 0..Gaps /\ p.expires \in Nat
  BY DEF Pending

(* A turn that takes an order in hand. *)
LEMMA TakeTypes ==
  ASSUME TypeInv, NEW s \in Slot, turn[s].session \in Session,
         NEW j \in Session, NEW pc \in Pc, NEW p \in Pending, Take(s, j, pc, p)
  PROVE  /\ turn' \in [Slot -> Turn]
         /\ HeldInv'
  <1>2. Expired(turn[s].session) \in SUBSET Session
    BY ExpiredSessions
  <1>3. Open(turn[s].session) \in SUBSET Order
    BY DEF Open
  <1>4. turn \in [Slot -> Turn] /\ turn[s] \in Turn
    BY DEF TypeInv, TypeOK
  <1>5. turn'[s] \in Turn /\ InHand(turn'[s])
    BY <1>2, <1>3, <1>4, ConfirmationAssumption DEF Take, Turn, InHand
  <1>6. QED
    BY <1>4, <1>5 DEF Take, TypeInv, TypeOK, HeldInv

LEMMA PassTypes ==
  ASSUME TypeInv, NEW s \in Slot, turn[s].session \in Session,
         NEW pc \in Pc \ Acting, Pass(s, pc)
  PROVE  /\ turn' \in [Slot -> Turn]
         /\ HeldInv'
  <1>1. Expired(turn[s].session) \in SUBSET Session
    BY ExpiredSessions
  <1>2. turn \in [Slot -> Turn] /\ turn[s] \in Turn
    BY DEF TypeInv, TypeOK
  <1>3. turn'[s] \in Turn /\ InHand(turn'[s])
    BY <1>1, <1>2 DEF Pass, Turn, InHand, TypeInv, HeldInv
  <1>4. QED
    BY <1>2, <1>3 DEF Pass, TypeInv, TypeOK, HeldInv

-----------------------------------------------------------------------------
LEMMA TypeInit == Init => TypeInv
  BY ConfirmationAssumption
  DEF Init, TypeInv, TypeOK, HeldInv, InHand, Idle, Turn, Pc, Acting, Reading

(* A turn that ends. *)
LEMMA IdleTypes == Idle \in Turn /\ InHand(Idle)
  BY ConfirmationAssumption DEF Idle, Turn, Pc, InHand, Acting, Reading

LEMMA CloseTypes ==
  ASSUME TypeInv, NEW s \in Slot, Close(s)
  PROVE  turn' \in [Slot -> Turn] /\ HeldInv'
  BY IdleTypes DEF Close, TypeInv, TypeOK, HeldInv

(* A turn whose record changes in any other way. *)
LEMMA ChangeTypes ==
  ASSUME TypeInv, NEW s \in Slot, NEW t \in Turn, InHand(t),
         turn' = [turn EXCEPT ![s] = t]
  PROVE  turn' \in [Slot -> Turn] /\ HeldInv'
  BY DEF TypeInv, TypeOK, HeldInv

LEMMA TypeStep == TypeInv /\ [Next]_vars => TypeInv'
  <1> SUFFICES ASSUME TypeInv, [Next]_vars
               PROVE  TypeInv'
    OBVIOUS
  <1> USE DEF history
  <1>t. TypeOK /\ HeldInv
    BY DEF TypeInv
  <1>s. ASSUME NEW s \in Slot
        PROVE  turn[s] \in Turn /\ InHand(turn[s])
    BY <1>t DEF TypeOK, HeldInv
  <1>h. ASSUME NEW s \in Slot, turn[s].pc \in Acting
        PROVE  /\ turn[s].held \in Pending /\ turn[s].held.order \in Order
               /\ turn[s].of \in Session
    BY <1>s, <1>h, PendingFields DEF Turn, InHand
  <1>r. ASSUME NEW s \in Slot, turn[s].pc \in Reading
        PROVE  turn[s].session \in Session
    BY <1>s, <1>r DEF InHand
  <1>1. ASSUME NEW s \in Slot, NEW k \in Session, Begin(s, k)
        PROVE  TypeInv'
    <2>1. PICK pc \in {"cancel", "slot"}, yes \in BOOLEAN :
            turn' = [turn EXCEPT ![s] = [Idle EXCEPT !.pc = pc, !.session = k,
                                           !.yes = yes, !.closed = answered]]
      BY <1>1 DEF Begin
    <2> DEFINE t == [Idle EXCEPT !.pc = pc, !.session = k,
                                 !.yes = yes, !.closed = answered]
    <2>2. t \in Turn /\ InHand(t)
      <3>1. t \in Turn
        BY <1>t, IdleTypes DEF Turn, Pc, TypeOK
      <3>2. InHand(t)
        BY IdleTypes DEF InHand, Acting, Idle
      <3>3. QED
        BY <3>1, <3>2
    <2>3. turn' \in [Slot -> Turn] /\ HeldInv'
      BY <2>1, <2>2, ChangeTypes
    <2>4. turns' \in 0..MaxTurns
      BY <1>1, <1>t, ConfirmationAssumption DEF Begin, TypeOK
    <2>5. UNCHANGED <<clock, store, crashes, planned, history>>
      BY <1>1 DEF Begin
    <2>6. QED
      BY <1>t, <2>3, <2>4, <2>5 DEF TypeInv, TypeOK
  <1>2. ASSUME NEW s \in Slot, NEW k \in Session, Drop(s, k)
        PROVE  TypeInv'
    <2> DEFINE t == [turn[s] EXCEPT !.stale = @ \ {k}]
    <2>1. t \in Turn /\ InHand(t)
      BY <1>s DEF Turn, InHand
    <2>2. turn' = [turn EXCEPT ![s] = t]
      BY <1>2 DEF Drop
    <2>3. turn' \in [Slot -> Turn] /\ HeldInv'
      BY <2>1, <2>2, ChangeTypes
    <2>4. erased' \in SUBSET Order
      BY <1>2, <1>t DEF Drop, Content, TypeOK
    <2>5. QED
      BY <1>2, <1>t, <2>3, <2>4 DEF Drop, TypeInv, TypeOK
  <1>3. ASSUME NEW s \in Slot, End(s)
        PROVE  TypeInv'
    BY <1>3, <1>t, CloseTypes DEF End, TypeInv, TypeOK
  <1>4. ASSUME NEW s \in Slot, Cancel(s)
        PROVE  TypeInv'
    <2>1. turn[s].session \in Session
      BY <1>4, <1>r DEF Cancel, Ready, Reading
    <2>2. turn' \in [Slot -> Turn] /\ HeldInv'
      <3>1. ASSUME NEW j \in Found(turn[s].session), Take(s, j, "clear", store[j])
            PROVE  turn' \in [Slot -> Turn] /\ HeldInv'
        BY <1>t, <2>1, <3>1, FoundPending, TakeTypes DEF Pc
      <3>2. ASSUME Pass(s, "idle")
            PROVE  turn' \in [Slot -> Turn] /\ HeldInv'
        BY <2>1, <3>2, PassTypes DEF Pc, Acting
      <3>3. QED
        BY <1>4, <3>1, <3>2 DEF Cancel
    <2>3. QED
      BY <1>4, <1>t, <2>2 DEF Cancel, TypeInv, TypeOK
  <1>5. ASSUME NEW s \in Slot, Clear(s)
        PROVE  TypeInv'
    <2>1. turn[s].held.order \in Order
      BY <1>5, <1>h DEF Clear, Ready, Acting
    <2>2. turn' \in [Slot -> Turn] /\ HeldInv'
      BY <1>5, CloseTypes DEF Clear
    <2>3. erased' \in SUBSET Order
      BY <1>5, <1>t DEF Clear, Content, TypeOK
    <2>4. QED
      BY <1>5, <1>t, <2>1, <2>2, <2>3 DEF Clear, TypeInv, TypeOK
  <1>6. ASSUME NEW s \in Slot, SlotReply(s)
        PROVE  TypeInv'
    <2>1. turn[s].session \in Session
      BY <1>6, <1>r DEF SlotReply, Ready, Reading
    <2>2. turn' \in [Slot -> Turn] /\ HeldInv'
      <3>1. ASSUME NEW j \in Found(turn[s].session), store[j].gap > 0,
                   Take(s, j, "save", Filled(store[j]))
            PROVE  turn' \in [Slot -> Turn] /\ HeldInv'
        <4>1. j \in Session /\ store[j] \in Pending
          BY <1>t, <2>1, FoundPending
        <4>2. Filled(store[j]) \in Pending
          BY <3>1, <4>1, ConfirmationAssumption DEF Filled, Pending
        <4>3. QED
          BY <2>1, <3>1, <4>1, <4>2, TakeTypes DEF Pc
      <3>2. ASSUME NEW j \in Found(turn[s].session),
                   Take(s, j, "confirmed", [store[j] EXCEPT !.app = FALSE])
            PROVE  turn' \in [Slot -> Turn] /\ HeldInv'
        <4>1. j \in Session /\ store[j] \in Pending
          BY <1>t, <2>1, FoundPending
        <4>2. [store[j] EXCEPT !.app = FALSE] \in Pending
          BY <4>1 DEF Pending
        <4>3. QED
          BY <2>1, <3>2, <4>1, <4>2, TakeTypes DEF Pc
      <3>3. ASSUME NEW pc \in {"confirm", "plan"}, Pass(s, pc)
            PROVE  turn' \in [Slot -> Turn] /\ HeldInv'
        BY <2>1, <3>3, PassTypes DEF Pc, Acting
      <3>4. QED
        BY <1>6, <3>1, <3>2, <3>3 DEF SlotReply
    <2>3. QED
      BY <1>6, <1>t, <2>2 DEF SlotReply, TypeInv, TypeOK
  <1>7. ASSUME NEW s \in Slot, Confirm(s)
        PROVE  TypeInv'
    <2>1. turn[s].session \in Session
      BY <1>7, <1>r DEF Confirm, Ready, Reading
    <2>2. turn' \in [Slot -> Turn] /\ HeldInv'
      <3>1. ASSUME NEW j \in Found(turn[s].session), Take(s, j, "confirmed", store[j])
            PROVE  turn' \in [Slot -> Turn] /\ HeldInv'
        BY <1>t, <2>1, <3>1, FoundPending, TakeTypes DEF Pc
      <3>2. ASSUME Pass(s, "idle")
            PROVE  turn' \in [Slot -> Turn] /\ HeldInv'
        BY <2>1, <3>2, PassTypes DEF Pc, Acting
      <3>3. QED
        BY <1>7, <3>1, <3>2 DEF Confirm
    <2>3. QED
      BY <1>7, <1>t, <2>2 DEF Confirm, TypeInv, TypeOK
  <1>8. ASSUME NEW s \in Slot, Plan(s)
        PROVE  TypeInv'
    <2>1. turn[s].session \in Session
      BY <1>8, <1>r DEF Plan, Ready, Reading
    <2>2. turn' \in [Slot -> Turn] /\ HeldInv' /\ planned' \in SUBSET Order
      <3>1. CASE Close(s) /\ UNCHANGED planned
        BY <3>1, <1>t, CloseTypes DEF TypeOK
      <3>2. ASSUME NEW o \in Order \ planned, NEW app \in BOOLEAN, NEW gap \in 0..Gaps,
                   planned' = planned \cup {o},
                   turn' = [turn EXCEPT
                     ![s].pc = "ask", ![s].of = turn[s].session,
                     ![s].held = [order |-> o, app |-> app, gap |-> gap, expires |-> clock]]
            PROVE  turn' \in [Slot -> Turn] /\ HeldInv' /\ planned' \in SUBSET Order
        <4> DEFINE p == [order |-> o, app |-> app, gap |-> gap, expires |-> clock]
                   t == [turn[s] EXCEPT !.pc = "ask", !.of = turn[s].session, !.held = p]
        <4>1. p \in Pending
          BY <1>t, ConfirmationAssumption DEF Pending, TypeOK
        <4>2. t \in Turn /\ InHand(t)
          BY <1>s, <2>1, <4>1, ConfirmationAssumption
          DEF Turn, Pc, InHand, Acting, Reading
        <4>3. turn' = [turn EXCEPT ![s] = t]
          BY <3>2
        <4>4. turn' \in [Slot -> Turn] /\ HeldInv'
          BY <4>2, <4>3, ChangeTypes
        <4>5. QED
          BY <1>t, <3>2, <4>4 DEF TypeOK
      <3>3. CASE turn' = [turn EXCEPT ![s].pc = "run"] /\ UNCHANGED planned
        <4> DEFINE t == [turn[s] EXCEPT !.pc = "run"]
        <4>1. t \in Turn /\ InHand(t)
          BY <1>s DEF Turn, Pc, InHand, Acting, Reading
        <4>2. turn' = [turn EXCEPT ![s] = t]
          BY <3>3
        <4>3. QED
          BY <1>t, <3>3, <4>1, <4>2, ChangeTypes DEF TypeOK
      <3>4. QED
        BY <1>8, <3>1, <3>2, <3>3 DEF Plan
    <2>3. QED
      BY <1>8, <1>t, <2>2 DEF Plan, TypeInv, TypeOK
  <1>9. ASSUME NEW s \in Slot, Truncate(s)
        PROVE  TypeInv'
    <2>1. turn[s].held \in Pending /\ turn[s].held.order \in Order /\ turn[s].of \in Session
      BY <1>9, <1>h DEF Truncate, Ready, Acting
    <2>2. Content(turn[s].of) \subseteq Order
      BY DEF Content
    <2>3. turn' \in [Slot -> Turn] /\ HeldInv'
      <3>1. PICK pc \in {"show", "patch"} :
              turn' = [turn EXCEPT ![s].pc = pc, ![s].held.expires = clock + Ttl]
        BY <1>9 DEF Truncate
      <3> DEFINE t == [turn[s] EXCEPT !.pc = pc, !.held.expires = clock + Ttl]
      <3>2. [turn[s].held EXCEPT !.expires = clock + Ttl] \in Pending
        BY <2>1, <1>t, ConfirmationAssumption DEF Pending, TypeOK
      <3>3. t \in Turn /\ InHand(t)
        BY <1>s, <2>1, <3>2, ConfirmationAssumption
        DEF Turn, Pc, InHand, Acting, Reading
      <3>4. turn' = [turn EXCEPT ![s] = t]
        BY <3>1
      <3>5. QED
        BY <3>3, <3>4, ChangeTypes
    <2>4. lost' \in SUBSET Order
      BY <1>9, <1>t, <2>2 DEF Truncate, TypeOK
    <2>5. QED
      BY <1>9, <1>t, <2>3, <2>4 DEF Truncate, TypeInv, TypeOK
  <1>10. ASSUME NEW s \in Slot, Write(s)
         PROVE  TypeInv'
    <2>1. turn[s].held \in Pending /\ turn[s].held.order \in Order /\ turn[s].of \in Session
      BY <1>10, <1>h DEF Write, Ready, Acting
    <2>2. turn[s].held.expires \in Nat
      BY <2>1, PendingFields
    <2>3. turn' \in [Slot -> Turn] /\ HeldInv'
      <3>1. CASE Close(s)
        BY <3>1, CloseTypes
      <3>2. CASE turn' = [turn EXCEPT ![s].pc = "confirmed"]
        <4> DEFINE t == [turn[s] EXCEPT !.pc = "confirmed"]
        <4>1. t \in Turn /\ InHand(t)
          BY <1>s, <2>1, ConfirmationAssumption DEF Turn, Pc, InHand, Acting, Reading
        <4>2. QED
          BY <3>2, <4>1, ChangeTypes
      <3>3. QED
        BY <1>10, <3>1, <3>2 DEF Write
    <2>4. /\ lost' \in SUBSET Order /\ erased' \in SUBSET Order
          /\ revived' \in SUBSET Order
      BY <1>10, <1>t DEF Write, Content, TypeOK
    <2>5. store' \in [Session -> Pending \cup {NoFile, Torn}]
      BY <1>10, <1>t, <2>1 DEF Write, TypeOK
    <2>6. /\ asked' \in [Order -> Session \cup {NoSession}]
          /\ until' \in [Order -> Nat]
      BY <1>10, <1>t, <2>1, <2>2 DEF Write, TypeOK
    <2>7. QED
      BY <1>10, <1>t, <2>3, <2>4, <2>5, <2>6 DEF Write, TypeInv, TypeOK
  <1>11. ASSUME NEW s \in Slot, Dispatch(s)
         PROVE  TypeInv'
    <2>1. turn[s].held \in Pending
      BY <1>11, <1>h DEF Dispatch, Ready, Acting
    <2>2. turn' \in [Slot -> Turn] /\ HeldInv'
      <3>1. CASE Close(s)
        BY <3>1, CloseTypes
      <3>2. ASSUME NEW pc \in {"clear", "run"}, turn' = [turn EXCEPT ![s].pc = pc]
            PROVE  turn' \in [Slot -> Turn] /\ HeldInv'
        <4> DEFINE t == [turn[s] EXCEPT !.pc = pc]
        <4>1. t \in Turn /\ InHand(t)
          BY <1>s, <2>1, ConfirmationAssumption DEF Turn, Pc, InHand, Acting, Reading
        <4>2. QED
          BY <3>2, <4>1, ChangeTypes
      <3>3. QED
        BY <1>11, <3>1, <3>2 DEF Dispatch
    <2>3. QED
      BY <1>11, <1>t, <2>2 DEF Dispatch, TypeInv, TypeOK
  <1>12. ASSUME NEW s \in Slot, Succeed(s)
         PROVE  TypeInv'
    <2>1. turn' \in [Slot -> Turn] /\ HeldInv'
      <3>1. CASE Close(s)
        BY <3>1, CloseTypes
      <3>2. CASE turn[s].held # Nothing /\ turn' = [turn EXCEPT ![s].pc = "clear"]
        <4> DEFINE t == [turn[s] EXCEPT !.pc = "clear"]
        <4>1. t \in Turn /\ InHand(t)
          BY <1>s, <3>2 DEF Turn, Pc, InHand, Acting, Reading
        <4>2. QED
          BY <3>2, <4>1, ChangeTypes
      <3>3. QED
        BY <1>12, <3>1, <3>2 DEF Succeed
    <2>2. QED
      BY <1>12, <1>t, <2>1 DEF Succeed, TypeInv, TypeOK
  <1>13. ASSUME NEW s \in Slot, Fail(s)
         PROVE  TypeInv'
    BY <1>13, <1>t, CloseTypes DEF Fail, TypeInv, TypeOK
  <1>14. CASE Tick
    BY <1>14, <1>t, ConfirmationAssumption DEF Tick, TypeInv, TypeOK, HeldInv
  <1>15. CASE Crash
    <2>1. turn' \in [Slot -> Turn] /\ HeldInv'
      BY <1>15, IdleTypes DEF Crash, HeldInv
    <2>2. lost' \in SUBSET Order
      BY <1>15, <1>t, <1>h DEF Crash, TypeOK, Acting
    <2>3. QED
      BY <1>15, <1>t, <2>1, <2>2, ConfirmationAssumption DEF Crash, TypeInv, TypeOK
  <1>16. CASE UNCHANGED vars
    BY <1>16, <1>t DEF vars, TypeInv, TypeOK, HeldInv
  <1>17. QED
    BY <1>1, <1>2, <1>3, <1>4, <1>5, <1>6, <1>7, <1>8, <1>9, <1>10, <1>11,
       <1>12, <1>13, <1>14, <1>15, <1>16 DEF Next, Step

(* The variables keep their types, for any sessions, orders, places of turns  *)
(* and bounds.                                                                *)
THEOREM ConfirmationTypes == Spec => []TypeOK
  <1>1. TypeInv => TypeOK
    BY DEF TypeInv
  <1>2. QED
    BY <1>1, TypeInit, TypeStep, PTL DEF Spec

-----------------------------------------------------------------------------
(* The invariant of the three properties.                                     *)

(* Turn s is writing its question into a file it has truncated.               *)
Writing(s) == turn[s].pc \in {"show", "patch"}

(* The order of turn s is new: the user has not seen a question about it.     *)
Fresh(s) == turn[s].pc \in {"ask", "show"}

(* A turn that still looks for an order has none in hand.                     *)
RecordInv ==
  \A s \in Slot :
    /\ turn[s].pc \in Reading \cup {"idle"} => turn[s].held = Nothing
    /\ turn[s].closed \subseteq answered

(* An order belongs to one session: the one it was asked about in.            *)
FileInv == \A k \in Session : store[k] \in Pending => asked[store[k].order] = k

HolderInv ==
  \A s \in Slot : turn[s].held # Nothing =>
    /\ turn[s].held.order \in planned
    /\ Fresh(s) => asked[turn[s].held.order] = NoSession
    /\ ~Fresh(s) => asked[turn[s].held.order] = turn[s].of

FreshInv ==
  \A s, t \in Slot : s # t /\ Fresh(s) /\ Fresh(t) =>
                         turn[s].held.order # turn[t].held.order

PlannedInv ==
  \A o \in Order : /\ asked[o] # NoSession => o \in planned
                   /\ o \in answered => asked[o] # NoSession

(* Where a question that waits for an answer is: QuestionKept, with the       *)
(* session of the turn that writes it again.                                  *)
Kept ==
  \A k \in Session : \A o \in Open(k) :
    \/ store[k] \in Pending /\ store[k].order = o
    \/ /\ store[k] = Torn
       /\ \E s \in Slot : turn[s].pc = "patch" /\ turn[s].of = k /\ turn[s].held.order = o

(* A question that is written into a file that was removed goes with it.      *)
WriterInv ==
  \A s \in Slot :
    Writing(s) /\ store[turn[s].of] = NoFile =>
      turn[s].held.order \in answered \cup lost \cup erased

(* An answered order is in a file, or taken up from one, only when another    *)
(* turn has saved it again.                                                   *)
AnsweredFile ==
  \A k \in Session :
    store[k] \in Pending /\ store[k].order \in answered => store[k].order \in revived

AnsweredHeld ==
  \A s \in Slot :
    turn[s].held # Nothing /\ turn[s].held.order \in turn[s].closed =>
      turn[s].held.order \in revived

OrderInv == RecordInv /\ FileInv /\ HolderInv /\ FreshInv /\ PlannedInv

WaitInv == Kept /\ WriterInv

AnswerInv == AnsweredFile /\ AnsweredHeld /\ AnswersOpenQuestion

SafeInv == OrderInv /\ WaitInv /\ AnswerInv

-----------------------------------------------------------------------------
(* Only writing a question opens one. *)
LEMMA OpenShrinks ==
  ASSUME TypeInv, TypeInv', NEW k \in Session,
         asked' = asked, until' = until, clock <= clock',
         answered \subseteq answered', lost \subseteq lost', erased \subseteq erased'
  PROVE  Open(k)' \subseteq Open(k)
  <1> SUFFICES ASSUME NEW o \in Order, o \in Open(k)'
               PROVE  o \in Open(k)
    BY DEF Open
  <1>1. asked[o] = k /\ o \notin answered \cup lost \cup erased /\ clock' <= until[o]
    BY DEF Open
  <1>2. clock \in Nat /\ clock' \in Nat /\ until[o] \in Nat
    BY ConfirmationAssumption DEF TypeInv, TypeOK
  <1>3. QED
    BY <1>1, <1>2 DEF Open

(* A question that is open is in its session's file, or being written to it.  *)
LEMMA OpenContent ==
  ASSUME SafeInv, NEW k \in Session
  PROVE  Open(k) \subseteq Content(k)
  BY DEF SafeInv, WaitInv, Kept, Content, Open

(* When the file holds an order, no question is open but the one about it;    *)
(* when there is no file, none is.                                            *)
LEMMA OpenInFile ==
  ASSUME SafeInv, NEW k \in Session
  PROVE  /\ store[k] \in Pending => Open(k) \subseteq {store[k].order}
         /\ store[k] = NoFile => Open(k) = {}
  BY ConfirmationAssumption DEF SafeInv, WaitInv, Kept

(* The questions open in the session of a turn when it takes an order.        *)
LEMMA OpenWhenFound ==
  ASSUME TypeInv, SafeInv, NEW k \in Session, NEW j \in Found(k)
  PROVE  Open(k) \subseteq {store[j].order}
  <1>1. j \in Session /\ store[j] \in Pending
    BY FoundPending DEF TypeInv
  <1>2. j = k \/ store[k] = NoFile
    BY DEF Found
  <1>3. QED
    BY <1>1, <1>2, OpenInFile

(* The order in the hand of a turn that acts on it.                           *)
LEMMA ActingHolds ==
  ASSUME TypeInv, NEW s \in Slot, turn[s].pc \in Acting
  PROVE  /\ turn[s].held \in Pending /\ turn[s].held # Nothing /\ turn[s].held.order \in Order
         /\ turn[s].of \in Session
  BY PendingFields DEF TypeInv, TypeOK, HeldInv, InHand, Turn

(* Two turns that have the same order in hand have it from the same session.  *)
LEMMA SameSession ==
  ASSUME SafeInv, TypeInv, NEW s \in Slot, NEW u \in Slot,
         turn[s].held # Nothing, turn[u].held # Nothing, s # u,
         turn[s].held.order = turn[u].held.order
  PROVE  turn[u].of = turn[s].of
  <1>1. \A v \in {s, u} : turn[v].held # Nothing => turn[v].of # NoSession
    BY DEF TypeInv, HeldInv, InHand
  <1>2. QED
    BY <1>1 DEF SafeInv, OrderInv, HolderInv, FreshInv

-----------------------------------------------------------------------------
LEMMA SafeInit == Init => SafeInv
  <1> SUFFICES ASSUME Init PROVE SafeInv
    OBVIOUS
  <1> USE ConfirmationAssumption DEF Init, Idle
  <1>1. OrderInv
    BY DEF OrderInv, RecordInv, FileInv, HolderInv, FreshInv, PlannedInv, Fresh
  <1>2. WaitInv
    BY DEF WaitInv, Kept, WriterInv, Writing, Open
  <1>3. AnswerInv
    BY DEF AnswerInv, AnsweredFile, AnsweredHeld, AnswersOpenQuestion, Answering
  <1>4. QED
    BY <1>1, <1>2, <1>3 DEF SafeInv

(* A turn that begins or ends, without a file being touched.                  *)
LEMMA RestStep ==
  ASSUME TypeInv, SafeInv, TypeInv', NEW s \in Slot, NEW t,
         turn' = [turn EXCEPT ![s] = t], turn[s].pc # "patch",
         t.held = Nothing, t.of = NoSession, t.stale = {}, t.closed \subseteq answered,
         t.pc \in {"idle", "cancel", "slot"},
         clock' = clock, store' = store, planned' = planned, UNCHANGED history
  PROVE  SafeInv'
  <1>1. /\ turn'[s] = t
        /\ \A u \in Slot \ {s} : turn'[u] = turn[u]
    BY DEF TypeInv, TypeOK
  <1>2. \A k \in Session : Open(k)' = Open(k)
    BY DEF Open, history
  <1>3. OrderInv'
    BY <1>1, ConfirmationAssumption
    DEF SafeInv, OrderInv, RecordInv, FileInv, HolderInv, FreshInv, PlannedInv,
        Fresh, history
  <1>4. Kept'
    BY <1>1, <1>2 DEF SafeInv, WaitInv, Kept
  <1>5. WriterInv'
    BY <1>1 DEF SafeInv, WaitInv, WriterInv, Writing, history
  <1>6. AnswerInv'
    BY <1>1
    DEF SafeInv, AnswerInv, AnsweredFile, AnsweredHeld, AnswersOpenQuestion, Answering, history
  <1>7. QED
    BY <1>3, <1>4, <1>5, <1>6 DEF SafeInv, WaitInv

(* A turn that goes on with what it has in hand.                              *)
LEMMA GoStep ==
  ASSUME TypeInv, SafeInv, TypeInv', NEW s \in Slot, NEW pc \in {"run", "clear"},
         turn[s].pc \in {"plan", "confirmed", "run"}, turn' = [turn EXCEPT ![s].pc = pc],
         clock' = clock, store' = store, planned' = planned, UNCHANGED history
  PROVE  SafeInv'
  <1>1. /\ turn'[s] = [turn[s] EXCEPT !.pc = pc]
        /\ \A u \in Slot \ {s} : turn'[u] = turn[u]
        /\ turn[s] \in Turn
    BY DEF TypeInv, TypeOK
  <1>2. /\ turn'[s].held = turn[s].held /\ turn'[s].of = turn[s].of
        /\ turn'[s].open = turn[s].open
        /\ turn'[s].closed = turn[s].closed /\ turn'[s].pc = pc
    BY <1>1 DEF Turn
  <1>3. \A k \in Session : Open(k)' = Open(k)
    BY DEF Open, history
  <1>4. OrderInv'
    BY <1>1, <1>2
    DEF SafeInv, OrderInv, RecordInv, FileInv, HolderInv, FreshInv, PlannedInv,
        Fresh, Reading, history
  <1>5. Kept'
    BY <1>1, <1>2, <1>3 DEF SafeInv, WaitInv, Kept
  <1>6. WriterInv'
    BY <1>1, <1>2 DEF SafeInv, WaitInv, WriterInv, Writing, history
  <1>7. AnswerInv'
    BY <1>1, <1>2
    DEF SafeInv, AnswerInv, AnsweredFile, AnsweredHeld, AnswersOpenQuestion, Answering,
        OrderInv, RecordInv, Reading, history
  <1>8. QED
    BY <1>4, <1>5, <1>6, <1>7 DEF SafeInv, WaitInv

(* A turn that plans an order to ask about.                                   *)
LEMMA PlanStep ==
  ASSUME TypeInv, SafeInv, TypeInv', NEW s \in Slot, NEW t, turn' = [turn EXCEPT ![s] = t],
         turn[s].pc = "plan", t.pc = "ask", t.held \in Pending, t.stale = {},
         t.closed = turn[s].closed, t.held.order \notin planned,
         planned' = planned \cup {t.held.order},
         clock' = clock, store' = store, UNCHANGED history
  PROVE  SafeInv'
  <1> DEFINE p == t.held
  <1>1. /\ turn'[s] = t
        /\ \A u \in Slot \ {s} : turn'[u] = turn[u]
    BY DEF TypeInv, TypeOK
  <1>2. \A k \in Session : Open(k)' = Open(k)
    BY DEF Open, history
  <1>3. p.order \in Order /\ asked[p.order] = NoSession /\ p.order \notin answered
    <2>1. p.order \in Order
      BY PendingFields
    <2>2. QED
      BY <2>1 DEF SafeInv, OrderInv, PlannedInv
  <1>4. ASSUME NEW u \in Slot \ {s}, turn[u].pc \in Acting
        PROVE  turn[u].held.order # p.order
    BY <1>4 DEF SafeInv, OrderInv, HolderInv, TypeInv, HeldInv, InHand
  <1>5. turn[s].closed \subseteq answered
    BY DEF SafeInv, OrderInv, RecordInv
  <1>6. OrderInv'
    BY <1>1, <1>3, <1>4, <1>5
    DEF SafeInv, OrderInv, RecordInv, FileInv, HolderInv, FreshInv, PlannedInv,
        Fresh, Reading, Acting, history
  <1>7. Kept'
    BY <1>1, <1>2 DEF SafeInv, WaitInv, Kept
  <1>8. WriterInv'
    BY <1>1 DEF SafeInv, WaitInv, WriterInv, Writing, history
  <1>9. AnswerInv'
    BY <1>1, <1>3, <1>5
    DEF SafeInv, AnswerInv, AnsweredFile, AnsweredHeld, AnswersOpenQuestion, Answering, history
  <1>10. QED
    BY <1>6, <1>7, <1>8, <1>9 DEF SafeInv, WaitInv

(* A turn that takes order p, which it has read in the file of session j.     *)
LEMMA TakeStep ==
  ASSUME TypeInv, SafeInv, TypeInv', NEW s \in Slot, turn[s].pc \in Reading,
         turn[s].stale = {}, NEW j \in Found(turn[s].session),
         NEW pc \in {"save", "confirmed", "clear"},
         NEW p \in Pending, p.order = store[j].order, Take(s, j, pc, p),
         clock' = clock, store' = store, planned' = planned, UNCHANGED history
  PROVE  SafeInv'
  <1> DEFINE k == turn[s].session
             t == [turn[s] EXCEPT !.pc = pc, !.held = p, !.of = j,
                                  !.stale = Expired(k), !.open = Open(k)]
  <1>s. k \in Session /\ turn[s] \in Turn /\ turn[s].held = Nothing
    BY DEF TypeInv, TypeOK, HeldInv, InHand, SafeInv, OrderInv, RecordInv
  <1>j. j \in Session /\ store[j] \in Pending
    BY <1>s, FoundPending DEF TypeInv
  <1>p. p.order \in Order /\ asked[p.order] = j
    BY <1>j, PendingFields DEF SafeInv, OrderInv, FileInv
  <1>1. turn' = [turn EXCEPT ![s] = t]
    BY DEF Take
  <1>2. /\ turn'[s] = t
        /\ \A u \in Slot \ {s} : turn'[u] = turn[u]
    BY <1>1 DEF TypeInv, TypeOK
  <1>3. /\ t.pc = pc /\ t.held = p /\ t.of = j
        /\ t.open = Open(k) /\ t.closed = turn[s].closed
    BY <1>s DEF Turn
  <1>4. \A l \in Session : Open(l)' = Open(l)
    BY DEF Open, history
  <1>5. Open(k) \subseteq {p.order}
    BY <1>s, OpenWhenFound
  <1>6. turn[s].closed \subseteq answered
    BY DEF SafeInv, OrderInv, RecordInv
  <1>7. p.order \in answered => p.order \in revived
    BY <1>j DEF SafeInv, AnswerInv, AnsweredFile
  <1> HIDE DEF t, k
  <1>8. OrderInv'
    <2>1. p.order \in planned
      BY <1>j, <1>p, ConfirmationAssumption DEF SafeInv, OrderInv, PlannedInv
    <2>2. QED
      BY <1>2, <1>3, <1>6, <1>p, <2>1
      DEF SafeInv, OrderInv, RecordInv, FileInv, HolderInv, FreshInv, PlannedInv,
          Fresh, Reading, history
  <1>9. Kept'
    BY <1>2, <1>4 DEF SafeInv, WaitInv, Kept, Reading
  <1>10. WriterInv'
    BY <1>2, <1>3 DEF SafeInv, WaitInv, WriterInv, Writing, history
  <1>11. AnsweredFile' /\ AnsweredHeld'
    BY <1>2, <1>3, <1>6, <1>7 DEF SafeInv, AnswerInv, AnsweredFile, AnsweredHeld, history
  <1>12. AnswersOpenQuestion'
    BY <1>2, <1>3, <1>5 DEF SafeInv, AnswerInv, AnswersOpenQuestion, Answering
  <1>13. QED
    BY <1>8, <1>9, <1>10, <1>11, <1>12 DEF SafeInv, WaitInv, AnswerInv

(* A turn whose load finds none, or that does not take what it finds.         *)
LEMMA PassStep ==
  ASSUME TypeInv, SafeInv, TypeInv', NEW s \in Slot, turn[s].pc \in Reading,
         turn[s].stale = {}, NEW pc \in {"idle", "confirm", "plan"}, Pass(s, pc),
         clock' = clock, store' = store, planned' = planned, UNCHANGED history
  PROVE  SafeInv'
  <1> DEFINE k == turn[s].session
             t == [turn[s] EXCEPT !.pc = pc, !.stale = Expired(k)]
  <1>s. turn[s] \in Turn /\ turn[s].held = Nothing
    BY DEF TypeInv, TypeOK, SafeInv, OrderInv, RecordInv
  <1>1. turn' = [turn EXCEPT ![s] = t]
    BY DEF Pass
  <1>2. /\ turn'[s] = t
        /\ \A u \in Slot \ {s} : turn'[u] = turn[u]
    BY <1>1 DEF TypeInv, TypeOK
  <1>3. /\ t.pc = pc /\ t.held = Nothing /\ t.of = turn[s].of
        /\ t.open = turn[s].open /\ t.closed = turn[s].closed
    BY <1>s DEF Turn
  <1>4. \A l \in Session : Open(l)' = Open(l)
    BY DEF Open, history
  <1> HIDE DEF t, k
  <1>5. OrderInv'
    BY <1>2, <1>3
    DEF SafeInv, OrderInv, RecordInv, FileInv, HolderInv, FreshInv, PlannedInv,
        Fresh, Reading, history
  <1>6. Kept'
    BY <1>2, <1>4 DEF SafeInv, WaitInv, Kept, Reading
  <1>7. WriterInv'
    BY <1>2, <1>3 DEF SafeInv, WaitInv, WriterInv, Writing, history
  <1>8. AnswerInv'
    BY <1>2, <1>3
    DEF SafeInv, AnswerInv, AnsweredFile, AnsweredHeld, AnswersOpenQuestion, Answering, history
  <1>9. QED
    BY <1>5, <1>6, <1>7, <1>8 DEF SafeInv, WaitInv

(* A turn that removes the file of a question it has read as expired: no      *)
(* question of the session is open any more.                                  *)
LEMMA DropStep ==
  ASSUME TypeInv, SafeInv, TypeInv', NEW s \in Slot, NEW k \in Session, Drop(s, k)
  PROVE  SafeInv'
  <1> DEFINE t == [turn[s] EXCEPT !.stale = @ \ {k}]
  <1>s. /\ turn[s] \in Turn /\ erased' = erased \cup Content(k)
        /\ clock' = clock /\ planned' = planned /\ asked' = asked /\ until' = until
        /\ answered' = answered /\ lost' = lost /\ revived' = revived
    BY DEF TypeInv, TypeOK, Drop
  <1>1. /\ turn'[s] = t
        /\ \A u \in Slot \ {s} : turn'[u] = turn[u]
    BY DEF Drop, TypeInv, TypeOK
  <1>2. /\ t.pc = turn[s].pc /\ t.held = turn[s].held /\ t.of = turn[s].of
        /\ t.open = turn[s].open /\ t.closed = turn[s].closed
    BY <1>s DEF Turn
  <1>3. /\ store'[k] = NoFile
        /\ \A l \in Session \ {k} : store'[l] = store[l]
    BY DEF Drop, TypeInv, TypeOK
  <1>4. \A l \in Session : Open(l)' \subseteq Open(l)
    BY <1>s, OpenShrinks, ConfirmationAssumption DEF TypeInv, TypeOK
  <1>5. Open(k)' = {}
    <2>1. Open(k)' \subseteq Content(k)
      BY <1>4, OpenContent
    <2>2. Open(k)' \cap erased' = {}
      BY DEF Open
    <2>3. QED
      BY <1>s, <2>1, <2>2
  <1>6. \A u \in Slot : /\ turn'[u].pc = turn[u].pc /\ turn'[u].held = turn[u].held
                        /\ turn'[u].of = turn[u].of /\ turn'[u].open = turn[u].open
                        /\ turn'[u].closed = turn[u].closed
    BY <1>1, <1>2
  <1> HIDE DEF t
  <1>7. OrderInv'
    BY <1>s, <1>3, <1>6, ConfirmationAssumption
    DEF SafeInv, OrderInv, RecordInv, FileInv, HolderInv, FreshInv, PlannedInv, Fresh
  <1>8. Kept'
    BY <1>3, <1>4, <1>5, <1>6 DEF SafeInv, WaitInv, Kept
  <1>9. WriterInv'
    <2> SUFFICES ASSUME NEW u \in Slot, Writing(u), store'[turn[u].of] = NoFile
                 PROVE  turn[u].held.order \in answered \cup lost \cup erased'
      BY <1>s, <1>6 DEF WriterInv, Writing
    <2>1. turn[u].of \in Session /\ turn[u].held.order \in Order
      BY ActingHolds DEF Writing, Acting
    <2>2. CASE turn[u].of = k
      BY <1>s, <2>1, <2>2 DEF Content, Writing
    <2>3. CASE turn[u].of # k
      BY <1>s, <1>3, <2>1, <2>3 DEF SafeInv, WaitInv, WriterInv
    <2>4. QED
      BY <2>2, <2>3
  <1>10. AnswerInv'
    BY <1>s, <1>3, <1>6, ConfirmationAssumption
    DEF SafeInv, AnswerInv, AnsweredFile, AnsweredHeld, AnswersOpenQuestion, Answering
  <1>11. QED
    BY <1>7, <1>8, <1>9, <1>10 DEF SafeInv, WaitInv

(* A turn that has finished with an order, and removes its file, with the     *)
(* question of another order if it holds one.                                 *)
LEMMA ClearStep ==
  ASSUME TypeInv, SafeInv, TypeInv', NEW s \in Slot, Clear(s)
  PROVE  SafeInv'
  <1> SUFFICES ASSUME NEW k, NEW o, k = turn[s].of, o = turn[s].held.order
               PROVE  SafeInv'
    OBVIOUS
  <1>s. /\ turn[s].pc = "clear" /\ k \in Session /\ o \in Order /\ turn[s].held # Nothing
        /\ answered' = answered \cup {o} /\ erased' = erased \cup (Content(k) \ {o})
        /\ clock' = clock /\ planned' = planned /\ asked' = asked /\ until' = until
        /\ lost' = lost /\ revived' = revived
    BY ActingHolds DEF Clear, Ready, Acting
  <1>1. /\ turn'[s] = Idle
        /\ \A u \in Slot \ {s} : turn'[u] = turn[u]
    BY DEF Clear, Close, TypeInv, TypeOK
  <1>2. /\ Idle.pc = "idle" /\ Idle.held = Nothing /\ Idle.of = NoSession
        /\ Idle.open = {} /\ Idle.closed = {}
    BY DEF Idle
  <1>3. /\ store'[k] = NoFile
        /\ \A l \in Session \ {k} : store'[l] = store[l]
    BY <1>s DEF Clear, TypeInv, TypeOK
  <1>4. \A l \in Session : Open(l)' \subseteq Open(l)
    BY <1>s, OpenShrinks, ConfirmationAssumption DEF TypeInv, TypeOK
  <1>5. Open(k)' = {}
    <2>1. Open(k)' \subseteq Content(k)
      BY <1>s, <1>4, OpenContent
    <2>2. Open(k)' \cap (answered' \cup erased') = {}
      BY DEF Open
    <2>3. QED
      BY <1>s, <2>1, <2>2
  <1>6. asked[o] = k
    BY <1>s DEF SafeInv, OrderInv, HolderInv, Fresh
  <1>7. OrderInv'
    BY <1>s, <1>1, <1>2, <1>3, <1>6, ConfirmationAssumption
    DEF SafeInv, OrderInv, RecordInv, FileInv, HolderInv, FreshInv, PlannedInv, Fresh
  <1>8. Kept'
    BY <1>s, <1>1, <1>3, <1>4, <1>5 DEF SafeInv, WaitInv, Kept
  <1>9. WriterInv'
    <2> SUFFICES ASSUME NEW u \in Slot \ {s}, Writing(u), store'[turn[u].of] = NoFile
                 PROVE  turn[u].held.order \in answered' \cup lost \cup erased'
      BY <1>s, <1>1, <1>2 DEF WriterInv, Writing
    <2>1. turn[u].of \in Session /\ turn[u].held.order \in Order
      BY ActingHolds DEF Writing, Acting
    <2>2. CASE turn[u].of = k
      BY <1>s, <2>1, <2>2 DEF Content, Writing
    <2>3. CASE turn[u].of # k
      BY <1>s, <1>3, <2>1, <2>3 DEF SafeInv, WaitInv, WriterInv
    <2>4. QED
      BY <2>2, <2>3
  <1>10. AnsweredFile'
    BY <1>s, <1>3, <1>6, ConfirmationAssumption
    DEF SafeInv, AnswerInv, AnsweredFile, OrderInv, FileInv
  <1>11. AnsweredHeld'
    BY <1>s, <1>1, <1>2 DEF SafeInv, AnswerInv, AnsweredHeld
  <1>12. AnswersOpenQuestion'
    BY <1>1, <1>2 DEF SafeInv, AnswerInv, AnswersOpenQuestion, Answering
  <1>13. QED
    BY <1>7, <1>8, <1>9, <1>10, <1>11, <1>12 DEF SafeInv, WaitInv, AnswerInv

(* A turn that opens the file of an order for writing: the question about     *)
(* that order is the only one that may still be open.                         *)
LEMMA TruncateStep ==
  ASSUME TypeInv, SafeInv, TypeInv', NEW s \in Slot, Truncate(s)
  PROVE  SafeInv'
  <1>1. PICK pc \in {"show", "patch"} :
          /\ turn[s].pc = IF pc = "show" THEN "ask" ELSE "save"
          /\ turn' = [turn EXCEPT ![s].pc = pc, ![s].held.expires = clock + Ttl]
    BY DEF Truncate, Ready
  <1> SUFFICES ASSUME NEW k, NEW o, k = turn[s].of, o = turn[s].held.order
               PROVE  SafeInv'
    OBVIOUS
  <1>s. /\ k \in Session /\ o \in Order /\ turn[s].held # Nothing /\ turn[s].held \in Pending
        /\ turn[s] \in Turn
        /\ store' = [store EXCEPT ![k] = Torn] /\ lost' = lost \cup (Content(k) \ {o})
        /\ clock' = clock /\ planned' = planned /\ asked' = asked /\ until' = until
        /\ answered' = answered /\ erased' = erased /\ revived' = revived
    BY <1>1, ActingHolds DEF Truncate, Acting, TypeInv, TypeOK
  <1>2. /\ turn'[s].pc = pc /\ turn'[s].of = k /\ turn'[s].held.order = o
        /\ turn'[s].held # Nothing
        /\ turn'[s].open = turn[s].open /\ turn'[s].closed = turn[s].closed
        /\ \A u \in Slot \ {s} : turn'[u] = turn[u]
    <2> DEFINE p == [turn[s].held EXCEPT !.expires = clock + Ttl]
               t == [turn[s] EXCEPT !.pc = pc, !.held = p]
    <2>1. turn' = [turn EXCEPT ![s] = t]
      BY <1>1
    <2>2. p \in Pending /\ p.order = o
      BY <1>s, ConfirmationAssumption DEF Pending, TypeInv, TypeOK
    <2>3. /\ t.pc = pc /\ t.of = k /\ t.held = p
          /\ t.open = turn[s].open /\ t.closed = turn[s].closed
      BY <1>s DEF Turn
    <2> HIDE DEF p, t
    <2>4. turn'[s] = t /\ \A u \in Slot \ {s} : turn'[u] = turn[u]
      BY <2>1 DEF TypeInv, TypeOK
    <2>5. QED
      BY <2>2, <2>3, <2>4, ConfirmationAssumption
  <1>3. /\ store'[k] = Torn
        /\ \A l \in Session \ {k} : store'[l] = store[l]
    BY <1>s DEF TypeInv, TypeOK
  <1>4. \A l \in Session : Open(l)' \subseteq Open(l)
    BY <1>s, OpenShrinks, ConfirmationAssumption DEF TypeInv, TypeOK
  <1>5. Open(k)' \subseteq {o}
    <2>1. Open(k)' \subseteq Content(k)
      BY <1>s, <1>4, OpenContent
    <2>2. Open(k)' \cap lost' = {}
      BY DEF Open
    <2>3. QED
      BY <1>s, <2>1, <2>2
  <1>6. pc = "show" => Open(k)' = {}
    <2> SUFFICES ASSUME pc = "show"
                 PROVE  o \notin Open(k)
      BY <1>s, <1>4, <1>5
    <2>1. asked[o] = NoSession
      BY <1>1, <1>s DEF SafeInv, OrderInv, HolderInv, Fresh
    <2>2. QED
      BY <1>s, <2>1, ConfirmationAssumption DEF Open
  <1>7. Fresh(s)' <=> Fresh(s)
    BY <1>1, <1>2 DEF Fresh
  <1>8. OrderInv'
    <2>1. RecordInv'
      BY <1>s, <1>2 DEF SafeInv, OrderInv, RecordInv, Reading
    <2>2. FileInv'
      BY <1>s, <1>3, ConfirmationAssumption DEF SafeInv, OrderInv, FileInv
    <2>3. HolderInv'
      BY <1>s, <1>2, <1>7 DEF SafeInv, OrderInv, HolderInv, Fresh
    <2>4. FreshInv'
      BY <1>s, <1>2, <1>7 DEF SafeInv, OrderInv, FreshInv, Fresh
    <2>5. PlannedInv'
      BY <1>s DEF SafeInv, OrderInv, PlannedInv
    <2>6. QED
      BY <2>1, <2>2, <2>3, <2>4, <2>5 DEF OrderInv
  <1>9. Kept'
    <2> SUFFICES ASSUME NEW l \in Session, NEW q \in Open(l)'
                 PROVE  \/ store'[l] \in Pending /\ store'[l].order = q
                        \/ /\ store'[l] = Torn
                           /\ \E u \in Slot : /\ turn'[u].pc = "patch" /\ turn'[u].of = l
                                              /\ turn'[u].held.order = q
      BY DEF Kept
    <2>1. CASE l = k
      BY <1>2, <1>3, <1>5, <1>6, <2>1
    <2>2. CASE l # k
      <3>1. q \in Open(l) /\ store'[l] = store[l]
        BY <1>3, <1>4, <2>2
      <3>2. CASE store[l] \in Pending /\ store[l].order = q
        BY <3>1, <3>2
      <3>3. ASSUME store[l] = Torn, NEW u \in Slot,
                   turn[u].pc = "patch", turn[u].of = l, turn[u].held.order = q
            PROVE  turn'[u].pc = "patch" /\ turn'[u].of = l /\ turn'[u].held.order = q
        BY <1>s, <1>2, <2>2, <3>3
      <3>4. QED
        BY <3>1, <3>2, <3>3 DEF SafeInv, WaitInv, Kept
    <2>3. QED
      BY <2>1, <2>2
  <1>10. WriterInv'
    <2> SUFFICES ASSUME NEW u \in Slot, Writing(u)', store'[turn'[u].of] = NoFile
                 PROVE  turn'[u].held.order \in answered \cup lost' \cup erased
      BY <1>s DEF WriterInv
    <2>1. turn'[u].of # k
      BY <1>3, ConfirmationAssumption
    <2>2. u # s /\ Writing(u) /\ turn'[u] = turn[u]
      BY <1>2, <2>1 DEF Writing
    <2>3. turn[u].of \in Session
      BY <2>2, ActingHolds DEF Writing, Acting
    <2>4. QED
      BY <1>s, <1>3, <2>1, <2>2, <2>3 DEF SafeInv, WaitInv, WriterInv
  <1>11. AnsweredFile'
    BY <1>s, <1>3, ConfirmationAssumption DEF SafeInv, AnswerInv, AnsweredFile
  <1>12. AnsweredHeld'
    BY <1>s, <1>2 DEF SafeInv, AnswerInv, AnsweredHeld
  <1>13. AnswersOpenQuestion'
    BY <1>1, <1>s, <1>2 DEF SafeInv, AnswerInv, AnswersOpenQuestion, Answering
  <1>14. QED
    BY <1>8, <1>9, <1>10, <1>11, <1>12, <1>13 DEF SafeInv, WaitInv, AnswerInv

(* A turn that writes its question, or goes without it where the file was     *)
(* removed or another turn has written it.                                    *)
LEMMA WriteStep ==
  ASSUME TypeInv, SafeInv, TypeInv', NEW s \in Slot, Write(s)
  PROVE  SafeInv'
  <1> SUFFICES ASSUME NEW k, NEW p, NEW o,
                      k = turn[s].of, p = turn[s].held, o = turn[s].held.order
               PROVE  SafeInv'
    OBVIOUS
  <1>s. /\ Writing(s) /\ k \in Session /\ o \in Order /\ p \in Pending /\ p # Nothing
        /\ p.order = o /\ turn[s] \in Turn
        /\ revived' = revived \cup ({o} \cap answered)
        /\ asked' = [asked EXCEPT ![o] = k] /\ until' = [until EXCEPT ![o] = p.expires]
        /\ clock' = clock /\ planned' = planned /\ answered' = answered
    BY ActingHolds DEF Write, Ready, Writing, Acting, TypeInv, TypeOK
  <1>f. PICK f \in {NoFile, Torn, p} :
          /\ f = NoFile <=> store[k] = NoFile
          /\ f = Torn => store[k] \in Pending
          /\ store' = [store EXCEPT ![k] = f]
          /\ lost' = IF f = p THEN (lost \cup Content(k)) \ {o} ELSE lost
          /\ erased' = IF f = p THEN erased \ {o}
                       ELSE IF f = Torn THEN erased \cup Content(k) ELSE erased
    BY DEF Write
  <1>g. p # NoFile /\ p # Torn /\ NoFile # Torn /\ k # NoSession /\ NoFile \notin Pending
        /\ Torn \notin Pending
    BY <1>s, ConfirmationAssumption
  <1>1. /\ \/ turn[s].pc = "show" /\ turn'[s] = Idle
           \/ /\ turn[s].pc = "patch" /\ turn'[s].pc = "confirmed"
              /\ turn'[s].held = p /\ turn'[s].of = k
              /\ turn'[s].open = turn[s].open /\ turn'[s].closed = turn[s].closed
        /\ \A u \in Slot \ {s} : turn'[u] = turn[u]
    BY <1>s DEF Write, Ready, Close, Turn, TypeInv, TypeOK
  <1>2. /\ Idle.pc = "idle" /\ Idle.held = Nothing /\ Idle.of = NoSession
        /\ Idle.open = {} /\ Idle.closed = {}
    BY DEF Idle
  <1>3. /\ store'[k] = f
        /\ \A l \in Session \ {k} : store'[l] = store[l]
    BY <1>s, <1>f DEF TypeInv, TypeOK
  <1>a. /\ asked'[o] = k /\ until'[o] = p.expires
        /\ \A q \in Order \ {o} : asked'[q] = asked[q] /\ until'[q] = until[q]
    BY <1>s DEF TypeInv, TypeOK
  <1>c. o \in Content(k)
    BY <1>s DEF Content, Writing
  <1>4. \A l \in Session : Open(l)' \ {o} \subseteq Open(l)
    <2> SUFFICES ASSUME NEW l \in Session, NEW q \in Order, q \in Open(l)', q # o
                 PROVE  q \in Open(l)
      BY DEF Open
    <2>1. q \notin answered \cup lost \cup erased
      BY <1>s, <1>f DEF Open
    <2>2. QED
      BY <1>s, <1>a, <2>1 DEF Open
  <1>5. \A l \in Session \ {k} : o \notin Open(l)'
    BY <1>s, <1>a DEF Open
  <1>6. Open(k)' \subseteq IF f = p THEN {o} ELSE {}
    <2>1. Open(k)' \cap (answered' \cup lost' \cup erased') = {}
      BY DEF Open
    <2>2. Open(k) \subseteq Content(k)
      BY <1>s, OpenContent
    <2>3. CASE f = p
      BY <1>f, <1>s, <1>4, <2>1, <2>2, <2>3
    <2>4. CASE f = Torn
      BY <1>f, <1>g, <1>s, <1>c, <1>4, <2>1, <2>2, <2>4
    <2>5. CASE f = NoFile
      <3>1. Open(k) = {}
        BY <1>s, <1>f, <2>5, OpenInFile
      <3>2. o \in answered \cup lost \cup erased
        BY <1>s, <1>f, <2>5 DEF SafeInv, WaitInv, WriterInv
      <3>3. lost' = lost /\ erased' = erased
        BY <1>f, <1>g, <2>5
      <3>4. QED
        BY <1>s, <1>4, <1>g, <2>1, <2>5, <3>1, <3>2, <3>3
    <2>6. QED
      BY <1>f, <2>3, <2>4, <2>5
  <1>7. ASSUME NEW u \in Slot \ {s}, turn[u].held # Nothing, turn[u].held.order = o
        PROVE  turn[u].of = k /\ ~Fresh(u)
    <2>1. turn[u].of = k
      BY <1>s, <1>7, SameSession
    <2>2. asked[o] = NoSession => Fresh(s)
      BY <1>s, <1>g DEF SafeInv, OrderInv, HolderInv
    <2>3. QED
      BY <1>s, <1>7, <2>1, <2>2 DEF SafeInv, OrderInv, HolderInv, FreshInv
  <1>8. OrderInv'
    <2>1. RecordInv'
      BY <1>s, <1>1, <1>2 DEF SafeInv, OrderInv, RecordInv, Reading
    <2>2. FileInv'
      <3> SUFFICES ASSUME NEW l \in Session, store'[l] \in Pending
                   PROVE  asked'[store'[l].order] = l
        BY DEF FileInv
      <3>1. CASE l = k
        BY <1>f, <1>g, <1>s, <1>3, <1>a, <3>1
      <3>2. CASE l # k
        <4>1. store[l] \in Pending /\ asked[store[l].order] = l /\ store'[l] = store[l]
          BY <1>3, <3>2 DEF SafeInv, OrderInv, FileInv
        <4>2. store[l].order \in Order
          BY <4>1, PendingFields
        <4>3. store[l].order # o
          <5> SUFFICES ASSUME asked[o] = l PROVE FALSE
            BY <4>1
          <5>1. asked[o] \in {NoSession, k}
            BY <1>s DEF SafeInv, OrderInv, HolderInv
          <5>2. QED
            BY <5>1, <3>2, ConfirmationAssumption
        <4>4. QED
          BY <1>a, <4>1, <4>2, <4>3
      <3>3. QED
        BY <3>1, <3>2
    <2>3. HolderInv'
      <3> SUFFICES ASSUME NEW u \in Slot, turn'[u].held # Nothing
                   PROVE  /\ turn'[u].held.order \in planned
                          /\ Fresh(u)' => asked'[turn'[u].held.order] = NoSession
                          /\ ~Fresh(u)' => asked'[turn'[u].held.order] = turn'[u].of
        BY <1>s DEF HolderInv
      <3>1. CASE u = s
        BY <1>s, <1>1, <1>2, <1>a, <3>1 DEF SafeInv, OrderInv, HolderInv, Fresh
      <3>2. CASE u # s /\ turn[u].held.order = o
        BY <1>1, <1>7, <1>a, <3>2 DEF SafeInv, OrderInv, HolderInv, Fresh
      <3>3. CASE u # s /\ turn[u].held.order # o
        <4>1. turn[u].held \in Pending /\ turn[u].held.order \in Order /\ turn'[u] = turn[u]
          BY <1>1, <3>3, PendingFields DEF TypeInv, TypeOK, Turn
        <4>2. QED
          BY <1>a, <3>3, <4>1 DEF SafeInv, OrderInv, HolderInv, Fresh
      <3>4. QED
        BY <3>1, <3>2, <3>3
    <2>4. FreshInv'
      BY <1>1, <1>2 DEF SafeInv, OrderInv, FreshInv, Fresh
    <2>5. PlannedInv'
      <3>1. o \in planned
        BY <1>s DEF SafeInv, OrderInv, HolderInv
      <3>2. QED
        BY <1>s, <1>g, <1>a, <3>1 DEF SafeInv, OrderInv, PlannedInv
    <2>6. QED
      BY <2>1, <2>2, <2>3, <2>4, <2>5 DEF OrderInv
  <1>9. Kept'
    <2> SUFFICES ASSUME NEW l \in Session, NEW q \in Open(l)'
                 PROVE  \/ store'[l] \in Pending /\ store'[l].order = q
                        \/ /\ store'[l] = Torn
                           /\ \E u \in Slot : /\ turn'[u].pc = "patch" /\ turn'[u].of = l
                                              /\ turn'[u].held.order = q
      BY DEF Kept
    <2>1. CASE l = k
      BY <1>s, <1>3, <1>6, <2>1
    <2>2. CASE l # k
      <3>1. q # o /\ q \in Open(l) /\ store'[l] = store[l]
        BY <1>3, <1>4, <1>5, <2>2
      <3>2. CASE store[l] \in Pending /\ store[l].order = q
        BY <3>1, <3>2
      <3>3. ASSUME store[l] = Torn, NEW u \in Slot,
                   turn[u].pc = "patch", turn[u].of = l, turn[u].held.order = q
            PROVE  turn'[u].pc = "patch" /\ turn'[u].of = l /\ turn'[u].held.order = q
        BY <1>1, <2>2, <3>3
      <3>4. QED
        BY <3>1, <3>2, <3>3 DEF SafeInv, WaitInv, Kept
    <2>3. QED
      BY <2>1, <2>2
  <1>10. WriterInv'
    <2> SUFFICES ASSUME NEW u \in Slot, Writing(u)', store'[turn'[u].of] = NoFile
                 PROVE  turn'[u].held.order \in answered' \cup lost' \cup erased'
      BY DEF WriterInv
    <2>1. u # s /\ Writing(u) /\ turn'[u] = turn[u]
      BY <1>1, <1>2 DEF Writing
    <2>2. turn[u].of \in Session /\ turn[u].held # Nothing
      BY <2>1, ActingHolds DEF Writing, Acting
    <2>3. store[turn[u].of] = NoFile
      BY <1>f, <1>3, <2>1, <2>2
    <2>4. turn[u].held.order \in answered \cup lost \cup erased
      BY <2>1, <2>3 DEF SafeInv, WaitInv, WriterInv
    <2>5. f = p => turn[u].held.order # o
      BY <1>7, <1>3, <1>g, <2>1, <2>2
    <2>6. QED
      BY <1>s, <1>f, <2>1, <2>4, <2>5
  <1>11. AnsweredFile'
    BY <1>s, <1>f, <1>g, <1>3 DEF SafeInv, AnswerInv, AnsweredFile
  <1>12. AnsweredHeld'
    BY <1>s, <1>1, <1>2 DEF SafeInv, AnswerInv, AnsweredHeld
  <1>13. AnswersOpenQuestion'
    BY <1>s, <1>1, <1>2 DEF SafeInv, AnswerInv, AnswersOpenQuestion, Answering
  <1>14. QED
    BY <1>8, <1>9, <1>10, <1>11, <1>12, <1>13 DEF SafeInv, WaitInv, AnswerInv

LEMMA TickStep ==
  ASSUME TypeInv, SafeInv, TypeInv', Tick
  PROVE  SafeInv'
  <1>1. /\ clock' = clock + 1
        /\ UNCHANGED <<store, turn, turns, crashes, planned, history>>
    BY DEF Tick
  <1>2. \A l \in Session : Open(l)' \subseteq Open(l)
    BY <1>1, OpenShrinks, ConfirmationAssumption DEF TypeInv, TypeOK, history
  <1>3. OrderInv'
    BY <1>1
    DEF SafeInv, OrderInv, RecordInv, FileInv, HolderInv, FreshInv, PlannedInv,
        Fresh, history
  <1>4. Kept'
    BY <1>1, <1>2 DEF SafeInv, WaitInv, Kept
  <1>5. WriterInv'
    BY <1>1 DEF SafeInv, WaitInv, WriterInv, Writing, history
  <1>6. AnswerInv'
    BY <1>1
    DEF SafeInv, AnswerInv, AnsweredFile, AnsweredHeld, AnswersOpenQuestion, Answering, history
  <1>7. QED
    BY <1>3, <1>4, <1>5, <1>6 DEF SafeInv, WaitInv

(* After a crash no turn is left; what was being written is lost.             *)
LEMMA CrashStep ==
  ASSUME TypeInv, SafeInv, TypeInv', Crash
  PROVE  SafeInv'
  <1>1. /\ clock' = clock /\ store' = store /\ planned' = planned /\ asked' = asked
        /\ until' = until /\ answered' = answered /\ erased' = erased
        /\ revived' = revived /\ lost \subseteq lost'
        /\ \A s \in Slot : turn'[s] = Idle
        /\ \A s \in Slot : turn[s].pc = "patch" => turn[s].held.order \in lost'
    BY DEF Crash
  <1>2. /\ Idle.pc = "idle" /\ Idle.held = Nothing /\ Idle.of = NoSession
        /\ Idle.open = {} /\ Idle.closed = {}
    BY DEF Idle
  <1>3. \A l \in Session : Open(l)' \subseteq Open(l)
    BY <1>1, OpenShrinks, ConfirmationAssumption DEF TypeInv, TypeOK
  <1>4. OrderInv'
    BY <1>1, <1>2
    DEF SafeInv, OrderInv, RecordInv, FileInv, HolderInv, FreshInv, PlannedInv, Fresh
  <1>5. Kept'
    <2> SUFFICES ASSUME NEW l \in Session, NEW o \in Open(l)'
                 PROVE  store[l] \in Pending /\ store[l].order = o
      BY <1>1 DEF Kept
    <2>1. o \in Open(l) /\ o \notin lost'
      BY <1>3 DEF Open
    <2>2. QED
      BY <1>1, <2>1 DEF SafeInv, WaitInv, Kept
  <1>6. WriterInv'
    BY <1>1, <1>2 DEF WriterInv, Writing
  <1>7. AnswerInv'
    BY <1>1, <1>2
    DEF SafeInv, AnswerInv, AnsweredFile, AnsweredHeld, AnswersOpenQuestion, Answering
  <1>8. QED
    BY <1>4, <1>5, <1>6, <1>7 DEF SafeInv, WaitInv

LEMMA SafeStep == TypeInv /\ SafeInv /\ TypeInv' /\ [Next]_vars => SafeInv'
  <1> SUFFICES ASSUME TypeInv, SafeInv, TypeInv', [Next]_vars
               PROVE  SafeInv'
    OBVIOUS
  <1> USE DEF history
  <1>i. /\ Idle.pc = "idle" /\ Idle.held = Nothing /\ Idle.of = NoSession
        /\ Idle.stale = {} /\ Idle.closed = {}
    BY DEF Idle
  <1>c. ASSUME NEW s \in Slot, turn[s].pc # "patch", Close(s),
               UNCHANGED <<clock, store, planned, history>>
        PROVE  SafeInv'
    BY <1>c, <1>i, RestStep DEF Close
  <1>1. ASSUME NEW s \in Slot, NEW k \in Session, Begin(s, k)
        PROVE  SafeInv'
    <2>1. PICK pc \in {"cancel", "slot"}, yes \in BOOLEAN :
            turn' = [turn EXCEPT ![s] = [Idle EXCEPT !.pc = pc, !.session = k,
                                           !.yes = yes, !.closed = answered]]
      BY <1>1 DEF Begin
    <2> DEFINE t == [Idle EXCEPT !.pc = pc, !.session = k,
                                 !.yes = yes, !.closed = answered]
    <2>2. /\ t.pc = pc /\ t.held = Nothing /\ t.of = NoSession
          /\ t.stale = {} /\ t.closed = answered
      BY DEF Idle
    <2>3. turn[s].pc # "patch"
      BY <1>1, <1>i DEF Begin
    <2>4. turn' = [turn EXCEPT ![s] = t]
      BY <2>1
    <2> HIDE DEF t
    <2>5. QED
      BY <1>1, <2>2, <2>3, <2>4, RestStep DEF Begin
  <1>2. ASSUME NEW s \in Slot, NEW k \in Session, Drop(s, k)
        PROVE  SafeInv'
    BY <1>2, DropStep
  <1>3. ASSUME NEW s \in Slot, End(s)
        PROVE  SafeInv'
    BY <1>3, <1>c DEF End, Ready
  <1>4. ASSUME NEW s \in Slot, Cancel(s)
        PROVE  SafeInv'
    <2>1. ASSUME NEW j \in Found(turn[s].session), Take(s, j, "clear", store[j])
          PROVE  SafeInv'
      <3>1. turn[s].session \in Session /\ turn[s].pc \in Reading /\ turn[s].stale = {}
        BY <1>4 DEF Cancel, Ready, Reading, TypeInv, HeldInv, InHand
      <3>2. store[j] \in Pending
        BY <3>1, FoundPending DEF TypeInv
      <3>3. QED
        BY <1>4, <2>1, <3>1, <3>2, TakeStep DEF Cancel
    <2>2. ASSUME Pass(s, "idle")
          PROVE  SafeInv'
      BY <1>4, <2>2, PassStep DEF Cancel, Ready, Reading
    <2>3. QED
      BY <1>4, <2>1, <2>2 DEF Cancel
  <1>5. ASSUME NEW s \in Slot, Clear(s)
        PROVE  SafeInv'
    BY <1>5, ClearStep
  <1>6. ASSUME NEW s \in Slot, SlotReply(s)
        PROVE  SafeInv'
    <2>s. turn[s].session \in Session /\ turn[s].pc \in Reading /\ turn[s].stale = {}
      BY <1>6 DEF SlotReply, Ready, Reading, TypeInv, HeldInv, InHand
    <2>1. ASSUME NEW j \in Found(turn[s].session), store[j].gap > 0,
                 Take(s, j, "save", Filled(store[j]))
          PROVE  SafeInv'
      <3>1. store[j] \in Pending
        BY <2>s, FoundPending DEF TypeInv
      <3>2. Filled(store[j]) \in Pending /\ Filled(store[j]).order = store[j].order
        BY <2>1, <3>1, ConfirmationAssumption DEF Filled, Pending
      <3>3. QED
        BY <1>6, <2>s, <2>1, <3>2, TakeStep DEF SlotReply
    <2>2. ASSUME NEW j \in Found(turn[s].session),
                 Take(s, j, "confirmed", [store[j] EXCEPT !.app = FALSE])
          PROVE  SafeInv'
      <3>1. store[j] \in Pending
        BY <2>s, FoundPending DEF TypeInv
      <3> DEFINE p == [store[j] EXCEPT !.app = FALSE]
      <3>2. p \in Pending /\ p.order = store[j].order
        BY <3>1 DEF Pending
      <3>3. Take(s, j, "confirmed", p)
        BY <2>2
      <3> HIDE DEF p
      <3>4. QED
        BY <1>6, <2>s, <3>2, <3>3, TakeStep DEF SlotReply
    <2>3. ASSUME NEW pc \in {"confirm", "plan"}, Pass(s, pc)
          PROVE  SafeInv'
      BY <1>6, <2>s, <2>3, PassStep DEF SlotReply
    <2>4. QED
      BY <1>6, <2>1, <2>2, <2>3 DEF SlotReply
  <1>7. ASSUME NEW s \in Slot, Confirm(s)
        PROVE  SafeInv'
    <2>1. ASSUME NEW j \in Found(turn[s].session), Take(s, j, "confirmed", store[j])
          PROVE  SafeInv'
      <3>1. turn[s].session \in Session /\ turn[s].pc \in Reading /\ turn[s].stale = {}
        BY <1>7 DEF Confirm, Ready, Reading, TypeInv, HeldInv, InHand
      <3>2. store[j] \in Pending
        BY <3>1, FoundPending DEF TypeInv
      <3>3. QED
        BY <1>7, <2>1, <3>1, <3>2, TakeStep DEF Confirm
    <2>2. ASSUME Pass(s, "idle")
          PROVE  SafeInv'
      BY <1>7, <2>2, PassStep DEF Confirm, Ready, Reading
    <2>3. QED
      BY <1>7, <2>1, <2>2 DEF Confirm
  <1>8. ASSUME NEW s \in Slot, Plan(s)
        PROVE  SafeInv'
    <2>s. turn[s].pc = "plan" /\ turn[s].stale = {} /\ turn[s] \in Turn
      BY <1>8 DEF Plan, Ready, TypeInv, TypeOK
    <2>1. CASE Close(s) /\ UNCHANGED planned
      BY <1>8, <1>c, <2>s, <2>1 DEF Plan
    <2>2. ASSUME NEW o \in Order \ planned, NEW app \in BOOLEAN, NEW gap \in 0..Gaps,
                 planned' = planned \cup {o},
                 turn' = [turn EXCEPT
                   ![s].pc = "ask", ![s].of = turn[s].session,
                   ![s].held = [order |-> o, app |-> app, gap |-> gap, expires |-> clock]]
          PROVE  SafeInv'
      <3> DEFINE p == [order |-> o, app |-> app, gap |-> gap, expires |-> clock]
                 t == [turn[s] EXCEPT !.pc = "ask", !.of = turn[s].session, !.held = p]
      <3>1. p \in Pending /\ p.order = o
        BY ConfirmationAssumption DEF Pending, TypeInv, TypeOK
      <3>2. turn' = [turn EXCEPT ![s] = t]
        BY <2>2
      <3>3. t.pc = "ask" /\ t.held = p /\ t.stale = {} /\ t.closed = turn[s].closed
        BY <2>s DEF Turn
      <3> HIDE DEF p, t
      <3>4. clock' = clock /\ store' = store /\ UNCHANGED history
        BY <1>8 DEF Plan
      <3>5. QED
        BY <2>s, <2>2, <3>1, <3>2, <3>3, <3>4, PlanStep
    <2>3. CASE turn' = [turn EXCEPT ![s].pc = "run"] /\ UNCHANGED planned
      BY <1>8, <2>s, <2>3, GoStep DEF Plan
    <2>4. QED
      BY <1>8, <2>1, <2>2, <2>3 DEF Plan
  <1>9. ASSUME NEW s \in Slot, Truncate(s)
        PROVE  SafeInv'
    BY <1>9, TruncateStep
  <1>10. ASSUME NEW s \in Slot, Write(s)
         PROVE  SafeInv'
    BY <1>10, WriteStep
  <1>11. ASSUME NEW s \in Slot, Dispatch(s)
         PROVE  SafeInv'
    <2>1. CASE Close(s)
      BY <1>11, <1>c, <2>1 DEF Dispatch, Ready
    <2>2. ASSUME NEW pc \in {"clear", "run"}, turn' = [turn EXCEPT ![s].pc = pc]
          PROVE  SafeInv'
      BY <1>11, <2>2, GoStep DEF Dispatch, Ready
    <2>3. QED
      BY <1>11, <2>1, <2>2 DEF Dispatch
  <1>12. ASSUME NEW s \in Slot, Succeed(s)
         PROVE  SafeInv'
    <2>1. CASE Close(s)
      BY <1>12, <1>c, <2>1 DEF Succeed, Ready
    <2>2. CASE turn' = [turn EXCEPT ![s].pc = "clear"]
      BY <1>12, <2>2, GoStep DEF Succeed, Ready
    <2>3. QED
      BY <1>12, <2>1, <2>2 DEF Succeed
  <1>13. ASSUME NEW s \in Slot, Fail(s)
         PROVE  SafeInv'
    BY <1>13, <1>c DEF Fail, Ready
  <1>14. CASE Tick
    BY <1>14, TickStep
  <1>15. CASE Crash
    BY <1>15, CrashStep
  <1>16. CASE UNCHANGED vars
    <2> USE <1>16 DEF vars
    <2>1. OrderInv'
      BY DEF SafeInv, OrderInv, RecordInv, FileInv, HolderInv, FreshInv, PlannedInv, Fresh
    <2>2. \A l \in Session : Open(l)' = Open(l)
      BY DEF Open
    <2>3. WaitInv'
      BY <2>2 DEF SafeInv, WaitInv, Kept, WriterInv, Writing
    <2>4. AnswerInv'
      BY DEF SafeInv, AnswerInv, AnsweredFile, AnsweredHeld, AnswersOpenQuestion, Answering
    <2>5. QED
      BY <2>1, <2>3, <2>4 DEF SafeInv
  <1>17. QED
    BY <1>1, <1>2, <1>3, <1>4, <1>5, <1>6, <1>7, <1>8, <1>9, <1>10, <1>11,
       <1>12, <1>13, <1>14, <1>15, <1>16 DEF Next, Step

LEMMA SafeAlways == Spec => [](TypeInv /\ SafeInv)
  <1>1. Init => TypeInv /\ SafeInv
    BY TypeInit, SafeInit
  <1>2. (TypeInv /\ SafeInv) /\ [Next]_vars => (TypeInv /\ SafeInv)'
    BY TypeStep, SafeStep
  <1>3. QED
    BY <1>1, <1>2, PTL DEF Spec

(* A question that was put to the user stays in its session's file, whatever  *)
(* failed runs, crashes, cancelled turns and the replies of other sessions    *)
(* do, until it was answered, has lapsed or was replaced.  The exception is   *)
(* a question that was erased: by the clear or the late removal of a turn     *)
(* with another question, or by two turns that wrote the file at once.        *)
THEOREM QuestionsAreKept == Spec => []QuestionKept
  <1>1. SafeInv => QuestionKept
    BY DEF SafeInv, WaitInv, Kept, QuestionKept
  <1>2. QED
    BY <1>1, SafeAlways, PTL

(* A reply given while a question is open in its own session is never taken   *)
(* as the answer to another one, not to one of another session either.  A     *)
(* question that was erased, or cut off by a crash, is not open any more.     *)
THEOREM RepliesAnswerOpenQuestion == Spec => []AnswersOpenQuestion
  <1>1. SafeInv => AnswersOpenQuestion
    BY DEF SafeInv, AnswerInv
  <1>2. QED
    BY <1>1, SafeAlways, PTL

(* A later reply does not take up an order whose question was removed after   *)
(* it had been run and verified, refused or cancelled, unless another turn    *)
(* has saved the question again.  A run whose question was not removed, since *)
(* it was not verified or its turn did not get that far, does not count.      *)
THEOREM AnsweredOrdersStayAnswered == Spec => []AnsweredOnce
  <1>1. SafeInv => AnsweredOnce
    BY DEF SafeInv, AnswerInv, AnsweredHeld, AnsweredOnce, Answering
  <1>2. QED
    BY <1>1, SafeAlways, PTL
=============================================================================
