------------------------ MODULE OmniMailbox_proofs ------------------------
(***************************************************************************)
(* Proofs about OmniBus and OmniMailbox: types, that a process runs a row  *)
(* at most once and the rows of a session in order, that a claimed row is  *)
(* held, and that messages are neither marked without an answer nor        *)
(* forgotten by the daemon.                                                *)
(***************************************************************************)
EXTENDS OmniMailbox, SequenceTheorems, TLAPS

(* What a process knows of rows are rows of the table. *)
InTable ==
  /\ \A p \in Process : selected[p] # NoRow => selected[p] \in DOMAIN rows
  /\ \A p \in Process, k \in Key : actor[p][k].row # NoRow => actor[p][k].row \in DOMAIN rows
  /\ \A p \in Process, k \in Key : \A i \in DOMAIN actor[p][k].inbox :
       actor[p][k].inbox[i] \in DOMAIN rows
  /\ \A p \in Process, r \in Row : starts[p][r] > 0 => r \in DOMAIN rows
  /\ \A p \in Process, k \in Key : actor[p][k].ended => actor[p][k].row # NoRow

TableInv == TypeOK /\ InTable

ActorsType == [Process -> [Key -> ActorType]]

(* All actors but one are as before. *)
Others(p, k) ==
  \A q \in Process, l \in Key : q # p \/ l # k => actor'[q][l] = actor[q][l]

-----------------------------------------------------------------------------
LEMMA RowsInRange ==
  ASSUME BusTypeOK
  PROVE  /\ Len(rows) \in Nat /\ Len(rows) <= MaxRows
         /\ DOMAIN rows = 1..Len(rows)
         /\ DOMAIN rows \subseteq Row
         /\ \A r \in DOMAIN rows : rows[r] \in RowType
         /\ MaxRows \in Nat
<1>1. rows \in Seq(RowType) /\ Len(rows) <= MaxRows /\ MaxRows \in Nat
  BY BusBoundAssumption DEF BusTypeOK
<1>2. Len(rows) \in Nat /\ DOMAIN rows = 1..Len(rows)
  BY <1>1
<1>3. \A r \in DOMAIN rows : rows[r] \in RowType
  BY <1>1, <1>2
<1> QED
  BY <1>1, <1>2, <1>3 DEF Row

(* A row that is appended leaves the others as they are. *)
LEMMA Appended ==
  ASSUME BusTypeOK, NEW s \in Session \cup {NoSession}, NEW A \in SUBSET Message, Persist(s, A)
  PROVE  /\ rows' \in Seq(RowType) /\ Len(rows') <= MaxRows
         /\ DOMAIN rows' = DOMAIN rows \cup {Len(rows) + 1}
         /\ Len(rows) + 1 \in Row /\ Len(rows) + 1 \notin DOMAIN rows
         /\ \A r \in DOMAIN rows : rows'[r] = rows[r] /\ r < Len(rows) + 1
         /\ rows'[Len(rows) + 1] = [session |-> s, about |-> A, status |-> "pending"]
<1> DEFINE new == [session |-> s, about |-> A, status |-> "pending"]
<1>1. rows \in Seq(RowType) /\ Len(rows) \in Nat /\ MaxRows \in Nat /\ DOMAIN rows = 1..Len(rows)
  BY RowsInRange DEF BusTypeOK
<1>2. new \in RowType
  BY DEF RowType
<1>3. Len(rows) < MaxRows /\ rows' = Append(rows, new)
  BY DEF Persist
<1>4. /\ rows' \in Seq(RowType) /\ Len(rows') = Len(rows) + 1
      /\ rows'[Len(rows) + 1] = new
      /\ \A r \in 1..Len(rows) : rows'[r] = rows[r]
  BY <1>1, <1>2, <1>3, AppendProperties
<1>5. DOMAIN rows' = 1..Len(rows) + 1
  BY <1>4
<1> QED
  BY <1>1, <1>3, <1>4, <1>5 DEF Row

(* Neither does a row whose status changes. *)
LEMMA Marked ==
  ASSUME BusTypeOK, NEW r \in DOMAIN rows, NEW st \in {"pending", "processing", "done"},
         rows' = [rows EXCEPT ![r].status = st]
  PROVE  /\ rows' \in Seq(RowType) /\ Len(rows') = Len(rows)
         /\ DOMAIN rows' = DOMAIN rows
         /\ \A q \in DOMAIN rows : q # r => rows'[q] = rows[q]
         /\ \A q \in DOMAIN rows : rows'[q].session = rows[q].session /\ rows'[q].about = rows[q].about
         /\ rows'[r].status = st
<1> DEFINE new == [rows[r] EXCEPT !.status = st]
<1>1. rows \in Seq(RowType) /\ Len(rows) \in Nat /\ DOMAIN rows = 1..Len(rows) /\ rows[r] \in RowType
  BY RowsInRange DEF BusTypeOK
<1>2. new \in RowType /\ new.status = st /\ new.session = rows[r].session /\ new.about = rows[r].about
  BY <1>1 DEF RowType
<1>3. rows' = [rows EXCEPT ![r] = new]
  OBVIOUS
<1> HIDE DEF new
<1>4. rows' \in Seq(RowType) /\ Len(rows') = Len(rows) /\ DOMAIN rows' = DOMAIN rows
  BY <1>1, <1>2, <1>3, ExceptSeq
<1>5. rows'[r] = new /\ \A q \in DOMAIN rows : q # r => rows'[q] = rows[q]
  BY <1>1, <1>3
<1> QED
  BY <1>2, <1>4, <1>5

LEMMA Replaced ==
  ASSUME BusTypeOK, NEW p \in Process, NEW k \in Key, NEW a \in ActorType,
         actor' = [actor EXCEPT ![p][k] = a]
  PROVE  actor' \in ActorsType /\ actor'[p][k] = a /\ Others(p, k)
BY DEF BusTypeOK, ActorsType, Others

(* What the steps of an actor change. *)
LEMMA SubmitEffect ==
  ASSUME BusTypeOK, NEW p \in Process, NEW r \in Row, Lane(r) \in Key, Submit(p, r)
  PROVE  /\ actor' \in ActorsType /\ Others(p, Lane(r))
         /\ actor'[p][Lane(r)].state =
              IF actor[p][Lane(r)].state = "none" THEN "alive" ELSE actor[p][Lane(r)].state
         /\ actor'[p][Lane(r)].inbox = Append(actor[p][Lane(r)].inbox, r)
         /\ actor'[p][Lane(r)].row = actor[p][Lane(r)].row
         /\ actor'[p][Lane(r)].ended = actor[p][Lane(r)].ended
<1> DEFINE k == Lane(r)
           old == actor[p][k]
           st == IF old.state = "none" THEN "alive" ELSE old.state
           ib == Append(old.inbox, r)
           new == [old EXCEPT !.state = st, !.inbox = ib]
<1>1. k \in Key /\ old \in ActorType
  BY DEF BusTypeOK
<1>2. actor' = [actor EXCEPT ![p][k] = new]
  BY DEF Submit
<1> HIDE DEF k, old
<1>3. st \in {"none", "alive", "ending", "reaped"} /\ ib \in Seq(Row)
  BY <1>1 DEF ActorType
<1>4. /\ new \in ActorType
      /\ new.state = st /\ new.inbox = ib
      /\ new.row = old.row /\ new.ended = old.ended
  <2> HIDE DEF st, ib
  <2> QED
    BY <1>1, <1>3 DEF ActorType
<1>5. actor' \in ActorsType /\ actor'[p][k] = new /\ Others(p, k)
  <2> HIDE DEF new
  <2> QED
    BY <1>1, <1>2, <1>4, Replaced
<1> HIDE DEF new
<1> QED
  BY <1>4, <1>5 DEF k, old

LEMMA StartEffect ==
  ASSUME BusTypeOK, NEW p \in Process, NEW k \in Key, Start(p, k)
  PROVE  LET a == actor[p][k] b == actor'[p][k] h == Head(actor[p][k].inbox) IN
         /\ actor' \in ActorsType /\ Others(p, k)
         /\ a.inbox \in Seq(Row) /\ a.inbox # <<>> /\ h \in Row /\ h = a.inbox[1]
         /\ a.state = "alive" /\ a.row = NoRow
         /\ b.state = "alive" /\ b.row = h /\ b.inbox = Tail(a.inbox) /\ b.ended = a.ended
<1> DEFINE a == actor[p][k]
           new == [a EXCEPT !.row = Head(a.inbox), !.inbox = Tail(a.inbox)]
<1>1. a \in ActorType /\ a.state = "alive" /\ a.row = NoRow /\ a.inbox # <<>>
  BY DEF BusTypeOK, Start
<1>2. /\ new \in ActorType
      /\ new.state = "alive" /\ new.row = Head(a.inbox)
      /\ new.inbox = Tail(a.inbox) /\ new.ended = a.ended
      /\ a.inbox \in Seq(Row) /\ Head(a.inbox) \in Row /\ Head(a.inbox) = a.inbox[1]
  <2> HIDE DEF a
  <2>1. a.inbox \in Seq(Row) /\ Head(a.inbox) \in Row /\ Tail(a.inbox) \in Seq(Row)
        /\ Head(a.inbox) = a.inbox[1]
    BY <1>1 DEF ActorType
  <2> DEFINE h == Head(a.inbox)
             t == Tail(a.inbox)
  <2>2. h \in Row /\ t \in Seq(Row)
    BY <2>1
  <2> HIDE DEF h, t
  <2>3. LET b == [a EXCEPT !.row = h, !.inbox = t] IN
        b \in ActorType /\ b.state = "alive" /\ b.row = h /\ b.inbox = t /\ b.ended = a.ended
    BY <1>1, <2>2 DEF ActorType
  <2> QED
    BY <2>1, <2>3 DEF h, t
<1>3. actor' = [actor EXCEPT ![p][k] = new]
  BY DEF Start
<1>4. actor' \in ActorsType /\ actor'[p][k] = new /\ Others(p, k)
  <2> HIDE DEF new
  <2> QED
    BY <1>2, <1>3, Replaced
<1> QED
  BY <1>1, <1>2, <1>4

LEMMA FinishEffect ==
  ASSUME BusTypeOK, NEW p \in Process, NEW k \in Key, Finish(p, k)
  PROVE  LET a == actor[p][k] b == actor'[p][k] IN
         /\ actor' \in ActorsType /\ Others(p, k)
         /\ a.row # NoRow /\ ~a.ended
         /\ b.state = a.state /\ b.inbox = a.inbox /\ b.row = a.row /\ b.ended = TRUE
<1> DEFINE a == actor[p][k]
           new == [a EXCEPT !.ended = TRUE]
<1>1. a \in ActorType /\ a.row # NoRow /\ ~a.ended
  BY DEF BusTypeOK, Finish
<1>2. new \in ActorType /\ new.state = a.state /\ new.inbox = a.inbox /\ new.row = a.row /\ new.ended = TRUE
  <2> HIDE DEF a
  <2> QED
    BY <1>1 DEF ActorType
<1>3. actor' = [actor EXCEPT ![p][k] = new]
  BY DEF Finish
<1>4. actor' \in ActorsType /\ actor'[p][k] = new /\ Others(p, k)
  <2> HIDE DEF new
  <2> QED
    BY <1>2, <1>3, Replaced
<1> QED
  BY <1>1, <1>2, <1>4

LEMMA PublishEffect ==
  ASSUME BusTypeOK, NEW p \in Process, NEW k \in Key, Publish(p, k)
  PROVE  LET a == actor[p][k] b == actor'[p][k] IN
         /\ actor' \in ActorsType /\ Others(p, k)
         /\ a.ended
         /\ b.state = a.state /\ b.inbox = a.inbox /\ b.row = NoRow /\ b.ended = FALSE
<1> DEFINE a == actor[p][k]
           new == [a EXCEPT !.row = NoRow, !.ended = FALSE]
<1>1. a \in ActorType /\ a.ended
  BY DEF BusTypeOK, Publish
<1>2. new \in ActorType /\ new.state = a.state /\ new.inbox = a.inbox /\ new.row = NoRow /\ new.ended = FALSE
  <2> HIDE DEF a
  <2> QED
    BY <1>1 DEF ActorType
<1>3. actor' = [actor EXCEPT ![p][k] = new]
  BY DEF Publish
<1>4. actor' \in ActorsType /\ actor'[p][k] = new /\ Others(p, k)
  <2> HIDE DEF new
  <2> QED
    BY <1>2, <1>3, Replaced
<1> QED
  BY <1>1, <1>2, <1>4

(* The idle timer of an actor, and what follows.                           *)
TimeOut(p, s) == IdleTimeout(p, s) \/ Reap(p, s)

LEMMA TimeOutEffect ==
  ASSUME BusTypeOK, NEW p \in Process, NEW s \in Session, TimeOut(p, s)
  PROVE  LET a == actor[p][s] b == actor'[p][s] IN
         /\ actor' \in ActorsType /\ Others(p, s) /\ s \in Key
         /\ a.state = "alive" => a.inbox = <<>>
         /\ b.inbox = a.inbox /\ b.row = a.row /\ b.ended = a.ended
<1>1. PICK st \in {"ending", "reaped"} :
        /\ actor' = [actor EXCEPT ![p][s].state = st]
        /\ actor[p][s].state = "alive" => actor[p][s].inbox = <<>>
  BY DEF TimeOut, IdleTimeout, Reap
<1> DEFINE a == actor[p][s]
           new == [a EXCEPT !.state = st]
<1>2. s \in Key /\ a \in ActorType
  BY DEF BusTypeOK, Key
<1>3. /\ new \in ActorType
      /\ new.inbox = a.inbox /\ new.row = a.row /\ new.ended = a.ended
  <2> HIDE DEF a
  <2> QED
    BY <1>2 DEF ActorType
<1>4. actor' = [actor EXCEPT ![p][s] = new]
  BY <1>1
<1>5. actor' \in ActorsType /\ actor'[p][s] = new /\ Others(p, s)
  <2> HIDE DEF new
  <2> QED
    BY <1>2, <1>3, <1>4, Replaced
<1> QED
  BY <1>1, <1>2, <1>3, <1>5

LEMMA EndEffect ==
  ASSUME BusTypeOK, NEW p \in Process, End(p)
  PROVE  /\ actor' \in ActorsType
         /\ \A k \in Key : actor'[p][k] = NoActor
         /\ \A q \in Process : q # p => actor'[q] = actor[q]
<1>1. NoActor \in ActorType
  BY DEF NoActor, ActorType, NoRow
<1> QED
  BY <1>1 DEF BusTypeOK, End, ActorsType

-----------------------------------------------------------------------------
LEMMA LaneIsKey ==
  ASSUME BusTypeOK, NEW r \in DOMAIN rows
  PROVE  Lane(r) \in Key
BY RowsInRange DEF Lane, Key, RowType

LEMMA TableInit == Init => TableInv
<1> SUFFICES ASSUME Init PROVE TableInv
  OBVIOUS
<1>1. NoActor \in ActorType /\ NoActor.row = NoRow /\ NoActor.inbox = <<>> /\ ~NoActor.ended
  BY DEF NoActor, ActorType, NoRow
<1>2. BusTypeOK
  BY <1>1, BusBoundAssumption DEF Init, BusInit, BusTypeOK
<1>3. TypeOK
  BY <1>2, MailboxAssumption DEF Init, TypeOK
<1>4. InTable
  BY <1>1 DEF Init, BusInit, InTable
<1> QED
  BY <1>3, <1>4 DEF TableInv

(* What the steps of a dispatcher and of an actor keep. *)
LEMMA ClaimTable ==
  ASSUME TableInv, NEW p \in Process, Claim(p)
  PROVE  BusTypeOK' /\ InTable'
<1> DEFINE r == selected[p]
           st == IF rows[r].status = "pending" THEN "processing" ELSE rows[r].status
<1>1. BusTypeOK /\ r \in DOMAIN rows /\ r \in Row /\ rows[r] \in RowType /\ Lane(r) \in Key
  BY RowsInRange, LaneIsKey DEF TableInv, TypeOK, InTable, Claim
<1>2. st \in {"pending", "processing", "done"}
  BY <1>1 DEF RowType
<1>3. rows' = [rows EXCEPT ![r].status = st] /\ Submit(p, r)
      /\ selected' = [selected EXCEPT ![p] = NoRow]
      /\ UNCHANGED <<up, faults, starts>>
  BY DEF Claim
<1>4. rows' \in Seq(RowType) /\ Len(rows') = Len(rows) /\ DOMAIN rows' = DOMAIN rows
  <2> HIDE DEF st
  <2> QED
    BY <1>1, <1>2, <1>3, Marked
<1>5. /\ actor' \in ActorsType /\ Others(p, Lane(r))
      /\ actor'[p][Lane(r)].inbox = Append(actor[p][Lane(r)].inbox, r)
      /\ actor'[p][Lane(r)].row = actor[p][Lane(r)].row
      /\ actor'[p][Lane(r)].ended = actor[p][Lane(r)].ended
  BY <1>1, <1>3, SubmitEffect
<1>6. dropped' \in SUBSET Row
  BY <1>1, <1>3 DEF Submit, BusTypeOK
<1>7. BusTypeOK'
  BY <1>1, <1>3, <1>4, <1>5, <1>6 DEF BusTypeOK, ActorsType
<1>8. InTable
  BY DEF TableInv
<1>9. actor[p][Lane(r)].inbox \in Seq(Row)
  BY <1>1 DEF BusTypeOK, ActorType
<1> HIDE DEF r
<1>10. \A i \in DOMAIN actor'[p][Lane(r)].inbox : actor'[p][Lane(r)].inbox[i] \in DOMAIN rows
  <2> DEFINE q == actor[p][Lane(r)].inbox
  <2>1. \A i \in DOMAIN q : q[i] \in DOMAIN rows
    BY <1>1, <1>8 DEF InTable
  <2>2. q \in Seq(Row) /\ actor'[p][Lane(r)].inbox = Append(q, r)
    BY <1>5, <1>9
  <2> HIDE DEF q
  <2>3. \A i \in 1..Len(q) + 1 : Append(q, r)[i] \in DOMAIN rows
    BY <1>1, <2>1, <2>2
  <2>4. DOMAIN Append(q, r) = 1..Len(q) + 1
    BY <1>1, <2>2
  <2> QED
    BY <2>2, <2>3, <2>4
<1>11. \A q \in Process, k \in Key : \A i \in DOMAIN actor'[q][k].inbox :
         actor'[q][k].inbox[i] \in DOMAIN rows
  <2> SUFFICES ASSUME NEW q \in Process, NEW k \in Key, NEW i \in DOMAIN actor'[q][k].inbox
               PROVE  actor'[q][k].inbox[i] \in DOMAIN rows
    OBVIOUS
  <2>1. CASE q = p /\ k = Lane(r)
    BY <1>10, <2>1
  <2>2. CASE q # p \/ k # Lane(r)
    <3>1. actor'[q][k] = actor[q][k]
      BY <1>5, <2>2 DEF Others
    <3> QED
      BY <1>8, <3>1 DEF InTable
  <2> QED
    BY <2>1, <2>2
<1>12. \A q \in Process, k \in Key :
         /\ actor'[q][k].row # NoRow => actor'[q][k].row \in DOMAIN rows
         /\ actor'[q][k].ended => actor'[q][k].row # NoRow
  BY <1>1, <1>5, <1>8 DEF InTable, Others
<1>13. \A q \in Process : selected'[q] # NoRow => selected'[q] \in DOMAIN rows
  BY <1>1, <1>3, <1>8 DEF InTable, BusTypeOK
<1> QED
  BY <1>3, <1>4, <1>7, <1>8, <1>11, <1>12, <1>13 DEF InTable

LEMMA StartTable ==
  ASSUME TableInv, NEW p \in Process, NEW k \in Key, Start(p, k)
  PROVE  BusTypeOK' /\ InTable'
<1> DEFINE a == actor[p][k]
           b == actor'[p][k]
           h == Head(a.inbox)
<1>1. BusTypeOK /\ InTable
  BY DEF TableInv, TypeOK
<1>2. /\ actor' \in ActorsType /\ Others(p, k)
      /\ a.inbox \in Seq(Row) /\ a.inbox # <<>> /\ h \in Row /\ h = a.inbox[1]
      /\ a.row = NoRow /\ b.row = h /\ b.inbox = Tail(a.inbox) /\ b.ended = a.ended
  BY <1>1, StartEffect
<1>3. UNCHANGED <<rows, up, selected, faults, dropped>>
      /\ starts' = [starts EXCEPT ![p][h] = @ + 1]
  BY DEF Start
<1>4. starts' \in [Process -> [Row -> Nat]]
  <2> HIDE DEF h
  <2> QED
    BY <1>1, <1>2, <1>3 DEF BusTypeOK
<1>5. BusTypeOK'
  BY <1>1, <1>2, <1>3, <1>4 DEF BusTypeOK, ActorsType
<1>6. \A i \in DOMAIN a.inbox : a.inbox[i] \in DOMAIN rows
  BY <1>1 DEF InTable
<1>7. h \in DOMAIN rows /\ \A i \in DOMAIN b.inbox : b.inbox[i] \in DOMAIN rows
  <2> DEFINE q == a.inbox
  <2>1. q \in Seq(Row) /\ q # <<>> /\ h = q[1] /\ b.inbox = Tail(q)
        /\ \A i \in DOMAIN q : q[i] \in DOMAIN rows
    BY <1>2, <1>6
  <2> HIDE DEF q, h, b
  <2>2. /\ 1 \in DOMAIN q
        /\ DOMAIN Tail(q) = 1..Len(q) - 1
        /\ \A i \in 1..Len(q) - 1 : Tail(q)[i] = q[i + 1] /\ i + 1 \in DOMAIN q
    BY <2>1
  <2> QED
    BY <2>1, <2>2
<1> HIDE DEF h
<1>8. \A q \in Process, r \in Row : starts'[q][r] > 0 => r \in DOMAIN rows
  BY <1>1, <1>2, <1>3, <1>7 DEF InTable, BusTypeOK
<1>9. \A q \in Process, l \in Key :
        /\ actor'[q][l].row # NoRow => actor'[q][l].row \in DOMAIN rows
        /\ \A i \in DOMAIN actor'[q][l].inbox : actor'[q][l].inbox[i] \in DOMAIN rows
        /\ actor'[q][l].ended => actor'[q][l].row # NoRow
  <2> SUFFICES ASSUME NEW q \in Process, NEW l \in Key
               PROVE  /\ actor'[q][l].row # NoRow => actor'[q][l].row \in DOMAIN rows
                      /\ \A i \in DOMAIN actor'[q][l].inbox : actor'[q][l].inbox[i] \in DOMAIN rows
                      /\ actor'[q][l].ended => actor'[q][l].row # NoRow
    OBVIOUS
  <2>1. CASE q = p /\ l = k
    BY <1>1, <1>2, <1>7, <2>1 DEF InTable
  <2>2. CASE q # p \/ l # k
    <3>1. actor'[q][l] = actor[q][l]
      BY <1>2, <2>2 DEF Others
    <3> QED
      BY <1>1, <3>1 DEF InTable
  <2> QED
    BY <2>1, <2>2
<1> QED
  BY <1>1, <1>3, <1>5, <1>8, <1>9 DEF InTable

LEMMA FinishTable ==
  ASSUME TableInv, NEW p \in Process, NEW k \in Key, Finish(p, k)
  PROVE  BusTypeOK' /\ InTable'
<1> DEFINE a == actor[p][k]
           b == actor'[p][k]
           r == a.row
<1>1. BusTypeOK /\ InTable
  BY DEF TableInv, TypeOK
<1>2. /\ actor' \in ActorsType /\ Others(p, k)
      /\ r # NoRow /\ b.inbox = a.inbox /\ b.row = r
  BY <1>1, FinishEffect
<1>3. r \in DOMAIN rows /\ r \in Row
  BY <1>1, <1>2, RowsInRange DEF InTable
<1>4. /\ rows' \in Seq(RowType) /\ Len(rows') = Len(rows) /\ DOMAIN rows' = DOMAIN rows
      /\ faults' \in 0..MaxFaults /\ dropped' \in SUBSET Row
  <2>1. CASE rows' = [rows EXCEPT ![r].status = "done"] /\ UNCHANGED <<faults, dropped>>
    BY <1>1, <1>3, <2>1, Marked DEF BusTypeOK
  <2>2. CASE Fault /\ dropped' = dropped \cup {r} /\ UNCHANGED rows
    BY <1>1, <1>3, <2>2, BusBoundAssumption DEF BusTypeOK, Fault
  <2> QED
    BY <2>1, <2>2 DEF Finish
<1>5. UNCHANGED <<up, selected, starts>>
  BY DEF Finish
<1>6. BusTypeOK'
  BY <1>1, <1>2, <1>4, <1>5 DEF BusTypeOK, ActorsType
<1>7. \A q \in Process, l \in Key :
        /\ actor'[q][l].inbox = actor[q][l].inbox /\ actor'[q][l].row = actor[q][l].row
        /\ actor'[q][l].ended => actor'[q][l].row # NoRow
  BY <1>1, <1>2 DEF InTable, Others
<1> QED
  BY <1>1, <1>4, <1>5, <1>6, <1>7 DEF InTable

LEMMA PublishTable ==
  ASSUME TableInv, NEW p \in Process, NEW k \in Key, Publish(p, k), faults' \in 0..MaxFaults
  PROVE  BusTypeOK' /\ InTable'
<1>1. BusTypeOK /\ InTable
  BY DEF TableInv, TypeOK
<1>2. /\ actor' \in ActorsType /\ Others(p, k)
      /\ actor'[p][k].inbox = actor[p][k].inbox /\ actor'[p][k].row = NoRow
      /\ ~actor'[p][k].ended
  BY <1>1, PublishEffect
<1>3. UNCHANGED <<rows, up, selected, starts, dropped>>
  BY DEF Publish
<1>4. BusTypeOK'
  BY <1>1, <1>2, <1>3 DEF BusTypeOK, ActorsType
<1>5. \A q \in Process, l \in Key :
        /\ actor'[q][l].inbox = actor[q][l].inbox
        /\ actor'[q][l].row = actor[q][l].row \/ actor'[q][l].row = NoRow
        /\ actor'[q][l].ended => actor'[q][l].row # NoRow
  BY <1>1, <1>2 DEF InTable, Others
<1> QED
  BY <1>1, <1>3, <1>4, <1>5 DEF InTable

LEMMA TimeOutTable ==
  ASSUME TableInv, NEW p \in Process, NEW s \in Session, TimeOut(p, s)
  PROVE  BusTypeOK' /\ InTable'
<1>1. BusTypeOK /\ InTable
  BY DEF TableInv, TypeOK
<1>2. /\ actor' \in ActorsType /\ Others(p, s)
      /\ actor'[p][s].inbox = actor[p][s].inbox /\ actor'[p][s].row = actor[p][s].row
      /\ actor'[p][s].ended = actor[p][s].ended /\ s \in Key
  BY <1>1, TimeOutEffect
<1>3. UNCHANGED <<rows, up, selected, faults, starts, dropped>>
  BY DEF TimeOut, IdleTimeout, Reap
<1>4. BusTypeOK'
  BY <1>1, <1>2, <1>3 DEF BusTypeOK, ActorsType
<1>5. \A q \in Process, l \in Key :
        /\ actor'[q][l].inbox = actor[q][l].inbox
        /\ actor'[q][l].row = actor[q][l].row \/ actor'[q][l].row = NoRow
        /\ actor'[q][l].ended => actor'[q][l].row # NoRow
  BY <1>1, <1>2 DEF InTable, Others
<1> QED
  BY <1>1, <1>3, <1>4, <1>5 DEF InTable

LEMMA EndTable ==
  ASSUME TableInv, NEW p \in Process, End(p)
  PROVE  BusTypeOK' /\ InTable'
<1>1. BusTypeOK /\ InTable
  BY DEF TableInv, TypeOK
<1>2. /\ actor' \in ActorsType
      /\ \A k \in Key : actor'[p][k] = NoActor
      /\ \A q \in Process : q # p => actor'[q] = actor[q]
  BY <1>1, EndEffect
<1>3. /\ faults' \in 0..MaxFaults /\ dropped' \in SUBSET Row
      /\ UNCHANGED <<rows, starts>> /\ up' = up \ {p}
      /\ selected' = [selected EXCEPT ![p] = NoRow]
  BY <1>1, BusBoundAssumption DEF End, Fault, Held, BusTypeOK
<1>4. BusTypeOK'
  BY <1>1, <1>2, <1>3 DEF BusTypeOK, ActorsType
<1>5. \A q \in Process, l \in Key :
        \/ actor'[q][l] = actor[q][l]
        \/ actor'[q][l].inbox = <<>> /\ actor'[q][l].row = NoRow /\ ~actor'[q][l].ended
  BY <1>2 DEF NoActor
<1>6. \A q \in Process : selected'[q] = selected[q] \/ selected'[q] = NoRow
  BY <1>1, <1>3 DEF BusTypeOK
<1> QED
  BY <1>1, <1>3, <1>4, <1>5, <1>6 DEF InTable

LEMMA PersistTable ==
  ASSUME TableInv, NEW s \in Session \cup {NoSession}, NEW A \in SUBSET Message, Persist(s, A),
         UNCHANGED <<up, selected, actor, faults, starts, dropped>>
  PROVE  BusTypeOK' /\ InTable'
<1>1. BusTypeOK /\ InTable
  BY DEF TableInv, TypeOK
<1>2. rows' \in Seq(RowType) /\ Len(rows') <= MaxRows /\ DOMAIN rows \subseteq DOMAIN rows'
  BY <1>1, Appended
<1>3. BusTypeOK'
  BY <1>1, <1>2 DEF BusTypeOK
<1> QED
  BY <1>1, <1>2, <1>3 DEF InTable

LEMMA TableStep == TableInv /\ [Next]_vars => TableInv'
<1> SUFFICES ASSUME TableInv, [Next]_vars PROVE TableInv'
  OBVIOUS
<1> USE DEF TableInv
<1>0. TypeOK /\ BusTypeOK /\ InTable
  BY DEF TypeOK
<1>1. ASSUME NEW m \in Message, Webhook(m) PROVE TableInv'
  BY <1>0, <1>1 DEF Webhook, TypeOK, BusTypeOK, InTable, bus
<1>2. ASSUME Heartbeat PROVE TableInv'
  <2>1. Offer \in SUBSET Message
    BY DEF Offer
  <2> QED
    BY <1>0, <1>2, <2>1 DEF Heartbeat, TypeOK, BusTypeOK, InTable, bus
<1>3. ASSUME HeartbeatFails PROVE TableInv'
  BY <1>0, <1>3, BusBoundAssumption DEF HeartbeatFails, Fault, TypeOK, BusTypeOK, InTable
<1>4. ASSUME Receive PROVE TableInv'
  <2>1. reply \in SUBSET Message /\ emitted \cup reply \in SUBSET Message
    BY <1>0 DEF TypeOK
  <2>2. \A S \in SUBSET Message : Remembered(S) \subseteq SUBSET Message
    BY DEF Remembered
  <2>3. emitted' \in SUBSET Message /\ lost' \in SUBSET Message
    <3>1. CASE UNCHANGED emitted
      BY <1>0, <1>4, <2>1, <3>1 DEF Receive, TypeOK
    <3>2. CASE emitted' \in Remembered(emitted \cup reply)
      BY <1>0, <1>4, <2>1, <2>2, <3>2 DEF Receive, TypeOK
    <3> QED
      BY <1>4, <3>1, <3>2 DEF Receive
  <2>4. BusTypeOK' /\ InTable'
    <3>1. CASE UNCHANGED <<rows, faults>>
      BY <1>0, <1>4, <3>1 DEF Receive, BusTypeOK, InTable
    <3>2. CASE Persist(NoSession, reply) /\ UNCHANGED faults
      BY <1>4, <2>1, <3>2, PersistTable DEF Receive
    <3>3. CASE Fault /\ UNCHANGED rows
      BY <1>0, <1>4, <3>3, BusBoundAssumption DEF Receive, Fault, BusTypeOK, InTable
    <3> QED
      BY <1>4, <3>1, <3>2, <3>3 DEF Receive
  <2> QED
    BY <1>0, <1>4, <2>3, <2>4 DEF Receive, TypeOK
<1>5. ASSUME NEW s \in Session, OtherEvent(s) PROVE TableInv'
  <2>1. BusTypeOK' /\ InTable'
    BY <1>5, PersistTable DEF OtherEvent, Emit
  <2> QED
    BY <1>0, <1>5, <2>1, MailboxAssumption DEF OtherEvent, TypeOK
<1>6. ASSUME NEW p \in Process, Launch(p), UNCHANGED mailbox PROVE TableInv'
  BY <1>0, <1>6 DEF Launch, TypeOK, BusTypeOK, InTable, mailbox
<1>7. ASSUME NEW p \in Process, Select(p), UNCHANGED mailbox PROVE TableInv'
  <2>1. PICK r \in Row : Oldest(r) /\ selected' = [selected EXCEPT ![p] = r]
    BY <1>7 DEF Select
  <2>2. r \in DOMAIN rows
    BY <2>1 DEF Oldest, Pending
  <2> QED
    BY <1>0, <1>7, <2>1, <2>2 DEF Select, TypeOK, BusTypeOK, InTable, mailbox
<1>8. ASSUME NEW p \in Process, ClaimFails(p), UNCHANGED mailbox PROVE TableInv'
  BY <1>0, <1>8, BusBoundAssumption DEF ClaimFails, Fault, TypeOK, BusTypeOK, InTable, mailbox
<1>9. ASSUME NEW p \in Process, TakeRow(p) PROVE TableInv'
  <2>1. BusTypeOK' /\ InTable'
    BY <1>9, ClaimTable DEF TakeRow
  <2>2. About(selected[p]) \in SUBSET Message
    <3>1. selected[p] \in DOMAIN rows
      BY <1>0, <1>9 DEF TakeRow, Claim, InTable
    <3> QED
      BY <1>0, <3>1, RowsInRange DEF About, RowType
  <2>3. lost' \in SUBSET Message
    BY <1>0, <1>9, <2>2 DEF TakeRow, TypeOK
  <2> QED
    BY <1>0, <1>9, <2>1, <2>3 DEF TakeRow, TypeOK
<1>10. ASSUME NEW p \in Process, NEW s \in Session, TimeOut(p, s), UNCHANGED mailbox PROVE TableInv'
  <2>1. BusTypeOK' /\ InTable'
    BY <1>10, TimeOutTable
  <2> QED
    BY <1>0, <1>10, <2>1 DEF TypeOK, mailbox
<1>11. ASSUME NEW p \in Process, EndProcess(p) PROVE TableInv'
  <2>1. BusTypeOK' /\ InTable'
    BY <1>11, EndTable DEF EndProcess
  <2> QED
    BY <1>0, <1>11, <2>1 DEF EndProcess, TypeOK
<1>12. ASSUME NEW p \in Process, NEW k \in Key, StartAgent(p, k) PROVE TableInv'
  <2>1. BusTypeOK' /\ InTable'
    BY <1>12, StartTable DEF StartAgent
  <2> QED
    BY <1>0, <1>12, <2>1 DEF StartAgent, TypeOK, mailbox
<1>13. ASSUME NEW p \in Process, NEW k \in Key, EndAgent(p, k) PROVE TableInv'
  <2>1. BusTypeOK' /\ InTable'
    BY <1>13, FinishTable DEF EndAgent
  <2>2. About(actor[p][k].row) \in SUBSET Message
    <3>1. actor[p][k].row \in DOMAIN rows
      BY <1>0, <1>13, FinishEffect DEF EndAgent, InTable
    <3> QED
      BY <1>0, <3>1, RowsInRange DEF About, RowType
  <2> QED
    BY <1>0, <1>13, <2>1, <2>2 DEF EndAgent, TypeOK
<1>14. ASSUME NEW p \in Process, NEW k \in Key, Report(p, k) PROVE TableInv'
  <2> DEFINE S == About(actor[p][k].row)
  <2>1. S \in SUBSET Message
    <3>1. actor[p][k].row \in DOMAIN rows
      BY <1>0, <1>14, PublishEffect DEF Report, InTable
    <3> QED
      BY <1>0, <3>1, RowsInRange DEF About, RowType
  <2> HIDE DEF S
  <2>2. /\ faults' \in 0..MaxFaults
        /\ mail' \in [Message -> {"none", "pending", "processed"}]
        /\ lost' \in SUBSET Message
    <3>1. CASE mail' = [m \in Message |-> IF m \in S THEN "processed" ELSE mail[m]]
               /\ UNCHANGED <<faults, lost>>
      BY <1>0, <3>1 DEF TypeOK, BusTypeOK
    <3>2. CASE Fault /\ lost' = lost \cup S /\ UNCHANGED mail
      BY <1>0, <2>1, <3>2, BusBoundAssumption DEF Fault, TypeOK, BusTypeOK
    <3>3. CASE UNCHANGED <<mail, faults, lost>>
      BY <1>0, <3>3 DEF TypeOK, BusTypeOK
    <3> QED
      BY <1>14, <3>1, <3>2, <3>3 DEF Report, S
  <2>3. BusTypeOK' /\ InTable'
    BY <1>14, <2>2, PublishTable DEF Report
  <2> QED
    BY <1>0, <1>14, <2>2, <2>3 DEF Report, TypeOK
<1>15. ASSUME UNCHANGED vars PROVE TableInv'
  BY <1>0, <1>15 DEF vars, bus, mailbox, TypeOK, BusTypeOK, InTable
<1> QED
  BY <1>1, <1>2, <1>3, <1>4, <1>5, <1>6, <1>7, <1>8, <1>9, <1>10, <1>11, <1>12, <1>13, <1>14, <1>15
     DEF Next, TimeOut

(* The variables of OmniMailbox keep their types, for any processes,       *)
(* sessions, messages and limits, across crashes of every process.         *)
THEOREM MailboxTypes == Spec => []TypeOK
<1>1. Spec => []TableInv
  BY TableInit, TableStep, PTL DEF Spec
<1> QED
  BY <1>1, PTL DEF TableInv

-----------------------------------------------------------------------------
(* The rows a process has been given since the table began; those that     *)
(* waited when it ended are not among them.                                *)
Handed(p, q) == starts[p][q] > 0 \/ \E k \in Key : Waits(q, actor[p][k])

(* The lane of a row after a step. *)
NextLane(r) == IF rows'[r].session = NoSession THEN r ELSE rows'[r].session

(* An actor's rows: of its session, ascending, and later than all of its   *)
(* session that the process has started.                                   *)
Lined(p, k) ==
  LET inbox == actor[p][k].inbox IN
  /\ \A i \in DOMAIN inbox : Lane(inbox[i]) = k
  /\ \A i, j \in DOMAIN inbox : i < j => inbox[i] < inbox[j]
  /\ \A q \in Row, i \in DOMAIN inbox : starts[p][q] > 0 /\ Lane(q) = k => q < inbox[i]

PendingLater ==
  \A p \in Process, q \in Row, r \in DOMAIN rows :
    Handed(p, q) /\ rows[r].status = "pending" => q < r

SelectedBetween ==
  \A p \in Process : selected[p] # NoRow =>
    /\ \A q \in Row : Handed(p, q) => q < selected[p]
    /\ \A r \in DOMAIN rows : rows[r].status = "pending" => selected[p] <= r

Order ==
  /\ PendingLater
  /\ SelectedBetween
  /\ \A p \in Process, k \in Key : Lined(p, k)
  /\ AtMostOnce

OrderInv == TableInv /\ Order

LEMMA OrderInit == Init => Order
<1> SUFFICES ASSUME Init PROVE Order
  OBVIOUS
<1>1. /\ selected = [p \in Process |-> NoRow]
      /\ actor = [p \in Process |-> [k \in Key |-> NoActor]]
      /\ starts = [p \in Process |-> [r \in Row |-> 0]]
      /\ rows = <<>>
  BY DEF Init, BusInit
<1>2. \A p \in Process, k \in Key : actor[p][k].inbox = <<>>
  BY <1>1 DEF NoActor
<1>3. PendingLater /\ SelectedBetween
  BY <1>1 DEF PendingLater, SelectedBetween
<1>4. \A p \in Process, k \in Key : Lined(p, k)
  BY <1>2 DEF Lined
<1>5. AtMostOnce
  BY <1>1 DEF AtMostOnce
<1> QED
  BY <1>3, <1>4, <1>5 DEF Order

(* Most steps give no row to an actor. *)
Quiet ==
  /\ \A p \in Process, k \in Key :
       actor'[p][k].inbox = actor[p][k].inbox \/ actor'[p][k].inbox = <<>>
  /\ UNCHANGED starts
  /\ \A p \in Process : selected'[p] = selected[p] \/ selected'[p] = NoRow
  /\ DOMAIN rows' = DOMAIN rows
  /\ \A r \in DOMAIN rows :
       /\ rows'[r].session = rows[r].session
       /\ rows'[r].status = "pending" => rows[r].status = "pending"

LEMMA QuietOrder ==
  ASSUME OrderInv, Quiet
  PROVE  Order'
<1>1. InTable /\ Order
  BY DEF OrderInv, TableInv
<1>2. \A r \in DOMAIN rows : Lane(r)' = Lane(r)
  BY DEF Quiet, Lane
<1>3. \A p \in Process, q \in Row : Handed(p, q)' => Handed(p, q)
  <2> SUFFICES ASSUME NEW p \in Process, NEW q \in Row, Handed(p, q)' PROVE Handed(p, q)
    OBVIOUS
  <2>1. CASE starts'[p][q] > 0
    BY <2>1 DEF Handed, Quiet
  <2>2. CASE \E k \in Key : Waits(q, actor'[p][k])
    <3>1. PICK k \in Key : Waits(q, actor'[p][k])
      BY <2>2
    <3>2. Waits(q, actor[p][k])
      BY <3>1 DEF Waits, Quiet
    <3> QED
      BY <3>2 DEF Handed
  <2> QED
    BY <2>1, <2>2 DEF Handed
<1>4. PendingLater'
  BY <1>1, <1>3 DEF Order, PendingLater, Quiet
<1>5. SelectedBetween'
  BY <1>1, <1>3 DEF Order, SelectedBetween, Quiet
<1>6. ASSUME NEW p \in Process, NEW k \in Key PROVE Lined(p, k)'
  <2>1. CASE actor'[p][k].inbox = <<>>
    BY <2>1 DEF Lined
  <2>2. CASE actor'[p][k].inbox = actor[p][k].inbox
    <3>1. \A i \in DOMAIN actor[p][k].inbox : actor[p][k].inbox[i] \in DOMAIN rows
      BY <1>1 DEF InTable
    <3>2. \A q \in Row : starts'[p][q] > 0 => starts[p][q] > 0 /\ q \in DOMAIN rows
      BY <1>1 DEF InTable, Quiet
    <3>3. Lined(p, k)
      BY <1>1 DEF Order
    <3> QED
      BY <1>2, <2>2, <3>1, <3>2, <3>3 DEF Lined
  <2> QED
    BY <2>1, <2>2 DEF Quiet
<1>7. AtMostOnce'
  BY <1>1 DEF Order, AtMostOnce, Quiet
<1> QED
  BY <1>4, <1>5, <1>6, <1>7 DEF Order

LEMMA ClaimOrder ==
  ASSUME OrderInv, NEW p \in Process, Claim(p)
  PROVE  Order'
<1> DEFINE r == selected[p]
           k == Lane(r)
           st == IF rows[r].status = "pending" THEN "processing" ELSE rows[r].status
           old == actor[p][k].inbox
           new == actor'[p][k].inbox
<1>1. BusTypeOK /\ InTable /\ Order /\ r # NoRow
  BY DEF OrderInv, TableInv, TypeOK, Claim
<1>2. r \in DOMAIN rows /\ r \in Row /\ rows[r] \in RowType /\ k \in Key
  BY <1>1, RowsInRange, LaneIsKey DEF InTable
<1>3. /\ rows' = [rows EXCEPT ![r].status = st]
      /\ Submit(p, r) /\ selected' = [selected EXCEPT ![p] = NoRow]
      /\ UNCHANGED starts
      /\ st \in {"pending", "processing", "done"} /\ st # "pending"
  BY <1>2 DEF Claim, RowType
<1>4. /\ DOMAIN rows' = DOMAIN rows
      /\ \A q \in DOMAIN rows :
           /\ rows'[q].session = rows[q].session
           /\ rows'[q].status = "pending" => rows[q].status = "pending" /\ q # r
  <2> HIDE DEF st
  <2> QED
    BY <1>1, <1>2, <1>3, Marked
<1>5. Others(p, k) /\ new = Append(old, r)
  BY <1>1, <1>2, <1>3, SubmitEffect
<1>6. old \in Seq(Row)
  BY <1>1, <1>2 DEF BusTypeOK, ActorType
<1> HIDE DEF r, st, old, new, k
<1>7. /\ DOMAIN old = 1..Len(old) /\ DOMAIN new = 1..Len(old) + 1 /\ Len(old) \in Nat
      /\ \A i \in 1..Len(old) : new[i] = old[i]
      /\ new[Len(old) + 1] = r
  BY <1>2, <1>5, <1>6
<1>8. \A q \in DOMAIN rows : NextLane(q) = Lane(q)
  BY <1>4 DEF Lane, NextLane
<1>9. \A o \in Process, q \in Row : Handed(o, q)' => Handed(o, q) \/ (o = p /\ q = r)
  <2> SUFFICES ASSUME NEW o \in Process, NEW q \in Row, Handed(o, q)', o # p \/ q # r
               PROVE  Handed(o, q)
    OBVIOUS
  <2>1. CASE starts'[o][q] > 0
    BY <1>3, <2>1 DEF Handed
  <2>2. CASE \E l \in Key : Waits(q, actor'[o][l])
    <3>1. PICK l \in Key : Waits(q, actor'[o][l])
      BY <2>2
    <3>2. CASE o = p /\ l = k
      <4>1. PICK i \in DOMAIN new : new[i] = q
        BY <3>1, <3>2 DEF Waits, new
      <4>2. i \in DOMAIN old /\ old[i] = q
        BY <1>7, <3>2, <4>1
      <4>3. Waits(q, actor[p][k])
        BY <4>2 DEF Waits, old
      <4> QED
        BY <1>2, <3>2, <4>3 DEF Handed
    <3>3. CASE o # p \/ l # k
      BY <1>5, <3>1, <3>3 DEF Others, Handed
    <3> QED
      BY <3>2, <3>3
  <2> QED
    BY <2>1, <2>2 DEF Handed
<1>10. PendingLater'
  <2> SUFFICES ASSUME NEW o \in Process, NEW q \in Row, NEW t \in DOMAIN rows,
                      Handed(o, q)', rows'[t].status = "pending"
               PROVE  q < t
    BY <1>4 DEF PendingLater
  <2>1. rows[t].status = "pending" /\ t # r
    BY <1>4
  <2>2. CASE Handed(o, q)
    BY <1>1, <2>1, <2>2 DEF Order, PendingLater
  <2>3. CASE q = r
    <3>1. r <= t
      BY <1>1, <2>1 DEF Order, SelectedBetween, r
    <3>2. r \in Nat /\ t \in Nat
      BY <1>1, <1>2, RowsInRange
    <3> QED
      BY <2>1, <2>3, <3>1, <3>2
  <2> QED
    BY <1>9, <2>2, <2>3
<1>11. SelectedBetween'
  <2> SUFFICES ASSUME NEW o \in Process, selected'[o] # NoRow
               PROVE  /\ \A q \in Row : Handed(o, q)' => q < selected'[o]
                      /\ \A t \in DOMAIN rows : rows'[t].status = "pending" => selected'[o] <= t
    BY <1>4 DEF SelectedBetween
  <2>1. o # p /\ selected'[o] = selected[o]
    BY <1>1, <1>3 DEF BusTypeOK
  <2> QED
    BY <1>1, <1>4, <1>9, <2>1 DEF Order, SelectedBetween
<1>12. ASSUME NEW o \in Process, NEW l \in Key PROVE Lined(o, l)'
  <2>1. \A q \in Row : starts'[o][q] > 0 => starts[o][q] > 0 /\ q \in DOMAIN rows
    BY <1>1, <1>3 DEF InTable
  <2>2. Lined(o, l)
    BY <1>1 DEF Order
  <2>3. \A i \in DOMAIN actor[o][l].inbox : actor[o][l].inbox[i] \in DOMAIN rows
    BY <1>1 DEF InTable
  <2>4. CASE o # p \/ l # k
    <3>1. actor'[o][l].inbox = actor[o][l].inbox
      BY <1>5, <2>4 DEF Others
    <3> QED
      BY <1>8, <2>1, <2>2, <2>3, <3>1 DEF Lined, NextLane, Lane
  <2>5. CASE o = p /\ l = k
    <3>1. /\ \A i \in DOMAIN old : old[i] \in DOMAIN rows /\ Lane(old[i]) = k
          /\ \A i, j \in DOMAIN old : i < j => old[i] < old[j]
          /\ \A q \in Row, i \in DOMAIN old : starts[p][q] > 0 /\ Lane(q) = k => q < old[i]
      BY <2>2, <2>3, <2>5 DEF Lined, old
    <3>2. \A q \in Row : Handed(p, q) => q < r
      BY <1>1 DEF Order, SelectedBetween, r
    <3>3. \A i \in DOMAIN old : old[i] < r
      <4> TAKE i \in DOMAIN old
      <4>1. Waits(old[i], actor[p][k]) /\ old[i] \in Row
        BY <1>6 DEF Waits, old
      <4> QED
        BY <1>2, <3>2, <4>1 DEF Handed
    <3>4. \A q \in Row : starts'[p][q] > 0 => q < r
      BY <2>1, <2>5, <3>2 DEF Handed
    <3>5. \A i \in DOMAIN new : NextLane(new[i]) = k
      BY <1>2, <1>7, <1>8, <3>1 DEF k
    <3>6. \A i, j \in DOMAIN new : i < j => new[i] < new[j]
      BY <1>7, <3>1, <3>3
    <3>7. \A q \in Row, i \in DOMAIN new : starts'[p][q] > 0 /\ NextLane(q) = k => q < new[i]
      BY <1>7, <1>8, <2>1, <2>5, <3>1, <3>4
    <3> QED
      BY <2>5, <3>5, <3>6, <3>7 DEF Lined, Lane, NextLane, new
  <2> QED
    BY <2>4, <2>5
<1>13. AtMostOnce'
  BY <1>1, <1>3 DEF Order, AtMostOnce
<1> QED
  BY <1>10, <1>11, <1>12, <1>13 DEF Order

LEMMA StartOrder ==
  ASSUME OrderInv, NEW p \in Process, NEW k \in Key, Start(p, k)
  PROVE  Order'
<1> DEFINE old == actor[p][k].inbox
           new == actor'[p][k].inbox
           h == Head(old)
<1>1. BusTypeOK /\ InTable /\ Order
  BY DEF OrderInv, TableInv, TypeOK
<1>2. /\ Others(p, k) /\ old \in Seq(Row) /\ old # <<>> /\ h \in Row /\ h = old[1]
      /\ new = Tail(old)
  BY <1>1, StartEffect
<1>3. UNCHANGED <<rows, selected>> /\ starts' = [starts EXCEPT ![p][h] = @ + 1]
  BY DEF Start
<1>4. Lined(p, k) /\ \A i \in DOMAIN old : old[i] \in DOMAIN rows
  BY <1>1 DEF Order, InTable
<1> HIDE DEF h
<1>5. \A o \in Process, q \in Row :
        starts'[o][q] = IF o = p /\ q = h THEN starts[o][q] + 1 ELSE starts[o][q]
  BY <1>1, <1>2, <1>3 DEF BusTypeOK
<1>6. /\ \A i \in DOMAIN old : Lane(old[i]) = k
      /\ \A i, j \in DOMAIN old : i < j => old[i] < old[j]
      /\ \A q \in Row, i \in DOMAIN old : starts[p][q] > 0 /\ Lane(q) = k => q < old[i]
  BY <1>4 DEF Lined
<1> HIDE DEF old, new
<1>7. /\ Len(old) \in Nat /\ DOMAIN old = 1..Len(old) /\ 1 \in DOMAIN old
      /\ DOMAIN new = 1..Len(old) - 1
      /\ \A i \in DOMAIN new : new[i] = old[i + 1] /\ i + 1 \in DOMAIN old
  BY <1>2
<1>8. h \in Nat /\ Lane(h) = k /\ starts[p][h] = 0
  <2>1. h \in Nat /\ Lane(h) = k
    BY <1>2, <1>6, <1>7 DEF Row
  <2>2. starts[p][h] \in Nat
    BY <1>1, <1>2 DEF BusTypeOK
  <2> QED
    BY <1>2, <1>6, <1>7, <2>1, <2>2
<1>9. \A o \in Process, q \in Row : Handed(o, q)' => Handed(o, q)
  <2> SUFFICES ASSUME NEW o \in Process, NEW q \in Row, Handed(o, q)' PROVE Handed(o, q)
    OBVIOUS
  <2>1. CASE starts[o][q] > 0
    BY <2>1 DEF Handed
  <2>2. CASE o = p /\ q = h
    <3>1. Waits(q, actor[p][k])
      BY <1>2, <1>7, <2>2 DEF Waits, old
    <3> QED
      BY <2>2, <3>1 DEF Handed
  <2>3. CASE \E l \in Key : Waits(q, actor'[o][l])
    <3>1. PICK l \in Key : Waits(q, actor'[o][l])
      BY <2>3
    <3>2. CASE o = p /\ l = k
      <4>1. PICK i \in DOMAIN new : new[i] = q
        BY <3>1, <3>2 DEF Waits, new
      <4>2. i + 1 \in DOMAIN old /\ old[i + 1] = q
        BY <1>7, <4>1
      <4>3. Waits(q, actor[p][k])
        BY <4>2 DEF Waits, old
      <4> QED
        BY <3>2, <4>3 DEF Handed
    <3>3. CASE o # p \/ l # k
      BY <1>2, <3>1, <3>3 DEF Others, Handed
    <3> QED
      BY <3>2, <3>3
  <2> QED
    BY <1>5, <2>1, <2>2, <2>3 DEF Handed
<1>10. PendingLater'
  BY <1>1, <1>3, <1>9 DEF Order, PendingLater
<1>11. SelectedBetween'
  BY <1>1, <1>3, <1>9 DEF Order, SelectedBetween
<1>12. \A q \in Row : NextLane(q) = Lane(q)
  BY <1>3 DEF Lane, NextLane
<1>13. ASSUME NEW o \in Process, NEW l \in Key PROVE Lined(o, l)'
  <2>1. CASE o = p /\ l = k
    <3>1. \A i \in DOMAIN new : new[i] \in Row /\ NextLane(new[i]) = k
      BY <1>2, <1>6, <1>7, <1>12
    <3>2. \A i, j \in DOMAIN new : i < j => new[i] < new[j]
      BY <1>6, <1>7
    <3>3. \A q \in Row, i \in DOMAIN new : starts'[p][q] > 0 /\ NextLane(q) = k => q < new[i]
      <4> TAKE q \in Row, i \in DOMAIN new
      <4>1. CASE q = h
        <5>1. old[1] < old[i + 1]
          BY <1>6, <1>7
        <5> QED
          BY <1>2, <1>7, <4>1, <5>1
      <4>2. CASE q # h
        BY <1>5, <1>6, <1>7, <1>12, <4>2
      <4> QED
        BY <4>1, <4>2
    <3> QED
      BY <2>1, <3>1, <3>2, <3>3 DEF Lined, Lane, NextLane, new
  <2>2. CASE o # p \/ l # k
    <3>1. actor'[o][l].inbox = actor[o][l].inbox
      BY <1>2, <2>2 DEF Others
    <3>2. \A i \in DOMAIN actor[o][l].inbox : actor[o][l].inbox[i] \in DOMAIN rows
      BY <1>1 DEF InTable
    <3>3. \A i \in DOMAIN actor[o][l].inbox : NextLane(actor[o][l].inbox[i]) = Lane(actor[o][l].inbox[i])
      BY <1>3 DEF Lane, NextLane
    <3>4. \A q \in Row : starts'[o][q] > 0 /\ NextLane(q) = l => starts[o][q] > 0 /\ Lane(q) = l
      BY <1>5, <1>8, <1>12, <2>2
    <3>5. Lined(o, l)
      BY <1>1 DEF Order
    <3> QED
      BY <3>1, <3>3, <3>4, <3>5 DEF Lined, Lane, NextLane
  <2> QED
    BY <2>1, <2>2
<1>14. AtMostOnce'
  <2>1. \A o \in Process, q \in Row : starts[o][q] <= 1
    BY <1>1 DEF Order, AtMostOnce
  <2> QED
    BY <1>5, <1>8, <2>1 DEF AtMostOnce
<1> QED
  BY <1>10, <1>11, <1>13, <1>14 DEF Order

LEMMA PersistOrder ==
  ASSUME OrderInv, NEW s \in Session \cup {NoSession}, NEW A \in SUBSET Message, Persist(s, A),
         UNCHANGED <<selected, actor, starts>>
  PROVE  Order'
<1>1. BusTypeOK /\ InTable /\ Order
  BY DEF OrderInv, TableInv, TypeOK
<1> DEFINE new == Len(rows) + 1
<1>2. /\ DOMAIN rows' = DOMAIN rows \cup {new}
      /\ \A r \in DOMAIN rows : rows'[r] = rows[r] /\ r < new
  BY <1>1, Appended
<1> HIDE DEF new
<1>3. \A p \in Process, q \in Row : Handed(p, q) => q \in DOMAIN rows
  BY <1>1 DEF Handed, Waits, InTable
<1>4. \A p \in Process, q \in Row : Handed(p, q)' => Handed(p, q)
  BY DEF Handed
<1>5. \A r \in DOMAIN rows : Lane(r)' = Lane(r)
  BY <1>2 DEF Lane
<1>6. PendingLater'
  BY <1>1, <1>2, <1>3, <1>4 DEF Order, PendingLater
<1>7. SelectedBetween'
  <2> SUFFICES ASSUME NEW p \in Process, selected[p] # NoRow
               PROVE  /\ \A q \in Row : Handed(p, q) => q < selected[p]
                      /\ \A r \in DOMAIN rows' : rows'[r].status = "pending" => selected[p] <= r
    BY <1>4 DEF SelectedBetween
  <2>1. selected[p] \in DOMAIN rows /\ selected[p] < new
    BY <1>1, <1>2 DEF InTable
  <2>2. selected[p] <= new
    <3>1. selected[p] \in Nat /\ new \in Nat
      BY <1>1, <2>1, RowsInRange DEF new
    <3> QED
      BY <2>1, <3>1
  <2> QED
    BY <1>1, <1>2, <2>2 DEF Order, SelectedBetween
<1>8. ASSUME NEW p \in Process, NEW k \in Key PROVE Lined(p, k)'
  <2>1. \A i \in DOMAIN actor[p][k].inbox : actor[p][k].inbox[i] \in DOMAIN rows
    BY <1>1 DEF InTable
  <2>2. \A q \in Row : starts[p][q] > 0 => q \in DOMAIN rows
    BY <1>1 DEF InTable
  <2>3. Lined(p, k)
    BY <1>1 DEF Order
  <2> QED
    BY <1>5, <2>1, <2>2, <2>3 DEF Lined
<1>9. AtMostOnce'
  BY <1>1 DEF Order, AtMostOnce
<1> QED
  BY <1>6, <1>7, <1>8, <1>9 DEF Order

LEMMA SelectOrder ==
  ASSUME OrderInv, NEW p \in Process, Select(p)
  PROVE  Order'
<1>1. BusTypeOK /\ InTable /\ Order
  BY DEF OrderInv, TableInv, TypeOK
<1>2. PICK r \in Row : Oldest(r) /\ selected' = [selected EXCEPT ![p] = r]
  BY DEF Select
<1>3. UNCHANGED <<rows, actor, starts>>
  BY DEF Select
<1>4. r \in DOMAIN rows /\ rows[r].status = "pending"
      /\ \A q \in DOMAIN rows : rows[q].status = "pending" => r <= q
  BY <1>2 DEF Oldest, Pending
<1>5. \A o \in Process, q \in Row : Handed(o, q)' <=> Handed(o, q)
  BY <1>3 DEF Handed
<1>6. SelectedBetween'
  <2> SUFFICES ASSUME NEW o \in Process, selected'[o] # NoRow
               PROVE  /\ \A q \in Row : Handed(o, q) => q < selected'[o]
                      /\ \A t \in DOMAIN rows : rows[t].status = "pending" => selected'[o] <= t
    BY <1>3, <1>5 DEF SelectedBetween
  <2>1. CASE o = p
    <3>1. selected'[o] = r
      BY <1>1, <1>2, <2>1 DEF BusTypeOK
    <3> QED
      BY <1>1, <1>4, <3>1 DEF Order, PendingLater
  <2>2. CASE o # p
    <3>1. selected'[o] = selected[o]
      BY <1>1, <1>2, <2>2 DEF BusTypeOK
    <3> QED
      BY <1>1, <3>1 DEF Order, SelectedBetween
  <2> QED
    BY <2>1, <2>2
<1>7. PendingLater' /\ AtMostOnce'
  BY <1>1, <1>3, <1>5 DEF Order, PendingLater, AtMostOnce
<1>8. \A o \in Process, k \in Key : Lined(o, k)'
  BY <1>1, <1>3 DEF Order, Lined, Lane
<1> QED
  BY <1>6, <1>7, <1>8 DEF Order

LEMMA OrderStep == OrderInv /\ [Next]_vars => Order'
<1> SUFFICES ASSUME OrderInv, [Next]_vars PROVE Order'
  OBVIOUS
<1>0. TableInv /\ BusTypeOK /\ InTable /\ Order
  BY DEF OrderInv, TableInv, TypeOK
<1>1. ASSUME UNCHANGED <<rows, actor, starts>>,
             \A p \in Process : selected'[p] = selected[p] \/ selected'[p] = NoRow
      PROVE  Order'
  BY <1>1, QuietOrder DEF Quiet
<1>2. ASSUME NEW m \in Message, Webhook(m) PROVE Order'
  BY <1>1, <1>2 DEF Webhook, bus
<1>3. ASSUME Heartbeat \/ HeartbeatFails PROVE Order'
  BY <1>1, <1>3 DEF Heartbeat, HeartbeatFails, bus
<1>4. ASSUME Receive PROVE Order'
  <2>1. CASE UNCHANGED rows
    BY <1>1, <1>4, <2>1 DEF Receive
  <2>2. CASE Persist(NoSession, reply)
    <3>1. reply \in SUBSET Message
      BY <1>0 DEF TableInv, TypeOK
    <3> QED
      BY <1>4, <2>2, <3>1, PersistOrder DEF Receive
  <2> QED
    BY <1>4, <2>1, <2>2 DEF Receive
<1>5. ASSUME NEW s \in Session, OtherEvent(s) PROVE Order'
  BY <1>5, PersistOrder DEF OtherEvent, Emit
<1>6. ASSUME NEW p \in Process, Launch(p) PROVE Order'
  BY <1>1, <1>6 DEF Launch
<1>7. ASSUME NEW p \in Process, Select(p) PROVE Order'
  BY <1>7, SelectOrder
<1>8. ASSUME NEW p \in Process, ClaimFails(p) PROVE Order'
  <2>1. \A q \in Process : selected'[q] = selected[q] \/ selected'[q] = NoRow
    BY <1>0, <1>8 DEF ClaimFails, BusTypeOK
  <2> QED
    BY <1>1, <1>8, <2>1 DEF ClaimFails
<1>9. ASSUME NEW p \in Process, TakeRow(p) PROVE Order'
  BY <1>9, ClaimOrder DEF TakeRow
<1>10. ASSUME NEW p \in Process, NEW s \in Session, TimeOut(p, s) PROVE Order'
  <2>1. \A q \in Process, l \in Key : actor'[q][l].inbox = actor[q][l].inbox \/ actor'[q][l].inbox = <<>>
    BY <1>0, <1>10, TimeOutEffect DEF Others
  <2> QED
    BY <1>10, <2>1, QuietOrder DEF TimeOut, IdleTimeout, Reap, Quiet
<1>11. ASSUME NEW p \in Process, EndProcess(p) PROVE Order'
  <2>1. End(p)
    BY <1>11 DEF EndProcess
  <2>2. \A q \in Process, l \in Key : actor'[q][l].inbox = actor[q][l].inbox \/ actor'[q][l].inbox = <<>>
    BY <1>0, <2>1, EndEffect DEF NoActor
  <2>3. \A q \in Process : selected'[q] = selected[q] \/ selected'[q] = NoRow
    BY <1>0, <2>1 DEF End, BusTypeOK
  <2> QED
    BY <2>1, <2>2, <2>3, QuietOrder DEF End, Quiet
<1>12. ASSUME NEW p \in Process, NEW k \in Key, StartAgent(p, k) PROVE Order'
  BY <1>12, StartOrder DEF StartAgent
<1>13. ASSUME NEW p \in Process, NEW k \in Key, EndAgent(p, k) PROVE Order'
  <2>1. Finish(p, k)
    BY <1>13 DEF EndAgent
  <2> DEFINE r == actor[p][k].row
  <2>2. r \in DOMAIN rows
    BY <1>0, <2>1, FinishEffect DEF InTable
  <2>3. /\ DOMAIN rows' = DOMAIN rows
        /\ \A q \in DOMAIN rows :
             /\ rows'[q].session = rows[q].session
             /\ rows'[q].status = "pending" => rows[q].status = "pending"
    <3>1. CASE rows' = [rows EXCEPT ![r].status = "done"]
      BY <1>0, <2>2, <3>1, Marked
    <3> QED
      BY <2>1, <3>1 DEF Finish
  <2>4. \A q \in Process, l \in Key : actor'[q][l].inbox = actor[q][l].inbox
    <3>1. Others(p, k) /\ actor'[p][k].inbox = actor[p][k].inbox
      BY <1>0, <2>1, FinishEffect
    <3> QED
      BY <3>1 DEF Others
  <2> QED
    BY <2>1, <2>3, <2>4, QuietOrder DEF Finish, Quiet
<1>14. ASSUME NEW p \in Process, NEW k \in Key, Report(p, k) PROVE Order'
  <2>1. \A q \in Process, l \in Key : actor'[q][l].inbox = actor[q][l].inbox
    <3>1. Others(p, k) /\ actor'[p][k].inbox = actor[p][k].inbox
      BY <1>0, <1>14, PublishEffect DEF Report
    <3> QED
      BY <3>1 DEF Others
  <2> QED
    BY <1>14, <2>1, QuietOrder DEF Report, Publish, Quiet
<1>15. ASSUME UNCHANGED vars PROVE Order'
  BY <1>1, <1>15 DEF vars, bus
<1> QED
  BY <1>2, <1>3, <1>4, <1>5, <1>6, <1>7, <1>8, <1>9, <1>10, <1>11, <1>12, <1>13, <1>14, <1>15
     DEF Next, TimeOut

LEMMA OrderAlways == Spec => []OrderInv
<1>1. Init => OrderInv
  BY TableInit, OrderInit DEF OrderInv
<1>2. OrderInv /\ [Next]_vars => OrderInv'
  BY TableStep, OrderStep DEF OrderInv
<1> QED
  BY <1>1, <1>2, PTL DEF Spec

(* A process starts a row at most once, however many processes run, fail   *)
(* and start again, and whoever else has taken the row.                    *)
THEOREM RowsStartOnce == Spec => []AtMostOnce
BY OrderAlways, PTL DEF OrderInv, Order

(* A process takes up the events of a session in the order of their rows.  *)
THEOREM SessionsInOrder == Spec => SessionInOrder
<1> DEFINE Ordered ==
      \A p \in Process, s \in Session, r \in Row :
        actor'[p][s].row = r /\ actor[p][s].row # r =>
          \A q \in DOMAIN rows : rows[q].session = s /\ starts[p][q] > 0 => q < r
<1>1. ASSUME OrderInv, [Next]_vars PROVE [Ordered]_bus
  <2> SUFFICES ASSUME NEW p \in Process, NEW s \in Session, NEW r \in Row,
                      actor'[p][s].row = r, actor[p][s].row # r,
                      NEW q \in DOMAIN rows, rows[q].session = s, starts[p][q] > 0
               PROVE  q < r
    OBVIOUS
  <2>0. BusTypeOK /\ InTable /\ Order /\ s \in Key /\ r # NoRow /\ q \in Row /\ Lane(q) = s
    <3>1. BusTypeOK /\ InTable /\ Order
      BY <1>1 DEF OrderInv, TableInv, TypeOK
    <3>2. q \in Row
      BY <3>1, RowsInRange
    <3> QED
      BY <3>1, <3>2, SessionAssumption DEF Key, Lane, Row, NoRow
  <2>1. ASSUME NEW o \in Process, NEW k \in Key, Start(o, k) PROVE q < r
    <3>1. o = p /\ k = s
      BY <2>0, <2>1, StartEffect DEF Others
    <3>2. r = actor[p][s].inbox[1] /\ 1 \in DOMAIN actor[p][s].inbox
      BY <2>0, <2>1, <3>1, StartEffect
    <3>3. Lined(p, s)
      BY <2>0 DEF Order
    <3> QED
      BY <2>0, <3>2, <3>3 DEF Lined
  <2>2. ASSUME NEW o \in Process, NEW k \in Key, EndAgent(o, k) PROVE FALSE
    <3>1. Others(o, k) /\ actor'[o][k].row = actor[o][k].row
      BY <2>0, <2>2, FinishEffect DEF EndAgent
    <3> QED
      BY <2>0, <3>1 DEF Others
  <2>3. ASSUME NEW o \in Process, NEW k \in Key, Report(o, k) PROVE FALSE
    <3>1. Others(o, k) /\ actor'[o][k].row = NoRow
      BY <2>0, <2>3, PublishEffect DEF Report
    <3> QED
      BY <2>0, <3>1 DEF Others
  <2>4. ASSUME NEW o \in Process, TakeRow(o) PROVE FALSE
    <3>1. selected[o] \in DOMAIN rows /\ selected[o] \in Row /\ Lane(selected[o]) \in Key
      BY <2>0, <2>4, RowsInRange, LaneIsKey DEF TakeRow, Claim, InTable
    <3> QED
      BY <2>0, <2>4, <3>1, SubmitEffect DEF TakeRow, Claim, Others
  <2>5. ASSUME NEW o \in Process, NEW t \in Session, TimeOut(o, t) PROVE FALSE
    BY <2>0, <2>5, TimeOutEffect DEF Others
  <2>6. ASSUME NEW o \in Process, EndProcess(o) PROVE FALSE
    BY <2>0, <2>6, EndEffect DEF EndProcess, NoActor
  <2>7. ASSUME UNCHANGED actor PROVE FALSE
    BY <2>7
  <2>8. ASSUME NEW o \in Process, Launch(o) \/ Select(o) \/ ClaimFails(o) PROVE FALSE
    BY <2>7, <2>8 DEF Launch, Select, ClaimFails
  <2>9. ASSUME NEW m \in Message, Webhook(m) PROVE FALSE
    BY <2>7, <2>9 DEF Webhook, bus
  <2>10. ASSUME Heartbeat \/ HeartbeatFails \/ Receive PROVE FALSE
    BY <2>7, <2>10 DEF Heartbeat, HeartbeatFails, Receive, bus
  <2>11. ASSUME NEW t \in Session, OtherEvent(t) PROVE FALSE
    BY <2>7, <2>11 DEF OtherEvent, Emit
  <2>12. ASSUME UNCHANGED vars PROVE FALSE
    BY <2>7, <2>12 DEF vars, bus
  <2> QED
    BY <1>1, <2>1, <2>2, <2>3, <2>4, <2>5, <2>6, <2>8, <2>9, <2>10, <2>11, <2>12
       DEF Next, TimeOut, StartAgent
<1> QED
  BY <1>1, OrderAlways, PTL DEF Spec, SessionInOrder

-----------------------------------------------------------------------------
(* What actors work on has been started, what has ended has been answered. *)
Worked ==
  /\ \A p \in Process, k \in Key :
       LET a == actor[p][k] IN
       /\ a.row # NoRow => starts[p][a.row] > 0
       /\ a.ended => About(a.row) \subseteq answered
  /\ ProcessedWasAnswered

WorkInv == OrderInv /\ Worked

(* The work of actors that neither start nor end an agent. *)
SameWork ==
  /\ UNCHANGED <<starts, answered>>
  /\ \A p \in Process, k \in Key :
       \/ actor'[p][k].row = actor[p][k].row /\ actor'[p][k].ended = actor[p][k].ended
       \/ actor'[p][k].row = NoRow /\ actor'[p][k].ended = FALSE
  /\ DOMAIN rows \subseteq DOMAIN rows'
  /\ \A r \in DOMAIN rows : rows'[r].about = rows[r].about
  /\ \A m \in Message : mail'[m] = "processed" => mail[m] = "processed" \/ m \in answered

LEMMA SameWorkWorked ==
  ASSUME WorkInv, SameWork
  PROVE  Worked'
<1>1. InTable /\ Worked
  BY DEF WorkInv, OrderInv, TableInv
<1>2. ASSUME NEW p \in Process, NEW k \in Key
      PROVE  /\ actor'[p][k].row # NoRow => starts'[p][actor'[p][k].row] > 0
             /\ actor'[p][k].ended => rows'[actor'[p][k].row].about \subseteq answered'
  <2>1. CASE actor'[p][k].row = actor[p][k].row /\ actor'[p][k].ended = actor[p][k].ended
    BY <1>1, <2>1 DEF Worked, About, InTable, SameWork
  <2>2. CASE actor'[p][k].row = NoRow /\ actor'[p][k].ended = FALSE
    BY <2>2
  <2> QED
    BY <2>1, <2>2 DEF SameWork
<1>3. ProcessedWasAnswered'
  BY <1>1 DEF Worked, ProcessedWasAnswered, SameWork
<1> QED
  BY <1>2, <1>3 DEF Worked, About

LEMMA WorkedInit == Init => Worked
<1> SUFFICES ASSUME Init PROVE Worked
  OBVIOUS
<1>1. \A p \in Process, k \in Key : actor[p][k].row = NoRow /\ ~actor[p][k].ended
  BY DEF Init, BusInit, NoActor
<1>2. ProcessedWasAnswered
  BY DEF Init, ProcessedWasAnswered
<1> QED
  BY <1>1, <1>2 DEF Worked

LEMMA WorkedStep == WorkInv /\ [Next]_vars => Worked'
<1> SUFFICES ASSUME WorkInv, [Next]_vars PROVE Worked'
  OBVIOUS
<1>0. TypeOK /\ BusTypeOK /\ InTable /\ Order /\ Worked
  BY DEF WorkInv, OrderInv, TableInv, TypeOK
<1>1. ASSUME UNCHANGED <<rows, actor, starts, answered>>,
             \A m \in Message : mail'[m] = "processed" => mail[m] = "processed"
      PROVE  Worked'
  BY <1>1, SameWorkWorked DEF SameWork
<1>2. ASSUME NEW m \in Message, Webhook(m) PROVE Worked'
  <2>1. \A l \in Message : mail'[l] = "processed" => mail[l] = "processed"
    BY <1>0, <1>2 DEF Webhook, TypeOK
  <2> QED
    BY <1>1, <1>2, <2>1 DEF Webhook, bus
<1>3. ASSUME Heartbeat \/ HeartbeatFails PROVE Worked'
  BY <1>1, <1>3 DEF Heartbeat, HeartbeatFails, bus
<1>4. ASSUME NEW s \in Session \cup {NoSession}, NEW A \in SUBSET Message, Persist(s, A),
             UNCHANGED <<actor, starts, answered, mail>>
      PROVE  Worked'
  <2>1. DOMAIN rows \subseteq DOMAIN rows' /\ \A r \in DOMAIN rows : rows'[r] = rows[r]
    BY <1>0, <1>4, Appended
  <2> QED
    BY <1>4, <2>1, SameWorkWorked DEF SameWork
<1>5. ASSUME Receive PROVE Worked'
  <2>1. CASE UNCHANGED rows
    BY <1>1, <1>5, <2>1 DEF Receive
  <2>2. CASE Persist(NoSession, reply)
    BY <1>0, <1>4, <1>5, <2>2 DEF Receive, TypeOK
  <2> QED
    BY <1>5, <2>1, <2>2 DEF Receive
<1>6. ASSUME NEW s \in Session, OtherEvent(s) PROVE Worked'
  BY <1>4, <1>6 DEF OtherEvent, Emit
<1>7. ASSUME NEW p \in Process, Launch(p) \/ Select(p) \/ ClaimFails(p), UNCHANGED mailbox
      PROVE  Worked'
  BY <1>1, <1>7 DEF Launch, Select, ClaimFails, mailbox
<1>8. ASSUME NEW p \in Process, TakeRow(p) PROVE Worked'
  <2> DEFINE r == selected[p]
             st == IF rows[r].status = "pending" THEN "processing" ELSE rows[r].status
  <2>1. Claim(p) /\ r # NoRow
    BY <1>8 DEF TakeRow, Claim
  <2>2. r \in DOMAIN rows /\ r \in Row /\ rows[r] \in RowType /\ Lane(r) \in Key
    BY <1>0, <2>1, RowsInRange, LaneIsKey DEF InTable
  <2>3. /\ rows' = [rows EXCEPT ![r].status = st]
        /\ Submit(p, r) /\ UNCHANGED starts
        /\ st \in {"pending", "processing", "done"}
    BY <2>1, <2>2 DEF Claim, RowType
  <2>4. DOMAIN rows' = DOMAIN rows /\ \A q \in DOMAIN rows : rows'[q].about = rows[q].about
    <3> HIDE DEF st
    <3> QED
      BY <1>0, <2>2, <2>3, Marked
  <2>5. \A q \in Process, k \in Key :
          actor'[q][k].row = actor[q][k].row /\ actor'[q][k].ended = actor[q][k].ended
    <3> HIDE DEF r
    <3>1. /\ Others(p, Lane(r))
          /\ actor'[p][Lane(r)].row = actor[p][Lane(r)].row
          /\ actor'[p][Lane(r)].ended = actor[p][Lane(r)].ended
      BY <1>0, <2>2, <2>3, SubmitEffect
    <3> QED
      BY <3>1 DEF Others
  <2> QED
    BY <1>8, <2>3, <2>4, <2>5, SameWorkWorked DEF SameWork, TakeRow
<1>9. ASSUME NEW p \in Process, NEW s \in Session, TimeOut(p, s), UNCHANGED mailbox PROVE Worked'
  <2>1. \A q \in Process, k \in Key :
          actor'[q][k].row = actor[q][k].row /\ actor'[q][k].ended = actor[q][k].ended
    <3>1. /\ Others(p, s) /\ actor'[p][s].row = actor[p][s].row
          /\ actor'[p][s].ended = actor[p][s].ended
      BY <1>0, <1>9, TimeOutEffect
    <3> QED
      BY <3>1 DEF Others
  <2> QED
    BY <1>9, <2>1, SameWorkWorked DEF SameWork, TimeOut, IdleTimeout, Reap, mailbox
<1>10. ASSUME NEW p \in Process, EndProcess(p) PROVE Worked'
  <2>1. \A q \in Process, k \in Key :
          \/ actor'[q][k].row = actor[q][k].row /\ actor'[q][k].ended = actor[q][k].ended
          \/ actor'[q][k].row = NoRow /\ actor'[q][k].ended = FALSE
    BY <1>0, <1>10, EndEffect DEF EndProcess, NoActor
  <2> QED
    BY <1>10, <2>1, SameWorkWorked DEF SameWork, EndProcess, End
<1>11. ASSUME NEW p \in Process, NEW k \in Key, StartAgent(p, k) PROVE Worked'
  <2> DEFINE h == Head(actor[p][k].inbox)
  <2>1. Start(p, k) /\ UNCHANGED <<rows, mail, answered>> /\ starts' = [starts EXCEPT ![p][h] = @ + 1]
    BY <1>11 DEF StartAgent, Start, mailbox
  <2>2. /\ Others(p, k) /\ h \in Row
        /\ actor[p][k].row = NoRow
        /\ actor'[p][k].row = h /\ actor'[p][k].ended = actor[p][k].ended
    BY <1>0, <2>1, StartEffect
  <2> HIDE DEF h
  <2>3. \A q \in Process, r \in Row : starts[q][r] > 0 => starts'[q][r] > 0
    BY <1>0, <2>1, <2>2 DEF BusTypeOK
  <2>4. starts'[p][h] > 0
    BY <1>0, <2>1, <2>2 DEF BusTypeOK
  <2>5. ~actor[p][k].ended
    BY <1>0, <2>2 DEF InTable
  <2>6. ASSUME NEW q \in Process, NEW l \in Key
        PROVE  /\ actor'[q][l].row # NoRow => starts'[q][actor'[q][l].row] > 0
               /\ actor'[q][l].ended => rows[actor'[q][l].row].about \subseteq answered
    <3>1. CASE q = p /\ l = k
      BY <2>2, <2>4, <2>5, <3>1
    <3>2. CASE q # p \/ l # k
      <4>1. actor'[q][l] = actor[q][l]
        BY <2>2, <3>2 DEF Others
      <4>2. actor[q][l].row # NoRow => actor[q][l].row \in Row
        BY <1>0, RowsInRange DEF InTable
      <4>3. actor[q][l].row # NoRow => starts'[q][actor[q][l].row] > 0
        BY <1>0, <2>3, <4>2 DEF Worked
      <4> QED
        BY <1>0, <4>1, <4>3 DEF Worked, About
    <3> QED
      BY <3>1, <3>2
  <2>7. ProcessedWasAnswered'
    BY <1>0, <2>1 DEF Worked, ProcessedWasAnswered
  <2> QED
    BY <2>1, <2>6, <2>7 DEF Worked, About
<1>12. ASSUME NEW p \in Process, NEW k \in Key, EndAgent(p, k) PROVE Worked'
  <2> DEFINE r == actor[p][k].row
  <2>1. Finish(p, k) /\ UNCHANGED <<mail, starts>> /\ answered' = answered \cup About(r)
    BY <1>12 DEF EndAgent, Finish
  <2>2. /\ Others(p, k) /\ r # NoRow /\ actor'[p][k].row = r
    BY <1>0, <2>1, FinishEffect
  <2>3. r \in DOMAIN rows
    BY <1>0, <2>2 DEF InTable
  <2>4. DOMAIN rows' = DOMAIN rows /\ \A q \in DOMAIN rows : rows'[q].about = rows[q].about
    <3>1. CASE rows' = [rows EXCEPT ![r].status = "done"]
      BY <1>0, <2>3, <3>1, Marked
    <3> QED
      BY <2>1, <3>1 DEF Finish
  <2> HIDE DEF r
  <2>5. ASSUME NEW q \in Process, NEW l \in Key
        PROVE  /\ actor'[q][l].row # NoRow => starts'[q][actor'[q][l].row] > 0
               /\ actor'[q][l].ended => rows'[actor'[q][l].row].about \subseteq answered'
    <3>1. CASE q = p /\ l = k
      <4>1. starts[p][r] > 0
        BY <1>0, <2>2 DEF Worked, r
      <4> QED
        BY <2>1, <2>2, <2>3, <2>4, <3>1, <4>1 DEF About
    <3>2. CASE q # p \/ l # k
      <4>1. actor'[q][l] = actor[q][l]
        BY <2>2, <3>2 DEF Others
      <4>2. actor[q][l].ended => actor[q][l].row \in DOMAIN rows
        BY <1>0 DEF InTable
      <4> QED
        BY <1>0, <2>1, <2>4, <4>1, <4>2 DEF Worked, About
    <3> QED
      BY <3>1, <3>2
  <2>6. ProcessedWasAnswered'
    BY <1>0, <2>1 DEF Worked, ProcessedWasAnswered
  <2> QED
    BY <2>5, <2>6 DEF Worked, About
<1>13. ASSUME NEW p \in Process, NEW k \in Key, Report(p, k) PROVE Worked'
  <2>1. Publish(p, k) /\ actor[p][k].ended /\ UNCHANGED <<answered, rows, starts>>
    BY <1>13 DEF Report, Publish
  <2>2. \A q \in Process, l \in Key :
          \/ actor'[q][l].row = actor[q][l].row /\ actor'[q][l].ended = actor[q][l].ended
          \/ actor'[q][l].row = NoRow /\ actor'[q][l].ended = FALSE
    <3>1. Others(p, k) /\ actor'[p][k].row = NoRow /\ actor'[p][k].ended = FALSE
      BY <1>0, <2>1, PublishEffect
    <3> QED
      BY <3>1 DEF Others
  <2> DEFINE S == About(actor[p][k].row)
  <2>3. S \subseteq answered
    BY <1>0, <2>1 DEF Worked
  <2>4. \/ mail' = [m \in Message |-> IF m \in S THEN "processed" ELSE mail[m]]
        \/ UNCHANGED mail
    BY <1>13 DEF Report
  <2> HIDE DEF S
  <2>5. \A m \in Message : mail'[m] = "processed" => mail[m] = "processed" \/ m \in answered
    BY <2>3, <2>4
  <2> QED
    BY <2>1, <2>2, <2>5, SameWorkWorked DEF SameWork
<1>14. ASSUME UNCHANGED vars PROVE Worked'
  BY <1>1, <1>14 DEF vars, bus, mailbox
<1> QED
  BY <1>2, <1>3, <1>5, <1>6, <1>7, <1>8, <1>9, <1>10, <1>11, <1>12, <1>13, <1>14
     DEF Next, TimeOut

LEMMA WorkAlways == Spec => []WorkInv
<1>1. Init => WorkInv
  BY TableInit, OrderInit, WorkedInit DEF WorkInv, OrderInv
<1>2. WorkInv /\ [Next]_vars => WorkInv'
  BY TableStep, OrderStep, WorkedStep DEF WorkInv, OrderInv
<1> QED
  BY <1>1, <1>2, PTL DEF Spec

(* The cloud's mailbox marks a message only when an agent has worked on it *)
(* to the end, whatever was lost, repeated or crashed in between.          *)
THEOREM MarkedWasAnswered == Spec => []ProcessedWasAnswered
BY WorkAlways, PTL DEF WorkInv, Worked

-----------------------------------------------------------------------------
HeldAt(p, k, r) ==
  \/ actor[p][k].state = "alive" /\ Waits(r, actor[p][k])
  \/ actor[p][k].row = r /\ ~actor[p][k].ended

(* When one actor changes and keeps its rows but x, its process holds all  *)
(* it held but x, and the other processes what they held.                  *)
LEMMA HeldKept ==
  ASSUME NEW p \in Process, NEW k \in Key, NEW x, Others(p, k),
         \A r \in Row : r # x /\ HeldAt(p, k, r) => HeldAt(p, k, r)'
  PROVE  \A q \in Process : \A r \in Held(q) : (q = p /\ r = x) \/ r \in Held(q)'
<1> SUFFICES ASSUME NEW q \in Process, NEW r \in Held(q), ~(q = p /\ r = x) PROVE r \in Held(q)'
  OBVIOUS
<1>1. PICK l \in Key : HeldAt(q, l, r)
  BY DEF Held, HeldAt
<1>2. r \in Row
  BY DEF Held
<1>3. HeldAt(q, l, r)'
  <2>1. CASE q = p /\ l = k
    BY <1>1, <1>2, <2>1
  <2>2. CASE q # p \/ l # k
    BY <1>1, <2>2 DEF Others, HeldAt
  <2> QED
    BY <2>1, <2>2
<1> QED
  BY <1>2, <1>3 DEF Held, HeldAt

LEMMA HeldSubmit ==
  ASSUME BusTypeOK, NEW p \in Process, NEW r \in Row, Lane(r) \in Key, Submit(p, r)
  PROVE  /\ \A q \in Process : Held(q) \subseteq Held(q)'
         /\ actor[p][Lane(r)].state \notin {"ending", "reaped"} => r \in Held(p)'
<1>0. PICK k \in Key : k = Lane(r)
  OBVIOUS
<1> DEFINE old == actor[p][k].inbox
           new == actor'[p][k].inbox
<1>1. /\ Others(p, k) /\ new = Append(old, r)
      /\ actor'[p][k].state = IF actor[p][k].state = "none" THEN "alive" ELSE actor[p][k].state
      /\ actor'[p][k].row = actor[p][k].row /\ actor'[p][k].ended = actor[p][k].ended
  BY <1>0, SubmitEffect
<1>2. actor[p][k] \in ActorType
  BY DEF BusTypeOK
<1>3. old \in Seq(Row) /\ actor[p][k].state \in {"none", "alive", "ending", "reaped"}
  BY <1>2 DEF ActorType
<1> HIDE DEF old, new
<1>4. /\ \A i \in DOMAIN old : i \in DOMAIN new /\ new[i] = old[i]
      /\ Len(old) + 1 \in DOMAIN new /\ new[Len(old) + 1] = r
  BY <1>1, <1>3
<1>5. \A q \in Row : Waits(q, actor[p][k]) => Waits(q, actor'[p][k])
  BY <1>4 DEF Waits, old, new
<1>6. Waits(r, actor'[p][k])
  BY <1>4 DEF Waits, new
<1>7. \A q \in Row : q # NoRow /\ HeldAt(p, k, q) => HeldAt(p, k, q)'
  BY <1>1, <1>5 DEF HeldAt, Waits
<1>9. \A q \in Process : Held(q) \subseteq Held(q)'
  <2>1. NoRow \notin Row
    BY DEF NoRow, Row
  <2>2. \A q \in Process : \A t \in Held(q) : (q = p /\ t = NoRow) \/ t \in Held(q)'
    <3>1. Others(p, k)
      BY <1>1
    <3> QED
      BY <1>7, <3>1, HeldKept
  <2> QED
    BY <2>1, <2>2 DEF Held
<1>10. actor[p][k].state \notin {"ending", "reaped"} => r \in Held(p)'
  <2> SUFFICES ASSUME actor[p][k].state \notin {"ending", "reaped"} PROVE r \in Held(p)'
    BY <1>0
  <2>1. actor'[p][k].state = "alive"
    BY <1>1, <1>3
  <2>2. HeldAt(p, k, r)'
    BY <1>6, <2>1 DEF HeldAt, Waits
  <2> QED
    BY <2>2 DEF Held, HeldAt
<1> QED
  BY <1>0, <1>9, <1>10

LEMMA HeldStart ==
  ASSUME TableInv, NEW p \in Process, NEW k \in Key, Start(p, k)
  PROVE  \A q \in Process : Held(q) \subseteq Held(q)'
<1> DEFINE old == actor[p][k].inbox
           new == actor'[p][k].inbox
           h == Head(old)
<1>1. BusTypeOK /\ InTable
  BY DEF TableInv, TypeOK
<1>2. /\ Others(p, k) /\ old \in Seq(Row) /\ old # <<>> /\ h = old[1]
      /\ actor[p][k].row = NoRow /\ actor'[p][k].state = "alive"
      /\ actor'[p][k].row = h /\ new = Tail(old) /\ actor'[p][k].ended = actor[p][k].ended
  BY <1>1, StartEffect
<1>3. ~actor[p][k].ended
  BY <1>1, <1>2 DEF InTable
<1> HIDE DEF h, old, new
<1>4. \A i \in DOMAIN old : i = 1 \/ (i - 1 \in DOMAIN new /\ new[i - 1] = old[i])
  BY <1>2
<1>5. \A q \in Row : Waits(q, actor[p][k]) => q = h \/ Waits(q, actor'[p][k])
  BY <1>2, <1>4 DEF Waits, old, new
<1>6. \A q \in Row : q # NoRow /\ HeldAt(p, k, q) => HeldAt(p, k, q)'
  BY <1>2, <1>3, <1>5 DEF HeldAt
<1>7. NoRow \notin Row
  BY DEF NoRow, Row
<1>8. \A q \in Process : \A t \in Held(q) : (q = p /\ t = NoRow) \/ t \in Held(q)'
  <2>1. Others(p, k)
    BY <1>2
  <2> QED
    BY <1>6, <2>1, HeldKept
<1> QED
  BY <1>7, <1>8 DEF Held

LEMMA HeldFinish ==
  ASSUME BusTypeOK, NEW p \in Process, NEW k \in Key, Finish(p, k)
  PROVE  \A q \in Process : \A r \in Held(q) : r = actor[p][k].row \/ r \in Held(q)'
<1> DEFINE x == actor[p][k].row
<1>1. /\ Others(p, k) /\ actor'[p][k].state = actor[p][k].state
      /\ actor'[p][k].inbox = actor[p][k].inbox
  BY FinishEffect
<1>2. \A q \in Row : q # x /\ HeldAt(p, k, q) => HeldAt(p, k, q)'
  BY <1>1 DEF HeldAt, Waits
<1> HIDE DEF x
<1>3. \A q \in Process : \A t \in Held(q) : (q = p /\ t = x) \/ t \in Held(q)'
  BY <1>1, <1>2, HeldKept
<1> QED
  BY <1>3 DEF x

LEMMA HeldPublish ==
  ASSUME BusTypeOK, NEW p \in Process, NEW k \in Key, Publish(p, k)
  PROVE  \A q \in Process : Held(q) \subseteq Held(q)'
<1>1. /\ Others(p, k) /\ actor'[p][k].state = actor[p][k].state
      /\ actor'[p][k].inbox = actor[p][k].inbox /\ actor[p][k].ended
  BY PublishEffect
<1>2. \A q \in Row : q # NoRow /\ HeldAt(p, k, q) => HeldAt(p, k, q)'
  BY <1>1 DEF HeldAt, Waits
<1>3. NoRow \notin Row
  BY DEF NoRow, Row
<1>4. \A q \in Process : \A t \in Held(q) : (q = p /\ t = NoRow) \/ t \in Held(q)'
  BY <1>1, <1>2, HeldKept
<1> QED
  BY <1>3, <1>4 DEF Held

LEMMA HeldTimeOut ==
  ASSUME BusTypeOK, NEW p \in Process, NEW s \in Session, TimeOut(p, s)
  PROVE  \A q \in Process : Held(q) \subseteq Held(q)'
<1>1. /\ Others(p, s) /\ s \in Key
      /\ actor[p][s].state = "alive" => actor[p][s].inbox = <<>>
      /\ actor'[p][s].row = actor[p][s].row /\ actor'[p][s].ended = actor[p][s].ended
  BY TimeOutEffect
<1>2. NoRow \notin Row
  BY DEF NoRow, Row
<1>3. \A q \in Row : q # NoRow /\ HeldAt(p, s, q) => HeldAt(p, s, q)'
  BY <1>1, <1>2 DEF HeldAt, Waits
<1>4. \A q \in Process : \A t \in Held(q) : (q = p /\ t = NoRow) \/ t \in Held(q)'
  BY <1>1, <1>3, HeldKept
<1> QED
  BY <1>2, <1>4 DEF Held

-----------------------------------------------------------------------------
Claimed ==
  /\ \A p \in Process : selected[p] # NoRow => p \in up
  /\ ClaimedIsHeld

ClaimInv == TableInv /\ Claimed

LEMMA ClaimedInit == Init => Claimed
BY DEF Init, BusInit, Claimed, ClaimedIsHeld

(* Steps that claim no row and let go of none. *)
SameClaims ==
  /\ up \subseteq up'
  /\ \A p \in Process : selected'[p] # NoRow => p \in up'
  /\ \A r \in DOMAIN rows' : rows'[r].status = "processing" =>
       r \in DOMAIN rows /\ rows[r].status = "processing"
  /\ dropped \subseteq dropped'
  /\ \A p \in Process : Held(p) \subseteq Held(p)'

LEMMA SameClaimsClaimed ==
  ASSUME Claimed, up \subseteq Process, SameClaims
  PROVE  Claimed'
BY DEF Claimed, ClaimedIsHeld, SameClaims

LEMMA ClaimedStep == ClaimInv /\ [Next]_vars => Claimed'
<1> SUFFICES ASSUME ClaimInv, [Next]_vars PROVE Claimed'
  OBVIOUS
<1>0. TableInv /\ TypeOK /\ BusTypeOK /\ InTable /\ Claimed /\ up \subseteq Process
  BY DEF ClaimInv, TableInv, TypeOK, BusTypeOK
<1>1. ASSUME UNCHANGED <<rows, actor, dropped>>, up \subseteq up',
             \A p \in Process : selected'[p] # NoRow => p \in up'
      PROVE  Claimed'
  <2>1. \A p \in Process : Held(p) \subseteq Held(p)'
    BY <1>1 DEF Held
  <2> QED
    BY <1>0, <1>1, <2>1, SameClaimsClaimed DEF SameClaims
<1>2. ASSUME UNCHANGED <<rows, actor, dropped, up, selected>> PROVE Claimed'
  BY <1>0, <1>1, <1>2 DEF Claimed
<1>3. ASSUME NEW m \in Message, Webhook(m) PROVE Claimed'
  BY <1>2, <1>3 DEF Webhook, bus
<1>4. ASSUME Heartbeat \/ HeartbeatFails PROVE Claimed'
  BY <1>2, <1>4 DEF Heartbeat, HeartbeatFails, bus
<1>5. ASSUME NEW s \in Session \cup {NoSession}, NEW A \in SUBSET Message, Persist(s, A),
             UNCHANGED <<actor, dropped, up, selected>>
      PROVE  Claimed'
  <2>1. \A r \in DOMAIN rows' : rows'[r].status = "processing" =>
          r \in DOMAIN rows /\ rows[r].status = "processing"
    <3>1. /\ DOMAIN rows' = DOMAIN rows \cup {Len(rows) + 1}
          /\ \A r \in DOMAIN rows : rows'[r] = rows[r]
          /\ rows'[Len(rows) + 1] = [session |-> s, about |-> A, status |-> "pending"]
      BY <1>0, <1>5, Appended
    <3>2. rows'[Len(rows) + 1].status = "pending"
      BY <3>1
    <3> QED
      BY <3>1, <3>2
  <2>2. \A p \in Process : Held(p) \subseteq Held(p)'
    BY <1>5 DEF Held
  <2>3. \A p \in Process : selected'[p] # NoRow => p \in up'
    BY <1>0, <1>5 DEF Claimed
  <2> QED
    BY <1>0, <1>5, <2>1, <2>2, <2>3, SameClaimsClaimed DEF SameClaims
<1>6. ASSUME Receive PROVE Claimed'
  <2>1. CASE UNCHANGED rows
    BY <1>2, <1>6, <2>1 DEF Receive
  <2>2. CASE Persist(NoSession, reply)
    BY <1>0, <1>5, <1>6, <2>2 DEF Receive, TypeOK
  <2> QED
    BY <1>6, <2>1, <2>2 DEF Receive
<1>7. ASSUME NEW s \in Session, OtherEvent(s) PROVE Claimed'
  BY <1>5, <1>7 DEF OtherEvent, Emit
<1>8. ASSUME NEW p \in Process, Launch(p) PROVE Claimed'
  <2>1. \A q \in Process : selected'[q] # NoRow => q \in up'
    BY <1>0, <1>8 DEF Launch, Claimed
  <2> QED
    BY <1>1, <1>8, <2>1 DEF Launch
<1>9. ASSUME NEW p \in Process, Select(p) PROVE Claimed'
  <2>1. \A q \in Process : selected'[q] # NoRow => q \in up'
    BY <1>0, <1>9 DEF Select, Claimed, BusTypeOK
  <2> QED
    BY <1>1, <1>9, <2>1 DEF Select
<1>10. ASSUME NEW p \in Process, ClaimFails(p) PROVE Claimed'
  <2>1. \A q \in Process : selected'[q] # NoRow => q \in up'
    BY <1>0, <1>10 DEF ClaimFails, Claimed, BusTypeOK
  <2> QED
    BY <1>1, <1>10, <2>1 DEF ClaimFails
<1>11. ASSUME NEW p \in Process, Claim(p) PROVE Claimed'
  <2> DEFINE r == selected[p]
             st == IF rows[r].status = "pending" THEN "processing" ELSE rows[r].status
  <2>1. r # NoRow /\ r \in DOMAIN rows /\ r \in Row /\ rows[r] \in RowType /\ Lane(r) \in Key
    BY <1>0, <1>11, RowsInRange, LaneIsKey DEF Claim, InTable
  <2>2. /\ rows' = [rows EXCEPT ![r].status = st]
        /\ Submit(p, r) /\ selected' = [selected EXCEPT ![p] = NoRow] /\ UNCHANGED up
        /\ st \in {"pending", "processing", "done"}
    BY <1>11, <2>1 DEF Claim, RowType
  <2>3. DOMAIN rows' = DOMAIN rows /\ \A q \in DOMAIN rows : q # r => rows'[q] = rows[q]
    <3> HIDE DEF st
    <3> QED
      BY <1>0, <2>1, <2>2, Marked
  <2> HIDE DEF r
  <2>4. /\ \A q \in Process : Held(q) \subseteq Held(q)'
        /\ actor[p][Lane(r)].state \notin {"ending", "reaped"} => r \in Held(p)'
    BY <1>0, <2>1, <2>2, HeldSubmit
  <2>5. dropped \subseteq dropped' /\ (actor[p][Lane(r)].state \in {"ending", "reaped"} => r \in dropped')
    BY <2>2 DEF Submit
  <2>6. p \in up
    BY <1>0, <2>1 DEF Claimed, r
  <2>7. ClaimedIsHeld'
    <3> SUFFICES ASSUME NEW q \in DOMAIN rows, rows'[q].status = "processing", q \notin dropped'
                 PROVE  \E o \in up : q \in Held(o)'
      BY <2>2, <2>3 DEF ClaimedIsHeld
    <3>1. CASE q = r
      BY <2>4, <2>5, <2>6, <3>1
    <3>2. CASE q # r
      <4>1. rows[q].status = "processing" /\ q \notin dropped
        BY <2>3, <2>5, <3>2
      <4> QED
        BY <1>0, <2>4, <4>1 DEF Claimed, ClaimedIsHeld
    <3> QED
      BY <3>1, <3>2
  <2>8. \A q \in Process : selected'[q] # NoRow => q \in up'
    BY <1>0, <2>2 DEF Claimed, BusTypeOK
  <2> QED
    BY <2>7, <2>8 DEF Claimed
<1>12. ASSUME NEW p \in Process, NEW s \in Session, TimeOut(p, s) PROVE Claimed'
  <2>1. \A q \in Process : Held(q) \subseteq Held(q)'
    BY <1>0, <1>12, HeldTimeOut
  <2>2. \A q \in Process : selected'[q] # NoRow => q \in up'
    BY <1>0, <1>12 DEF TimeOut, IdleTimeout, Reap, Claimed
  <2> QED
    BY <1>0, <1>12, <2>1, <2>2, SameClaimsClaimed DEF SameClaims, TimeOut, IdleTimeout, Reap
<1>13. ASSUME NEW p \in Process, End(p) PROVE Claimed'
  <2>1. \A q \in Process : q # p => actor'[q] = actor[q]
    BY <1>0, <1>13, EndEffect
  <2>2. \A q \in Process : q # p => Held(q)' = Held(q)
    BY <2>1 DEF Held
  <2>3. /\ up' = up \ {p} /\ dropped' = dropped \cup Held(p) /\ UNCHANGED rows
        /\ selected' = [selected EXCEPT ![p] = NoRow]
    BY <1>13 DEF End
  <2>4. ClaimedIsHeld'
    <3> SUFFICES ASSUME NEW q \in DOMAIN rows, rows[q].status = "processing", q \notin dropped'
                 PROVE  \E o \in up' : q \in Held(o)'
      BY <2>3 DEF ClaimedIsHeld
    <3>1. PICK o \in up : q \in Held(o)
      BY <1>0, <2>3 DEF Claimed, ClaimedIsHeld
    <3> QED
      BY <1>0, <2>2, <2>3, <3>1
  <2>5. \A q \in Process : selected'[q] # NoRow => q \in up'
    BY <1>0, <2>3 DEF Claimed, BusTypeOK
  <2> QED
    BY <2>4, <2>5 DEF Claimed
<1>14. ASSUME NEW p \in Process, NEW k \in Key, Start(p, k) PROVE Claimed'
  <2>1. \A q \in Process : Held(q) \subseteq Held(q)'
    BY <1>0, <1>14, HeldStart
  <2>2. \A q \in Process : selected'[q] # NoRow => q \in up'
    BY <1>0, <1>14 DEF Start, Claimed
  <2> QED
    BY <1>0, <1>14, <2>1, <2>2, SameClaimsClaimed DEF SameClaims, Start
<1>15. ASSUME NEW p \in Process, NEW k \in Key, Finish(p, k) PROVE Claimed'
  <2> DEFINE r == actor[p][k].row
  <2>1. r \in DOMAIN rows
    BY <1>0, <1>15, FinishEffect DEF InTable
  <2>2. \A q \in Process : \A t \in Held(q) : t = r \/ t \in Held(q)'
    BY <1>0, <1>15, HeldFinish
  <2>3. /\ DOMAIN rows' = DOMAIN rows /\ dropped \subseteq dropped'
        /\ \A q \in DOMAIN rows : q # r => rows'[q] = rows[q]
        /\ rows'[r].status = "done" \/ r \in dropped'
    <3>1. CASE rows' = [rows EXCEPT ![r].status = "done"] /\ UNCHANGED dropped
      BY <1>0, <2>1, <3>1, Marked
    <3>2. CASE UNCHANGED rows /\ dropped' = dropped \cup {r}
      BY <3>2
    <3> QED
      BY <1>15, <3>1, <3>2 DEF Finish
  <2>4. UNCHANGED <<up, selected>>
    BY <1>15 DEF Finish
  <2> HIDE DEF r
  <2>5. ClaimedIsHeld'
    <3> SUFFICES ASSUME NEW q \in DOMAIN rows, rows'[q].status = "processing", q \notin dropped'
                 PROVE  \E o \in up : q \in Held(o)'
      BY <2>3, <2>4 DEF ClaimedIsHeld
    <3>1. q # r
      BY <2>3
    <3>2. rows[q].status = "processing" /\ q \notin dropped
      BY <2>3, <3>1
    <3>3. PICK o \in up : q \in Held(o)
      BY <1>0, <3>2 DEF Claimed, ClaimedIsHeld
    <3> QED
      BY <1>0, <2>2, <3>1, <3>3
  <2> QED
    BY <1>0, <2>4, <2>5 DEF Claimed
<1>16. ASSUME NEW p \in Process, NEW k \in Key, Publish(p, k) PROVE Claimed'
  <2>1. \A q \in Process : Held(q) \subseteq Held(q)'
    BY <1>0, <1>16, HeldPublish
  <2>2. \A q \in Process : selected'[q] # NoRow => q \in up'
    BY <1>0, <1>16 DEF Publish, Claimed
  <2> QED
    BY <1>0, <1>16, <2>1, <2>2, SameClaimsClaimed DEF SameClaims, Publish
<1>17. ASSUME UNCHANGED vars PROVE Claimed'
  BY <1>2, <1>17 DEF vars, bus
<1> QED
  BY <1>3, <1>4, <1>6, <1>7, <1>8, <1>9, <1>10, <1>11, <1>12, <1>13, <1>14, <1>15, <1>16, <1>17
     DEF Next, TimeOut, TakeRow, EndProcess, StartAgent, EndAgent, Report

(* A row that is marked as being processed is with a process that runs, or *)
(* it was dropped: with a process that ended, at an actor that had been    *)
(* reaped, or when marking it done failed.                                 *)
THEOREM ClaimedRowsHeld == Spec => []ClaimedIsHeld
<1>1. Init => ClaimInv
  BY TableInit, ClaimedInit DEF ClaimInv
<1>2. ClaimInv /\ [Next]_vars => ClaimInv'
  BY TableStep, ClaimedStep DEF ClaimInv
<1> QED
  BY <1>1, <1>2, PTL DEF Spec, ClaimInv, Claimed

-----------------------------------------------------------------------------
(* The rows of UnderWay, and those actors whose state matters for them.    *)
Live(r) ==
  \/ rows[r].status = "pending"
  \/ r \in Held(Daemon)
  \/ \E k \in Key : actor[Daemon][k].row = r

(* The webhook's messages are new to the daemon, and rows about messages   *)
(* have lanes of their own, which are never reaped.                        *)
Known0 == \A m \in Message : mail[m] = "none" => m \notin emitted /\ m \notin reply

OwnLanes ==
  /\ \A p \in Process, k \in Key : actor[p][k].state \in {"ending", "reaped"} => k \in Session
  /\ \A r \in DOMAIN rows : rows[r].about # {} => rows[r].session = NoSession

Kept == Known0 /\ OwnLanes /\ NothingForgotten

KeepInv == WorkInv /\ Kept

LEMMA KeptInit == Init => Kept
<1> SUFFICES ASSUME Init PROVE Kept
  OBVIOUS
<1>1. OwnLanes
  BY DEF Init, BusInit, OwnLanes, NoActor
<1> QED
  BY <1>1 DEF Init, Kept, Known0, NothingForgotten

(* A message is not forgotten when the step keeps the rows that carry it,  *)
(* and brings a row for what it makes the daemon remember.                 *)
LEMMA Remains ==
  ASSUME NothingForgotten, DOMAIN rows \subseteq DOMAIN rows',
         \A r \in DOMAIN rows : rows'[r].about = rows[r].about,
         \A m \in Message : mail'[m] = "pending" /\ m \in emitted' /\ m \notin lost' =>
           \/ mail[m] = "pending" /\ m \in emitted /\ m \notin lost
           \/ \E r \in DOMAIN rows' : m \in rows'[r].about /\ rows'[r].status = "pending",
         \A r \in DOMAIN rows : \A m \in rows[r].about :
           mail'[m] = "pending" /\ m \notin lost' /\ Live(r) => Live(r)'
  PROVE  NothingForgotten'
<1> SUFFICES ASSUME NEW m \in Message, mail'[m] = "pending", m \in emitted', m \notin lost'
             PROVE  UnderWay(m)' # {}
  BY DEF NothingForgotten
<1>1. CASE mail[m] = "pending" /\ m \in emitted /\ m \notin lost
  <2>1. PICK r \in DOMAIN rows : m \in rows[r].about /\ Live(r)
    BY <1>1 DEF NothingForgotten, UnderWay, Live, About
  <2>2. r \in DOMAIN rows' /\ m \in rows'[r].about /\ Live(r)'
    BY <2>1
  <2> QED
    BY <2>2 DEF UnderWay, Live, About
<1>2. CASE \E r \in DOMAIN rows' : m \in rows'[r].about /\ rows'[r].status = "pending"
  BY <1>2 DEF UnderWay, About
<1> QED
  BY <1>1, <1>2

LEMMA KeptStep == KeepInv /\ [Next]_vars => Kept'
<1> SUFFICES ASSUME KeepInv, [Next]_vars PROVE Kept'
  OBVIOUS
<1>0. /\ TableInv /\ TypeOK /\ BusTypeOK /\ InTable /\ Order /\ Worked
      /\ Kept /\ Known0 /\ OwnLanes /\ NothingForgotten
  BY DEF KeepInv, WorkInv, OrderInv, TableInv, TypeOK, Kept
<1>1. ASSUME UNCHANGED <<rows, actor>>, Known0',
             \A m \in Message : mail'[m] = "pending" /\ m \in emitted' /\ m \notin lost' =>
               mail[m] = "pending" /\ m \in emitted /\ m \notin lost
      PROVE  Kept'
  <2>1. \A r \in DOMAIN rows : Live(r)' = Live(r)
    BY <1>1 DEF Live, Held
  <2>2. NothingForgotten'
    BY <1>0, <1>1, <2>1, Remains
  <2>3. OwnLanes'
    BY <1>0, <1>1 DEF OwnLanes
  <2> QED
    BY <1>1, <2>2, <2>3 DEF Kept
<1>2. ASSUME UNCHANGED <<rows, actor, mail, emitted, reply, lost>> PROVE Kept'
  BY <1>0, <1>1, <1>2 DEF Known0
<1>3. ASSUME NEW m \in Message, Webhook(m) PROVE Kept'
  <2>1. mail[m] = "none" /\ m \notin emitted /\ mail' = [mail EXCEPT ![m] = "pending"]
    BY <1>0, <1>3 DEF Webhook, Known0
  <2>2. \A l \in Message : l # m => mail'[l] = mail[l]
    BY <1>0, <2>1 DEF TypeOK
  <2>3. mail'[m] = "pending"
    BY <1>0, <2>1 DEF TypeOK
  <2>4. Known0'
    BY <1>0, <1>3, <2>2, <2>3 DEF Webhook, Known0
  <2> QED
    BY <1>1, <1>3, <2>1, <2>2, <2>4 DEF Webhook, bus
<1>4. ASSUME Heartbeat \/ HeartbeatFails PROVE Kept'
  <2>1. \A m \in reply' : mail[m] = "pending"
    BY <1>4 DEF Heartbeat, HeartbeatFails, Offer
  <2>2. Known0'
    BY <1>0, <1>4, <2>1 DEF Heartbeat, HeartbeatFails, Known0
  <2> QED
    BY <1>1, <1>4, <2>2 DEF Heartbeat, HeartbeatFails, bus
<1>5. ASSUME NEW s \in Session \cup {NoSession}, NEW A \in SUBSET Message, Persist(s, A),
             A # {} => s = NoSession, UNCHANGED <<actor, mail, lost>>, Known0',
             emitted' \subseteq emitted \cup A
      PROVE  Kept'
  <2> DEFINE new == Len(rows) + 1
  <2>1. /\ DOMAIN rows' = DOMAIN rows \cup {new}
        /\ \A r \in DOMAIN rows : rows'[r] = rows[r]
        /\ rows'[new] = [session |-> s, about |-> A, status |-> "pending"]
    BY <1>0, <1>5, Appended
  <2> HIDE DEF new
  <2>2. \A r \in DOMAIN rows : Live(r) => Live(r)'
    BY <1>5, <2>1 DEF Live, Held
  <2>3. OwnLanes'
    BY <1>0, <1>5, <2>1 DEF OwnLanes
  <2>4. NothingForgotten'
    <3>1. \A m \in Message : mail'[m] = "pending" /\ m \in emitted' /\ m \notin lost' =>
            \/ mail[m] = "pending" /\ m \in emitted /\ m \notin lost
            \/ \E r \in DOMAIN rows' : m \in rows'[r].about /\ rows'[r].status = "pending"
      BY <1>5, <2>1
    <3> QED
      BY <1>0, <2>1, <2>2, <3>1, Remains
  <2> QED
    BY <1>5, <2>3, <2>4 DEF Kept
<1>6. ASSUME Receive PROVE Kept'
  <2>0. \A S \in SUBSET Message : \A T \in Remembered(S) : T \subseteq S
    BY DEF Remembered
  <2>1. reply \in SUBSET Message /\ emitted \cup reply \in SUBSET Message
    BY <1>0 DEF TypeOK
  <2>2. emitted' \subseteq emitted \cup reply
    <3>1. UNCHANGED emitted \/ emitted' \in Remembered(emitted \cup reply)
      BY <1>6 DEF Receive
    <3> QED
      BY <2>0, <2>1, <3>1
  <2>3. reply' = {} /\ UNCHANGED <<actor, mail>>
    BY <1>6 DEF Receive
  <2>4. Known0'
    BY <1>0, <2>2, <2>3 DEF Known0
  <2>5. CASE UNCHANGED <<rows, emitted, lost>>
    BY <1>1, <2>3, <2>4, <2>5
  <2>6. CASE Persist(NoSession, reply) /\ UNCHANGED lost
    BY <1>5, <2>1, <2>2, <2>3, <2>4, <2>6
  <2>7. CASE UNCHANGED rows /\ lost' = lost \cup reply
    BY <1>1, <2>2, <2>3, <2>4, <2>7
  <2> QED
    BY <1>6, <2>5, <2>6, <2>7 DEF Receive
<1>7. ASSUME NEW s \in Session, OtherEvent(s) PROVE Kept'
  <2>1. Persist(s, {}) /\ UNCHANGED <<actor, mail, lost, emitted, reply>>
    BY <1>7 DEF OtherEvent, Emit
  <2>2. Known0'
    BY <1>0, <2>1 DEF Known0
  <2> QED
    BY <1>5, <2>1, <2>2
<1>8. ASSUME NEW p \in Process, Launch(p) \/ Select(p) \/ ClaimFails(p), UNCHANGED mailbox
      PROVE  Kept'
  BY <1>2, <1>8 DEF Launch, Select, ClaimFails, mailbox
<1>9. ASSUME NEW p \in Process, TakeRow(p) PROVE Kept'
  <2> DEFINE st == IF rows[selected[p]].status = "pending" THEN "processing"
                   ELSE rows[selected[p]].status
  <2>1. Claim(p) /\ UNCHANGED <<mail, emitted, reply>>
        /\ lost' = IF p = Daemon THEN lost ELSE lost \cup rows[selected[p]].about
    BY <1>9 DEF TakeRow, About
  <2>2. PICK r \in DOMAIN rows : r = selected[p] /\ r \in Row /\ rows[r] \in RowType
    BY <1>0, <2>1, RowsInRange DEF Claim, InTable
  <2>3. PICK k \in Key : k = Lane(r)
    BY <1>0, LaneIsKey
  <2>4. /\ rows' = [rows EXCEPT ![r].status = st]
        /\ Submit(p, r) /\ st \in {"pending", "processing", "done"}
    BY <2>1, <2>2 DEF Claim, RowType
  <2>5. /\ DOMAIN rows' = DOMAIN rows
        /\ \A q \in DOMAIN rows :
             /\ q # r => rows'[q] = rows[q]
             /\ rows'[q].about = rows[q].about /\ rows'[q].session = rows[q].session
    <3> HIDE DEF st
    <3> QED
      BY <1>0, <2>2, <2>4, Marked
  <2>6. /\ Others(p, k) /\ actor'[p][k].row = actor[p][k].row
        /\ actor'[p][k].state = IF actor[p][k].state = "none" THEN "alive" ELSE actor[p][k].state
    BY <1>0, <2>2, <2>3, <2>4, SubmitEffect
  <2>7. /\ Held(Daemon) \subseteq Held(Daemon)'
        /\ actor[p][k].state \notin {"ending", "reaped"} => r \in Held(p)'
    BY <1>0, <2>2, <2>3, <2>4, HeldSubmit, MailboxAssumption
  <2>8. \A l \in Key : actor'[Daemon][l].row = actor[Daemon][l].row
    BY <2>6, MailboxAssumption DEF Others
  <2>9. ASSUME rows[r].about # {} PROVE actor[p][k].state \notin {"ending", "reaped"}
    <3>1. k = r
      BY <1>0, <2>3, <2>9 DEF OwnLanes, Lane
    <3>2. k \notin Session
      BY <2>2, <3>1, SessionAssumption
    <3> QED
      BY <1>0, <3>2 DEF OwnLanes
  <2>10. ASSUME NEW q \in DOMAIN rows, NEW m \in rows[q].about, m \notin lost', Live(q)
         PROVE  Live(q)'
    <3>1. CASE q # r
      BY <2>5, <2>7, <2>8, <2>10, <3>1 DEF Live
    <3>2. CASE q = r
      <4>1. p = Daemon
        BY <2>1, <2>2, <2>10, <3>2
      <4> QED
        BY <2>7, <2>9, <2>10, <3>2, <4>1 DEF Live
    <3> QED
      BY <3>1, <3>2
  <2>11. NothingForgotten'
    <3>1. lost \subseteq lost'
      BY <2>1
    <3> QED
      BY <1>0, <2>1, <2>5, <2>10, <3>1, Remains
  <2>12. OwnLanes'
    <3>1. ASSUME NEW q \in Process, NEW l \in Key, actor'[q][l].state \in {"ending", "reaped"} PROVE l \in Session
      <4>1. actor[q][l].state \in {"ending", "reaped"}
        BY <2>6, <3>1 DEF Others
      <4> QED
        BY <1>0, <4>1 DEF OwnLanes
    <3> QED
      BY <1>0, <2>5, <3>1 DEF OwnLanes
  <2> QED
    BY <1>0, <2>1, <2>11, <2>12 DEF Kept, Known0
<1>10. ASSUME UNCHANGED <<rows, emitted, reply>>, Known0', lost \subseteq lost',
              \A m \in Message : mail'[m] = "pending" => mail[m] = "pending",
              \A p \in Process, k \in Key :
                actor'[p][k].state \in {"ending", "reaped"} => actor[p][k].state \in {"ending", "reaped"} \/ k \in Session,
              \A r \in DOMAIN rows : \A m \in rows[r].about :
                mail'[m] = "pending" /\ m \notin lost' /\ Live(r) => Live(r)'
       PROVE  Kept'
  <2>1. OwnLanes'
    BY <1>0, <1>10 DEF OwnLanes
  <2>2. NothingForgotten'
    BY <1>0, <1>10, Remains
  <2> QED
    BY <1>10, <2>1, <2>2 DEF Kept
<1>11. ASSUME NEW p \in Process, NEW s \in Session, TimeOut(p, s), UNCHANGED mailbox PROVE Kept'
  <2>1. Held(Daemon) \subseteq Held(Daemon)'
    BY <1>0, <1>11, HeldTimeOut, MailboxAssumption
  <2>2. Others(p, s) /\ actor'[p][s].row = actor[p][s].row
    BY <1>0, <1>11, TimeOutEffect
  <2>3. /\ \A l \in Key : actor'[Daemon][l].row = actor[Daemon][l].row
        /\ \A q \in Process, k \in Key :
             actor'[q][k].state \in {"ending", "reaped"} => actor[q][k].state \in {"ending", "reaped"} \/ k \in Session
    BY <2>2, MailboxAssumption DEF Others
  <2>4. \A r \in DOMAIN rows : Live(r) => Live(r)'
    BY <1>11, <2>1, <2>3 DEF Live, TimeOut, IdleTimeout, Reap
  <2>5. Known0'
    BY <1>0, <1>11 DEF Known0, mailbox
  <2> QED
    BY <1>10, <1>11, <2>3, <2>4, <2>5 DEF TimeOut, IdleTimeout, Reap, mailbox
<1>12. ASSUME NEW p \in Process, EndProcess(p) PROVE Kept'
  <2>1. /\ \A k \in Key : actor'[p][k] = NoActor
        /\ \A q \in Process : q # p => actor'[q] = actor[q]
    BY <1>0, <1>12, EndEffect DEF EndProcess
  <2>2. UNCHANGED <<rows, mail, lost>>
    BY <1>12 DEF EndProcess, End
  <2>3. OwnLanes'
    <3>1. \A q \in Process, k \in Key : actor'[q][k].state \in {"ending", "reaped"} => k \in Session
      BY <1>0, <2>1 DEF OwnLanes, NoActor
    <3> QED
      BY <1>0, <2>2, <3>1 DEF OwnLanes
  <2>4. CASE p = Daemon
    BY <1>12, <2>2, <2>3, <2>4 DEF EndProcess, Kept, Known0, NothingForgotten
  <2>5. CASE p # Daemon
    <3>1. actor'[Daemon] = actor[Daemon] /\ UNCHANGED <<emitted, reply>>
      BY <1>12, <2>1, <2>5, MailboxAssumption DEF EndProcess
    <3>2. \A r \in DOMAIN rows : Live(r)' = Live(r)
      BY <2>2, <3>1 DEF Live, Held
    <3>3. NothingForgotten'
      BY <1>0, <2>2, <3>1, <3>2, Remains
    <3> QED
      BY <1>0, <2>2, <2>3, <3>1, <3>3 DEF Kept, Known0
  <2> QED
    BY <2>4, <2>5
<1>13. ASSUME NEW p \in Process, NEW k \in Key, StartAgent(p, k) PROVE Kept'
  <2>1. Start(p, k) /\ UNCHANGED mailbox /\ UNCHANGED rows
    BY <1>13 DEF StartAgent, Start
  <2>2. Held(Daemon) \subseteq Held(Daemon)'
    BY <1>0, <2>1, HeldStart, MailboxAssumption
  <2>3. /\ Others(p, k) /\ actor[p][k].row = NoRow
        /\ actor[p][k].state = "alive" /\ actor'[p][k].state = "alive"
    BY <1>0, <2>1, StartEffect
  <2>4. /\ \A l \in Key : actor[Daemon][l].row # NoRow => actor'[Daemon][l].row = actor[Daemon][l].row
        /\ \A q \in Process, l \in Key :
             actor'[q][l].state \in {"ending", "reaped"} => actor[q][l].state \in {"ending", "reaped"}
    BY <2>3, MailboxAssumption DEF Others
  <2>5. \A r \in DOMAIN rows : r # NoRow
    BY <1>0, RowsInRange DEF Row, NoRow
  <2>6. \A r \in DOMAIN rows : Live(r) => Live(r)'
    BY <2>1, <2>2, <2>4, <2>5 DEF Live
  <2>7. Known0'
    BY <1>0, <2>1 DEF Known0, mailbox
  <2> QED
    BY <1>10, <2>1, <2>4, <2>6, <2>7 DEF mailbox
<1>14. ASSUME NEW p \in Process, NEW k \in Key, EndAgent(p, k) PROVE Kept'
  <2>1. Finish(p, k) /\ UNCHANGED <<mail, emitted, reply, lost>>
    BY <1>14 DEF EndAgent
  <2>2. /\ Others(p, k) /\ actor[p][k].row # NoRow
        /\ actor'[p][k].row = actor[p][k].row /\ actor'[p][k].state = actor[p][k].state
    BY <1>0, <2>1, FinishEffect
  <2>3. PICK r \in DOMAIN rows : r = actor[p][k].row
    BY <1>0, <2>2 DEF InTable
  <2>4. rows[r].status # "pending"
    <3>1. r \in Row /\ r \in Nat
      BY <1>0, RowsInRange
    <3>2. Handed(p, r)
      BY <1>0, <2>2, <2>3 DEF Worked, Handed
    <3> QED
      BY <1>0, <3>1, <3>2 DEF Order, PendingLater
  <2>5. /\ DOMAIN rows' = DOMAIN rows
        /\ \A q \in DOMAIN rows :
             /\ q # r => rows'[q] = rows[q]
             /\ rows'[q].about = rows[q].about /\ rows'[q].session = rows[q].session
    <3>1. CASE rows' = [rows EXCEPT ![r].status = "done"]
      BY <1>0, <3>1, Marked
    <3> QED
      BY <2>1, <2>3, <3>1 DEF Finish
  <2>6. \A q \in Held(Daemon) : q = r \/ q \in Held(Daemon)'
    BY <1>0, <2>1, <2>3, HeldFinish, MailboxAssumption
  <2>7. /\ \A l \in Key : actor'[Daemon][l].row = actor[Daemon][l].row
        /\ \A q \in Process, l \in Key : actor'[q][l].state = actor[q][l].state
    BY <2>2, MailboxAssumption DEF Others
  <2>8. ASSUME NEW q \in DOMAIN rows, Live(q) PROVE Live(q)'
    <3>1. CASE q # r
      BY <2>5, <2>6, <2>7, <2>8, <3>1 DEF Live
    <3>2. CASE q = r /\ p = Daemon
      BY <2>2, <2>3, <3>2 DEF Live
    <3>3. CASE q = r /\ p # Daemon
      <4>1. \A l \in Key : actor'[Daemon][l] = actor[Daemon][l]
        BY <2>2, <3>3, MailboxAssumption DEF Others
      <4>2. Held(Daemon)' = Held(Daemon)
        BY <4>1 DEF Held
      <4> QED
        BY <2>4, <2>7, <2>8, <3>3, <4>2 DEF Live
    <3> QED
      BY <3>1, <3>2, <3>3
  <2>9. NothingForgotten'
    BY <1>0, <2>1, <2>5, <2>8, Remains
  <2>10. OwnLanes'
    BY <1>0, <2>5, <2>7 DEF OwnLanes
  <2> QED
    BY <1>0, <2>1, <2>9, <2>10 DEF Kept, Known0
<1>15. ASSUME NEW p \in Process, NEW k \in Key, Report(p, k) PROVE Kept'
  <2> DEFINE S == rows[actor[p][k].row].about
  <2>1. Publish(p, k) /\ UNCHANGED <<rows, emitted, reply>>
    BY <1>15 DEF Report, Publish
  <2>2. /\ Others(p, k) /\ actor'[p][k].row = NoRow /\ actor'[p][k].state = actor[p][k].state
    BY <1>0, <2>1, PublishEffect
  <2>3. /\ lost \subseteq lost'
        /\ \A m \in Message : mail'[m] # mail[m] => mail'[m] = "processed"
    BY <1>0, <1>15 DEF Report, TypeOK
  <2>4. p = Daemon => \A m \in Message : m \in S => mail'[m] = "processed" \/ m \in lost'
    BY <1>15 DEF Report, About
  <2>5. Known0'
    BY <1>0, <2>1, <2>3 DEF Known0
  <2>6. Held(Daemon) \subseteq Held(Daemon)'
    BY <1>0, <2>1, HeldPublish, MailboxAssumption
  <2>7. ASSUME NEW r \in DOMAIN rows, NEW m \in rows[r].about,
               mail'[m] = "pending", m \notin lost', Live(r)
        PROVE  Live(r)'
    <3>1. m \in Message
      BY <1>0, RowsInRange DEF RowType
    <3>2. CASE rows[r].status = "pending" \/ r \in Held(Daemon)
      BY <2>1, <2>6, <3>2 DEF Live
    <3>3. CASE \E l \in Key : actor[Daemon][l].row = r
      <4>1. PICK l \in Key : actor[Daemon][l].row = r
        BY <3>3
      <4>2. ~(p = Daemon /\ l = k)
        BY <2>4, <2>7, <3>1, <4>1
      <4>3. actor'[Daemon][l] = actor[Daemon][l]
        BY <2>2, <4>2, MailboxAssumption DEF Others
      <4> QED
        BY <4>1, <4>3 DEF Live
    <3> QED
      BY <2>7, <3>2, <3>3 DEF Live
  <2>8. \A q \in Process, l \in Key : actor'[q][l].state = actor[q][l].state
    BY <2>2 DEF Others
  <2> QED
    BY <1>10, <2>1, <2>3, <2>5, <2>7, <2>8
<1>16. ASSUME UNCHANGED vars PROVE Kept'
  BY <1>2, <1>16 DEF vars, bus, mailbox
<1> QED
  BY <1>3, <1>4, <1>6, <1>7, <1>8, <1>9, <1>11, <1>12, <1>13, <1>14, <1>15, <1>16
     DEF Next, TimeOut

(* A message that the daemon will not take from the cloud again is on the  *)
(* bus, with an agent of the daemon, or about to be reported, unless its   *)
(* event or its result was lost.                                           *)
THEOREM MessagesKept == Spec => []NothingForgotten
<1>1. Init => KeepInv
  BY TableInit, OrderInit, WorkedInit, KeptInit DEF KeepInv, WorkInv, OrderInv
<1>2. KeepInv /\ [Next]_vars => KeepInv'
  BY TableStep, OrderStep, WorkedStep, KeptStep DEF KeepInv, WorkInv, OrderInv
<1> QED
  BY <1>1, <1>2, PTL DEF Spec, KeepInv, Kept
=============================================================================
