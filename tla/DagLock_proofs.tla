-------------------------- MODULE DagLock_proofs --------------------------
(***************************************************************************)
(* Proofs about DagLock, for any number of nodes, processes and tokens and *)
(* any time to live.                                                       *)
(***************************************************************************)
EXTENDS DagLock, TLAPS

USE ProcOfAssumption, TtlAssumption, NoneAssumption
    DEF ProcOfAssumption, TtlAssumption, NoneAssumption

(* The initial records have their types. *)
LEMMA IdleType == Idle \in Call /\ NoRow \in Row /\ NoLease \in Lease
  BY DEF Idle, Call, NoRow, Row, NoLease, Lease

(***************************************************************************)
(* Type correctness: every variable stays in its domain in every           *)
(* deployment.                                                             *)
(***************************************************************************)
LEMMA TypeInit == Init => TypeOK
  <1> SUFFICES ASSUME Init
               PROVE  TypeOK
    OBVIOUS
  <1>1. clock \in Nat /\ lapsed \in BOOLEAN
    BY DEF Init
  <1>2. row \in Row /\ call \in [Node -> Call] /\ lease \in [Node -> Lease]
    BY IdleType DEF Init
  <1>3. mutex \in [Process -> Node \cup {NoNode}]
    BY DEF Init
  <1>4. QED
    BY <1>1, <1>2, <1>3 DEF TypeOK

(* Returning keeps the calls and the locks in their types. *)
LEMMA ReturnType ==
  ASSUME TypeOK, NEW n \in Node, Return(n)
  PROVE  /\ call' \in [Node -> Call]
         /\ mutex' \in [Process -> Node \cup {NoNode}]
  BY IdleType DEF TypeOK, Return

(* What a claim or a refresh writes has its type. *)
LEMMA GrantType ==
  ASSUME TypeOK, NEW n \in Node
  PROVE  /\ Expiry(n) \in Nat
         /\ call[n].token \in Token \cup {NoToken}
         /\ Grant(n) => lease' \in [Node -> Lease]
  BY DEF TypeOK, Grant, Expiry, Call, Lease

LEMMA TypeStep == TypeOK /\ [Next]_vars => TypeOK'
  <1> SUFFICES ASSUME TypeOK, [Next]_vars
               PROVE  TypeOK'
    OBVIOUS
  <1> USE IdleType DEF TypeOK
  <1>1. CASE Tick
    BY <1>1 DEF Tick
  <1>2. CASE UNCHANGED vars
    BY <1>2 DEF vars
  <1>3. ASSUME NEW n \in Node, CallClaim(n)
        PROVE  TypeOK'
    <2> PICK t \in Token :
          call' = [call EXCEPT ![n] = [Idle EXCEPT !.op = "claim",
                                                   !.now = clock, !.token = t]]
      BY <1>3 DEF CallClaim
    <2>1. [Idle EXCEPT !.op = "claim", !.now = clock, !.token = t] \in Call
      BY DEF Idle, Call
    <2>2. call' \in [Node -> Call]
      BY <2>1
    <2>3. QED
      BY <1>3, <2>2 DEF CallClaim
  <1>4. ASSUME NEW n \in Node, ClaimSelect(n)
        PROVE  TypeOK'
    BY <1>4 DEF ClaimSelect, Enter, Call, Locked, SeesLapsed
  <1>5. ASSUME NEW n \in Node, ClaimInsert(n)
        PROVE  TypeOK'
    <2>1. row' \in Row /\ lease' \in [Node -> Lease]
      BY <1>5, GrantType DEF ClaimInsert, Row
    <2>2. Return(n) /\ UNCHANGED <<clock, lapsed>>
      BY <1>5 DEF ClaimInsert
    <2>3. QED
      BY <2>1, <2>2, ReturnType
  <1>6. ASSUME NEW n \in Node, ClaimRenew(n)
        PROVE  TypeOK'
    <2>1. row' \in Row
      BY <1>6, GrantType DEF ClaimRenew, Row
    <2>2. lease' \in [Node -> Lease]
      BY <1>6, GrantType DEF ClaimRenew
    <2>3. Return(n) /\ UNCHANGED <<clock, lapsed>>
      BY <1>6 DEF ClaimRenew
    <2>4. QED
      BY <2>1, <2>2, <2>3, ReturnType
  <1>7. ASSUME NEW n \in Node, ClaimPreempt(n)
        PROVE  TypeOK'
    <2>1. row' \in Row
      BY <1>7, GrantType DEF ClaimPreempt, Row
    <2>2. lease' \in [Node -> Lease]
      BY <1>7, GrantType DEF ClaimPreempt
    <2>3. Return(n) /\ UNCHANGED <<clock, lapsed>>
      BY <1>7 DEF ClaimPreempt
    <2>4. QED
      BY <2>1, <2>2, <2>3, ReturnType
  <1>8. ASSUME NEW n \in Node, ClaimBlocked(n)
        PROVE  TypeOK'
    BY <1>8 DEF ClaimBlocked, Return
  <1>9. ASSUME NEW n \in Node, CallRelease(n)
        PROVE  TypeOK'
    BY <1>9 DEF CallRelease, StartRelease, Idle, Call, Lease
  <1>10. ASSUME NEW n \in Node, CallHandoffRelease(n)
         PROVE  TypeOK'
    BY <1>10 DEF CallHandoffRelease, StartRelease, Idle, Call, Row
  <1>11. ASSUME NEW n \in Node, ReleaseSelect(n)
         PROVE  TypeOK'
    <2>1. UNCHANGED <<clock, row, lease, lapsed>>
      BY <1>11 DEF ReleaseSelect
    <2>2. CASE Enter(n, "release_delete")
      BY <2>1, <2>2 DEF Enter, Call
    <2>3. CASE Return(n)
      BY <2>1, <2>3, ReturnType
    <2>4. QED
      BY <1>11, <2>2, <2>3 DEF ReleaseSelect
  <1>12. ASSUME NEW n \in Node, ReleaseDelete(n)
         PROVE  TypeOK'
    BY <1>12 DEF ReleaseDelete, Return
  <1>13. ASSUME NEW n \in Node, CallRefresh(n)
         PROVE  TypeOK'
    BY <1>13 DEF CallRefresh, Idle, Call, Lease
  <1>14. ASSUME NEW n \in Node, RefreshUpdate(n)
         PROVE  TypeOK'
    <2>1. row' \in Row
      BY <1>14, GrantType DEF RefreshUpdate, Row
    <2>2. lease' \in [Node -> Lease]
      BY <1>14, GrantType DEF RefreshUpdate
    <2>3. Return(n) /\ UNCHANGED <<clock, lapsed>>
      BY <1>14 DEF RefreshUpdate
    <2>4. QED
      BY <2>1, <2>2, <2>3, ReturnType
  <1>15. ASSUME NEW n \in Node, Fail(n)
         PROVE  TypeOK'
    BY <1>15 DEF Fail, Return
  <1>16. ASSUME NEW n \in Node, Forget(n)
         PROVE  TypeOK'
    BY <1>16 DEF Forget
  <1>17. QED
    BY <1>1, <1>2, <1>3, <1>4, <1>5, <1>6, <1>7, <1>8, <1>9, <1>10, <1>11,
       <1>12, <1>13, <1>14, <1>15, <1>16 DEF Next, Step

THEOREM TypeCorrect == Spec => []TypeOK
  BY TypeInit, TypeStep, PTL DEF Spec

-----------------------------------------------------------------------------
(***************************************************************************)
(* Any deployment.  While no claimant has read a lapsed row, the owner in  *)
(* the row is the only node with a lease, and whoever is about to renew or *)
(* to delete the row still owns it.                                        *)
(***************************************************************************)
OwnerOnly(n) ==
  /\ lease[n] # NoLease => row.owner = n
  /\ call[n].op = "claim_write" /\ call[n].seen.owner = n => row.owner = n
  /\ call[n].op = "claim_write" => ~SeesLapsed(n, call[n].seen)
  /\ call[n].op = "release_delete" => row.owner = n

ReleasedFirst(n) ==
  call[n].op \in {"release", "release_delete"} => lease[n] = NoLease

UnlapsedInv ==
  /\ TypeOK
  /\ \A n \in Node : ReleasedFirst(n)
  /\ ~lapsed => \A n \in Node : OwnerOnly(n)

LEMMA UnlapsedInit == Init => UnlapsedInv
  <1> SUFFICES ASSUME Init
               PROVE  UnlapsedInv
    OBVIOUS
  <1>1. \A n \in Node : call[n].op = "idle" /\ lease[n] = NoLease
    BY DEF Init, Idle
  <1>2. QED
    BY <1>1, TypeInit DEF UnlapsedInv, ReleasedFirst, OwnerOnly

LEMMA UnlapsedStep == UnlapsedInv /\ [Next]_vars => UnlapsedInv'
  <1> SUFFICES ASSUME UnlapsedInv, [Next]_vars
               PROVE  UnlapsedInv'
    OBVIOUS
  <1>t. TypeOK /\ TypeOK'
    BY TypeStep DEF UnlapsedInv
  <1> SUFFICES ASSUME NEW m \in Node
               PROVE  /\ ReleasedFirst(m)'
                      /\ ~lapsed' => OwnerOnly(m)'
    BY <1>t DEF UnlapsedInv
  <1> USE <1>t DEF UnlapsedInv, ReleasedFirst, OwnerOnly, TypeOK, SeesLapsed
  <1>1. CASE Tick
    BY <1>1 DEF Tick
  <1>2. CASE UNCHANGED vars
    BY <1>2 DEF vars
  <1>3. ASSUME NEW n \in Node, CallClaim(n)
        PROVE  ReleasedFirst(m)' /\ (~lapsed' => OwnerOnly(m)')
    BY <1>3 DEF CallClaim, Idle
  <1>4. ASSUME NEW n \in Node, ClaimSelect(n)
        PROVE  ReleasedFirst(m)' /\ (~lapsed' => OwnerOnly(m)')
    BY <1>4 DEF ClaimSelect, Enter, Call
  <1>5. ASSUME NEW n \in Node, ClaimInsert(n)
        PROVE  ReleasedFirst(m)' /\ (~lapsed' => OwnerOnly(m)')
    BY <1>5 DEF ClaimInsert, Return, Grant, Idle, NoRow
  <1>6. ASSUME NEW n \in Node, ClaimRenew(n)
        PROVE  ReleasedFirst(m)' /\ (~lapsed' => OwnerOnly(m)')
    BY <1>6 DEF ClaimRenew, Return, Grant, Idle, NoRow, Row
  <1>7. ASSUME NEW n \in Node, ClaimPreempt(n)
        PROVE  ReleasedFirst(m)' /\ (~lapsed' => OwnerOnly(m)')
    BY <1>7 DEF ClaimPreempt, Return, Grant, Idle
  <1>8. ASSUME NEW n \in Node, ClaimBlocked(n)
        PROVE  ReleasedFirst(m)' /\ (~lapsed' => OwnerOnly(m)')
    BY <1>8 DEF ClaimBlocked, Return, Idle
  <1>9. ASSUME NEW n \in Node, CallRelease(n)
        PROVE  ReleasedFirst(m)' /\ (~lapsed' => OwnerOnly(m)')
    BY <1>9 DEF CallRelease, StartRelease, Idle
  <1>10. ASSUME NEW n \in Node, CallHandoffRelease(n)
         PROVE  ReleasedFirst(m)' /\ (~lapsed' => OwnerOnly(m)')
    BY <1>10 DEF CallHandoffRelease, StartRelease, Idle
  <1>11. ASSUME NEW n \in Node, ReleaseSelect(n)
         PROVE  ReleasedFirst(m)' /\ (~lapsed' => OwnerOnly(m)')
    <2>1. CASE row.owner = n /\ Enter(n, "release_delete")
      BY <1>11, <2>1 DEF ReleaseSelect, Enter, Call
    <2>2. CASE Return(n)
      BY <1>11, <2>2 DEF ReleaseSelect, Return, Idle
    <2>3. QED
      BY <1>11, <2>1, <2>2 DEF ReleaseSelect
  <1>12. ASSUME NEW n \in Node, ReleaseDelete(n)
         PROVE  ReleasedFirst(m)' /\ (~lapsed' => OwnerOnly(m)')
    BY <1>12 DEF ReleaseDelete, Return, Idle, NoRow
  <1>13. ASSUME NEW n \in Node, CallRefresh(n)
         PROVE  ReleasedFirst(m)' /\ (~lapsed' => OwnerOnly(m)')
    BY <1>13 DEF CallRefresh, Idle
  <1>14. ASSUME NEW n \in Node, RefreshUpdate(n)
         PROVE  ReleasedFirst(m)' /\ (~lapsed' => OwnerOnly(m)')
    BY <1>14 DEF RefreshUpdate, Return, Grant, Idle, Row
  <1>15. ASSUME NEW n \in Node, Fail(n)
         PROVE  ReleasedFirst(m)' /\ (~lapsed' => OwnerOnly(m)')
    BY <1>15 DEF Fail, Return, Idle
  <1>16. ASSUME NEW n \in Node, Forget(n)
         PROVE  ReleasedFirst(m)' /\ (~lapsed' => OwnerOnly(m)')
    BY <1>16 DEF Forget
  <1>17. QED
    BY <1>1, <1>2, <1>3, <1>4, <1>5, <1>6, <1>7, <1>8, <1>9, <1>10, <1>11,
       <1>12, <1>13, <1>14, <1>15, <1>16 DEF Next, Step

(* In every deployment there is mutual exclusion until a lease lapses and  *)
(* another node sees it: the INSERT is protected by the primary key.       *)
THEOREM ExclusionBeforeLapse == Spec => []ExclusionUntilLapse
  <1>1. UnlapsedInv => ExclusionUntilLapse
    BY DEF UnlapsedInv, OwnerOnly, ExclusionUntilLapse, MutualExclusion, Holds
  <1>2. QED
    BY <1>1, UnlapsedInit, UnlapsedStep, PTL DEF Spec

-----------------------------------------------------------------------------
(***************************************************************************)
(* Any deployment.  No call carries a clock from the future, so nothing it *)
(* writes outlives a time to live.                                         *)
(***************************************************************************)
PastClock(n) == call[n].now <= clock

TimeInv == TypeOK /\ BoundedLease /\ \A n \in Node : PastClock(n)

LEMMA TimeInit == Init => TimeInv
  <1> SUFFICES ASSUME Init
               PROVE  TimeInv
    OBVIOUS
  <1>0. clock = 0 /\ row.exp = 0 /\ \A n \in Node : call[n].now = 0
    BY DEF Init, Idle, NoRow
  <1>1. ASSUME NEW n \in Node
        PROVE  PastClock(n)
    <2>1. call[n].now = clock /\ clock \in Nat
      BY <1>0
    <2>2. QED
      BY <2>1 DEF PastClock
  <1>2. BoundedLease
    BY <1>0 DEF BoundedLease
  <1>3. QED
    BY <1>1, <1>2, TypeInit DEF TimeInv

LEMMA TimeStep == TimeInv /\ [Next]_vars => TimeInv'
  <1> SUFFICES ASSUME TimeInv, [Next]_vars
               PROVE  TimeInv'
    OBVIOUS
  <1>t. TypeOK /\ TypeOK'
    BY TypeStep DEF TimeInv
  <1> SUFFICES ASSUME NEW m \in Node
               PROVE  BoundedLease' /\ PastClock(m)'
    <2>1. CASE Node = {}
      <3>1. Tick \/ UNCHANGED vars
        BY <2>1 DEF Next
      <3>2. BoundedLease'
        BY <3>1, <1>t DEF Tick, vars, TimeInv, TypeOK, Row, BoundedLease
      <3>3. QED
        BY <2>1, <3>2, <1>t DEF TimeInv
    <2>2. QED
      BY <1>t, <2>1 DEF TimeInv
  <1> USE <1>t DEF TimeInv, PastClock, BoundedLease, TypeOK, Row, Call
  <1>1. CASE Tick
    BY <1>1 DEF Tick
  <1>2. CASE UNCHANGED vars
    BY <1>2 DEF vars
  <1>3. ASSUME NEW n \in Node, CallClaim(n)
        PROVE  BoundedLease' /\ PastClock(m)'
    BY <1>3 DEF CallClaim, Idle, Expiry
  <1>4. ASSUME NEW n \in Node, ClaimSelect(n)
        PROVE  BoundedLease' /\ PastClock(m)'
    BY <1>4 DEF ClaimSelect, Enter, Call, Locked
  <1>5. ASSUME NEW n \in Node, ClaimInsert(n)
        PROVE  BoundedLease' /\ PastClock(m)'
    BY <1>5 DEF ClaimInsert, Return, Grant, Expiry, Idle, NoRow, Row, Call
  <1>6. ASSUME NEW n \in Node, ClaimRenew(n)
        PROVE  BoundedLease' /\ PastClock(m)'
    BY <1>6 DEF ClaimRenew, Return, Grant, Expiry, Idle, NoRow, Row, Call
  <1>7. ASSUME NEW n \in Node, ClaimPreempt(n)
        PROVE  BoundedLease' /\ PastClock(m)'
    BY <1>7 DEF ClaimPreempt, SeesLapsed, Return, Grant, Expiry, Idle, NoRow, Row, Call
  <1>8. ASSUME NEW n \in Node, ClaimBlocked(n)
        PROVE  BoundedLease' /\ PastClock(m)'
    BY <1>8 DEF ClaimBlocked, Return, Idle
  <1>9. ASSUME NEW n \in Node, CallRelease(n)
        PROVE  BoundedLease' /\ PastClock(m)'
    BY <1>9 DEF CallRelease, StartRelease, Idle
  <1>10. ASSUME NEW n \in Node, CallHandoffRelease(n)
         PROVE  BoundedLease' /\ PastClock(m)'
    BY <1>10 DEF CallHandoffRelease, StartRelease, Idle
  <1>11. ASSUME NEW n \in Node, ReleaseSelect(n)
         PROVE  BoundedLease' /\ PastClock(m)'
    <2>1. CASE row.owner = n /\ Enter(n, "release_delete")
      BY <1>11, <2>1 DEF ReleaseSelect, Enter, Locked, Call
    <2>2. CASE Return(n)
      BY <1>11, <2>2 DEF ReleaseSelect, Return, Idle
    <2>3. QED
      BY <1>11, <2>1, <2>2 DEF ReleaseSelect
  <1>12. ASSUME NEW n \in Node, ReleaseDelete(n)
         PROVE  BoundedLease' /\ PastClock(m)'
    BY <1>12 DEF ReleaseDelete, Return, Idle, NoRow
  <1>13. ASSUME NEW n \in Node, CallRefresh(n)
         PROVE  BoundedLease' /\ PastClock(m)'
    BY <1>13 DEF CallRefresh, Idle
  <1>14. ASSUME NEW n \in Node, RefreshUpdate(n)
         PROVE  BoundedLease' /\ PastClock(m)'
    BY <1>14 DEF RefreshUpdate, Locked, Return, Grant, Expiry, Idle, Row, Call
  <1>15. ASSUME NEW n \in Node, Fail(n)
         PROVE  BoundedLease' /\ PastClock(m)'
    BY <1>15 DEF Fail, Return, Idle
  <1>16. ASSUME NEW n \in Node, Forget(n)
         PROVE  BoundedLease' /\ PastClock(m)'
    BY <1>16 DEF Forget
  <1>17. QED
    BY <1>1, <1>2, <1>3, <1>4, <1>5, <1>6, <1>7, <1>8, <1>9, <1>10, <1>11,
       <1>12, <1>13, <1>14, <1>15, <1>16 DEF Next, Step

(* A lock is never held longer than a time to live from now, in any        *)
(* deployment and whatever stale clocks the calls carry.                   *)
THEOREM LeaseIsBounded == Spec => []BoundedLease
  <1>1. TimeInv => BoundedLease
    BY DEF TimeInv
  <1>2. QED
    BY <1>1, TimeInit, TimeStep, PTL DEF Spec

-----------------------------------------------------------------------------
(***************************************************************************)
(* One process.  The call between its SELECT and its write holds the only  *)
(* _LOCK, so what it read is still what the table holds.                   *)
(***************************************************************************)
Serial(n) ==
  /\ call[n].op \in {"claim_write", "release_delete"} => mutex[ProcOf[n]] = n
  /\ call[n].op = "claim_write" => call[n].seen = row
  /\ call[n].op = "release_delete" => row.owner = n

Backed(n) == Holds(n) => row = [owner |-> n, exp |-> lease[n].exp,
                                token |-> lease[n].token]

SerialInv ==
  /\ TimeInv
  /\ \A n \in Node : ReleasedFirst(n) /\ Serial(n) /\ Backed(n)

LEMMA SerialInit == Init => SerialInv
  <1> SUFFICES ASSUME Init
               PROVE  SerialInv
    OBVIOUS
  <1>1. \A n \in Node : call[n].op = "idle" /\ lease[n] = NoLease
    BY DEF Init, Idle
  <1>2. QED
    BY <1>1, TimeInit DEF SerialInv, ReleasedFirst, Serial, Backed, Holds

LEMMA SerialStep ==
  ASSUME OneProcess
  PROVE  SerialInv /\ [Next]_vars => SerialInv'
  <1> SUFFICES ASSUME SerialInv, [Next]_vars
               PROVE  SerialInv'
    OBVIOUS
  <1>t. TypeOK /\ TypeOK' /\ TimeInv /\ TimeInv'
    BY TimeStep DEF SerialInv, TimeInv
  <1> SUFFICES ASSUME NEW m \in Node
               PROVE  ReleasedFirst(m)' /\ Serial(m)' /\ Backed(m)'
    BY <1>t DEF SerialInv
  <1> USE <1>t DEF SerialInv, OneProcess, ReleasedFirst, Serial, Backed, Holds,
                   PastClock, TimeInv, TypeOK
  <1>1. CASE Tick
    BY <1>1 DEF Tick, Lease
  <1>2. CASE UNCHANGED vars
    BY <1>2 DEF vars
  <1>3. ASSUME NEW n \in Node, CallClaim(n)
        PROVE  ReleasedFirst(m)' /\ Serial(m)' /\ Backed(m)'
    BY <1>3 DEF CallClaim, Idle, Expiry
  <1>4. ASSUME NEW n \in Node, ClaimSelect(n)
        PROVE  ReleasedFirst(m)' /\ Serial(m)' /\ Backed(m)'
    BY <1>4 DEF ClaimSelect, Enter, Call, Locked
  <1>5. ASSUME NEW n \in Node, ClaimInsert(n)
        PROVE  ReleasedFirst(m)' /\ Serial(m)' /\ Backed(m)'
    <2> USE <1>5 DEF ClaimInsert, Return, Idle
    <2>1. CASE row = NoRow /\ Grant(n)
               /\ row' = [owner |-> n, exp |-> Expiry(n),
                          token |-> call[n].token]
      <3>1. \A k \in Node : ~Holds(k)
        BY <2>1 DEF NoRow
      <3>2. lease'[n] = [token |-> call[n].token, exp |-> Expiry(n)]
        BY <2>1 DEF Grant
      <3>3. Backed(m)'
        BY <2>1, <3>1, <3>2 DEF Grant
      <3>4. Serial(m)' /\ ReleasedFirst(m)'
        BY <2>1 DEF Grant
      <3>5. QED
        BY <3>3, <3>4
    <2>2. CASE UNCHANGED <<row, lease>>
      BY <2>2
    <2>3. QED
      BY <2>1, <2>2
  <1>6. ASSUME NEW n \in Node, ClaimRenew(n)
        PROVE  ReleasedFirst(m)' /\ Serial(m)' /\ Backed(m)'
    <2>1. row # NoRow /\ row.owner = n
      BY <1>6 DEF ClaimRenew, NoRow
    <2>2. row' = [row EXCEPT !.exp = Expiry(n), !.token = call[n].token]
      BY <1>6, <2>1 DEF ClaimRenew
    <2>3. row' = [owner |-> n, exp |-> Expiry(n), token |-> call[n].token]
      BY <2>1, <2>2 DEF Row
    <2>4. lease' = [lease EXCEPT ![n] = [token |-> call[n].token,
                                         exp |-> Expiry(n)]]
      BY <1>6 DEF ClaimRenew, Grant
    <2>5. Backed(m)'
      <3>1. CASE m = n
        BY <2>3, <2>4, <3>1
      <3>2. CASE m # n
        BY <1>6, <2>1, <2>4, <3>2 DEF ClaimRenew
      <3>3. QED
        BY <3>1, <3>2
    <2>6. Serial(m)' /\ ReleasedFirst(m)'
      BY <1>6, <2>1, <2>3, <2>4 DEF ClaimRenew, Return, Idle
    <2>7. QED
      BY <2>5, <2>6
  <1>7. ASSUME NEW n \in Node, ClaimPreempt(n)
        PROVE  ReleasedFirst(m)' /\ Serial(m)' /\ Backed(m)'
    BY <1>7 DEF ClaimPreempt, SeesLapsed, Return, Grant, Expiry, Idle, NoRow, Row, Call
  <1>8. ASSUME NEW n \in Node, ClaimBlocked(n)
        PROVE  ReleasedFirst(m)' /\ Serial(m)' /\ Backed(m)'
    BY <1>8 DEF ClaimBlocked, Return, Idle
  <1>9. ASSUME NEW n \in Node, CallRelease(n)
        PROVE  ReleasedFirst(m)' /\ Serial(m)' /\ Backed(m)'
    BY <1>9 DEF CallRelease, StartRelease, Idle
  <1>10. ASSUME NEW n \in Node, CallHandoffRelease(n)
         PROVE  ReleasedFirst(m)' /\ Serial(m)' /\ Backed(m)'
    BY <1>10 DEF CallHandoffRelease, StartRelease, Idle
  <1>11. ASSUME NEW n \in Node, ReleaseSelect(n)
         PROVE  ReleasedFirst(m)' /\ Serial(m)' /\ Backed(m)'
    <2>1. CASE row.owner = n /\ Enter(n, "release_delete")
      BY <1>11, <2>1 DEF ReleaseSelect, Enter, Locked, Call
    <2>2. CASE Return(n)
      BY <1>11, <2>2 DEF ReleaseSelect, Return, Idle
    <2>3. QED
      BY <1>11, <2>1, <2>2 DEF ReleaseSelect
  <1>12. ASSUME NEW n \in Node, ReleaseDelete(n)
         PROVE  ReleasedFirst(m)' /\ Serial(m)' /\ Backed(m)'
    BY <1>12 DEF ReleaseDelete, Return, Idle, NoRow
  <1>13. ASSUME NEW n \in Node, CallRefresh(n)
         PROVE  ReleasedFirst(m)' /\ Serial(m)' /\ Backed(m)'
    BY <1>13 DEF CallRefresh, Idle
  <1>14. ASSUME NEW n \in Node, RefreshUpdate(n)
         PROVE  ReleasedFirst(m)' /\ Serial(m)' /\ Backed(m)'
    BY <1>14 DEF RefreshUpdate, Locked, Return, Grant, Expiry, Idle, Row, Call
  <1>15. ASSUME NEW n \in Node, Fail(n)
         PROVE  ReleasedFirst(m)' /\ Serial(m)' /\ Backed(m)'
    BY <1>15 DEF Fail, Return, Idle
  <1>16. ASSUME NEW n \in Node, Forget(n)
         PROVE  ReleasedFirst(m)' /\ Serial(m)' /\ Backed(m)'
    BY <1>16 DEF Forget
  <1>17. QED
    BY <1>1, <1>2, <1>3, <1>4, <1>5, <1>6, <1>7, <1>8, <1>9, <1>10, <1>11,
       <1>12, <1>13, <1>14, <1>15, <1>16 DEF Next, Step

LEMMA SerialAlways ==
  ASSUME OneProcess
  PROVE  Spec => []SerialInv
  BY SerialInit, SerialStep, PTL DEF Spec

(* When all the calls run in one process no two nodes hold a live lease,   *)
(* whatever calls fail, whichever nodes restart and however late a call    *)
(* gets the _LOCK.                                                         *)
THEOREM OneProcessExclusion ==
  ASSUME OneProcess
  PROVE  Spec => []MutualExclusion
  <1>1. SerialInv => MutualExclusion
    BY DEF SerialInv, Backed, MutualExclusion
  <1>2. QED
    BY <1>1, SerialAlways, PTL

(* A node with a live lease finds its own row, with the token it was       *)
(* given, when it comes to refresh or release what it holds.               *)
THEOREM OneProcessBacked ==
  ASSUME OneProcess
  PROVE  Spec => []LeaseBacked
  <1>1. SerialInv => LeaseBacked
    BY DEF SerialInv, Backed, LeaseBacked
  <1>2. QED
    BY <1>1, SerialAlways, PTL

-----------------------------------------------------------------------------
(***************************************************************************)
(* One process.  What a step may do to the row, which is all that the      *)
(* promises about releases and takeovers and the abstract lease speak of.  *)
(***************************************************************************)
Written(n) ==
  /\ row.owner \in {NoNode, n} \/ clock >= row.exp
  /\ row'.owner = n
  /\ row'.exp \in Nat
  /\ row'.exp <= clock + Ttl
  /\ clock' = clock

Removed(n) ==
  /\ row.owner = n
  /\ lease[n] = NoLease
  /\ row' = NoRow
  /\ clock' = clock

RowStep ==
  \/ UNCHANGED <<clock, row>>
  \/ clock' = clock + 1 /\ UNCHANGED row
  \/ \E n \in Node : Written(n) \/ Removed(n)

LEMMA SerialRowStep ==
  ASSUME OneProcess
  PROVE  SerialInv /\ [Next]_vars => RowStep
  <1> SUFFICES ASSUME SerialInv, [Next]_vars
               PROVE  RowStep
    OBVIOUS
  <1>t. TypeOK /\ TypeOK' /\ TimeInv
    BY TypeStep DEF SerialInv, TimeInv
  <1>e. ASSUME NEW n \in Node
        PROVE  Expiry(n) \in Nat /\ Expiry(n) <= clock + Ttl
    BY <1>t DEF TimeInv, TypeOK, PastClock, Expiry, Call
  <1>1. CASE Tick
    BY <1>1 DEF Tick, RowStep
  <1>2. CASE UNCHANGED vars
    BY <1>2 DEF vars, RowStep
  <1>3. ASSUME NEW n \in Node,
               \/ CallClaim(n) \/ CallRelease(n) \/ CallHandoffRelease(n)
               \/ CallRefresh(n) \/ ClaimSelect(n) \/ ClaimBlocked(n)
               \/ ReleaseSelect(n) \/ Fail(n) \/ Forget(n)
        PROVE  RowStep
    BY <1>3 DEF RowStep, CallClaim, CallRelease, CallHandoffRelease,
       CallRefresh, ClaimSelect, ClaimBlocked, ReleaseSelect, Fail, Forget
  <1>4. ASSUME NEW n \in Node, ClaimInsert(n)
        PROVE  RowStep
    <2>1. Written(n) \/ UNCHANGED <<clock, row>>
      BY <1>4, <1>e DEF ClaimInsert, Written, NoRow
    <2>2. QED
      BY <2>1 DEF RowStep
  <1>5. ASSUME NEW n \in Node, ClaimRenew(n)
        PROVE  RowStep
    <2>1. row # NoRow /\ row.owner = n
      BY <1>5 DEF ClaimRenew, NoRow, SerialInv, Serial
    <2>2. Written(n)
      BY <1>5, <1>t, <1>e, <2>1 DEF ClaimRenew, Written, TypeOK, Row
    <2>3. QED
      BY <2>2 DEF RowStep
  <1>6. ASSUME NEW n \in Node, ClaimPreempt(n)
        PROVE  RowStep
    <2>1. row # NoRow /\ clock >= row.exp
      BY <1>6, <1>t DEF ClaimPreempt, SeesLapsed, NoRow, SerialInv, Serial,
         TimeInv, PastClock, TypeOK, Call, Row
    <2>2. Written(n)
      BY <1>6, <1>e, <2>1 DEF ClaimPreempt, Written
    <2>3. QED
      BY <2>2 DEF RowStep
  <1>7. ASSUME NEW n \in Node, ReleaseDelete(n)
        PROVE  RowStep
    <2>1. Removed(n)
      BY <1>7 DEF ReleaseDelete, Removed, SerialInv, Serial, ReleasedFirst
    <2>2. QED
      BY <2>1 DEF RowStep
  <1>8. ASSUME NEW n \in Node, RefreshUpdate(n)
        PROVE  RowStep
    <2>1. CASE row.owner = n /\ row' = [row EXCEPT !.exp = Expiry(n)]
      <3>1. Written(n)
        BY <1>8, <1>t, <1>e, <2>1 DEF RefreshUpdate, Written, TypeOK, Row
      <3>2. QED
        BY <3>1 DEF RowStep
    <2>2. CASE UNCHANGED row
      BY <1>8, <2>2 DEF RefreshUpdate, RowStep
    <2>3. QED
      BY <1>8, <2>1, <2>2 DEF RefreshUpdate
  <1>9. QED
    BY <1>1, <1>2, <1>3, <1>4, <1>5, <1>6, <1>7, <1>8 DEF Next, Step

(* In one process a live lock never passes from one node to another.       *)
THEOREM OneProcessTakeover ==
  ASSUME OneProcess
  PROVE  Spec => NoLiveTakeover
  <1>1. SerialInv /\ [Next]_vars =>
          [ row.owner # NoNode /\ clock < row.exp
              => row'.owner \in {row.owner, NoNode} ]_vars
    <2> SUFFICES ASSUME SerialInv, [Next]_vars, row.owner # NoNode,
                        clock < row.exp
                 PROVE  row'.owner \in {row.owner, NoNode}
      OBVIOUS
    <2>1. clock \in Nat /\ row.exp \in Nat
      BY DEF SerialInv, TimeInv, TypeOK, Row
    <2>2. RowStep
      BY SerialRowStep
    <2>3. QED
      BY <2>1, <2>2 DEF RowStep, Written, Removed, NoRow
  <1>2. QED
    BY <1>1, SerialAlways, PTL DEF Spec, NoLiveTakeover

(* In one process nobody but the holder removes the row of a live lease.   *)
THEOREM OneProcessRelease ==
  ASSUME OneProcess
  PROVE  Spec => NoForeignRelease
  <1>1. SerialInv /\ [Next]_vars =>
          [\A n \in Node : Holds(n) /\ row.owner = n => row' # NoRow]_vars
    <2> SUFFICES ASSUME SerialInv, [Next]_vars, NEW n \in Node, Holds(n),
                        row.owner = n
                 PROVE  row' # NoRow
      OBVIOUS
    <2>1. RowStep
      BY SerialRowStep
    <2>2. QED
      BY <2>1 DEF RowStep, Written, Removed, NoRow, Holds
  <1>2. QED
    BY <1>1, SerialAlways, PTL DEF Spec, NoForeignRelease

(* In one process the lock implements the lease: every step is one of      *)
(* LeaseLock's, or leaves clock, holder and expiry alone.                  *)
THEOREM OneProcessRefinement ==
  ASSUME OneProcess
  PROVE  Spec => ImplementsLease
  <1>1. Init => Abstract!Init
    BY DEF Init, NoRow, Abstract!Init
  <1>2. SerialInv /\ [Next]_vars => [Abstract!Next]_(Abstract!vars)
    <2> SUFFICES ASSUME SerialInv, [Next]_vars
                 PROVE  [Abstract!Next]_(Abstract!vars)
      OBVIOUS
    <2>1. RowStep
      BY SerialRowStep
    <2>2. ASSUME NEW n \in Node, Written(n)
          PROVE  Abstract!Acquire(n)
      BY <2>2 DEF Written, Abstract!Acquire
    <2>3. ASSUME NEW n \in Node, Removed(n)
          PROVE  Abstract!Vacate(n)
      BY <2>3 DEF Removed, NoRow, Abstract!Vacate
    <2>4. QED
      BY <2>1, <2>2, <2>3
         DEF RowStep, Abstract!Next, Abstract!Tick, Abstract!vars
  <1>3. QED
    BY <1>1, <1>2, SerialAlways, PTL DEF Spec, ImplementsLease, Abstract!Spec
=============================================================================
