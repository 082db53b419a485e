------------------------------ MODULE DagLock ------------------------------
(***************************************************************************)
(* The distributed DAG lock of l3_node/task_engine/dag_coordinator.py: one *)
(* row of the SQLite table dag_locks, the calls claim_dag, release_dag and *)
(* refresh_dag_lock that several L3 nodes make on it, and the release that *)
(* auto_handoff_to_peer (dag_handoff.py) ends with.                        *)
(*                                                                         *)
(* Every statement names its dag_id, so the rows are independent and the   *)
(* specification follows one of them.  A call holds _LOCK, a               *)
(* threading.Lock of its PROCESS; sqlite3 opens a transaction only at the  *)
(* INSERT, UPDATE or DELETE, so between the SELECT of a call and its write *)
(* the calls of other processes commit freely.  ProcOf says in which       *)
(* process the calls of a node run: its own (the nodes share the database  *)
(* file), or that of one coordinator which serves the HTTP endpoints       *)
(* dag-claim for all of them.  Calls are synchronous: a node makes one at  *)
(* a time.                                                                 *)
(***************************************************************************)
EXTENDS Integers

CONSTANTS Node,     \* node ids
          Process,  \* operating system processes with their own _LOCK
          ProcOf,   \* the process that runs a node's calls
          Token,    \* lock tokens (uuid4)
          Ttl,      \* JACHIN_COORDINATOR_LOCK_TTL
          MaxTime,  \* bound of the clock
          NoNode, NoToken

ASSUME ProcOfAssumption == ProcOf \in [Node -> Process]
ASSUME TtlAssumption == Ttl \in Nat \ {0}
ASSUME NoneAssumption == NoNode \notin Node /\ NoToken \notin Token

VARIABLES
  clock,   \* time.time()
  row,     \* the row of dag_locks, NoRow when there is none
  mutex,   \* who holds each process's _LOCK
  call,    \* the call each node has in flight, with its local variables
  lease,   \* the token a node was given, and until when it may rely on it
  lapsed   \* history: some claimant has read the expired row of another node

vars == <<clock, row, mutex, call, lease, lapsed>>

Row == [owner: Node \cup {NoNode}, exp: Nat, token: Token \cup {NoToken}]
NoRow == [owner |-> NoNode, exp |-> 0, token |-> NoToken]

Lease == [token: Token \cup {NoToken}, exp: Nat]
NoLease == [token |-> NoToken, exp |-> 0]

Call == [op: {"idle", "claim", "claim_write", "release", "release_delete",
              "refresh"},
         now: Nat, token: Token \cup {NoToken}, seen: Row]
Idle == [op |-> "idle", now |-> 0, token |-> NoToken, seen |-> NoRow]

TypeOK ==
  /\ clock \in Nat
  /\ row \in Row
  /\ mutex \in [Process -> Node \cup {NoNode}]
  /\ call \in [Node -> Call]
  /\ lease \in [Node -> Lease]
  /\ lapsed \in BOOLEAN

Init ==
  /\ clock = 0
  /\ row = NoRow
  /\ mutex = [p \in Process |-> NoNode]
  /\ call = [n \in Node |-> Idle]
  /\ lease = [n \in Node |-> NoLease]
  /\ lapsed = FALSE

-----------------------------------------------------------------------------
(* A token nobody has: uuid4 never repeats one. *)
Fresh(t) ==
  /\ t # row.token
  /\ \A n \in Node : t \notin {call[n].token, call[n].seen.token,
                               lease[n].token}

Locked(n) == mutex[ProcOf[n]] # NoNode

(* The call enters "with _LOCK" and stays in it until its write. *)
Enter(n, op) ==
  /\ ~Locked(n)
  /\ mutex' = [mutex EXCEPT ![ProcOf[n]] = n]
  /\ call' = [call EXCEPT ![n].op = op, ![n].seen = row]

(* It leaves the block and returns, or lets an exception through. *)
Return(n) ==
  /\ call' = [call EXCEPT ![n] = Idle]
  /\ mutex' = [mutex EXCEPT ![ProcOf[n]] = IF @ = n THEN NoNode ELSE @]

(* Mutant: the time to live is subtracted. *)
BugExpiryInThePast(n) == call[n].now - Ttl

(* When a claim or a refresh that reads the clock now runs out. *)
Expiry(n) == call[n].now + Ttl

Grant(n) ==
  lease' = [lease EXCEPT ![n] = [token |-> call[n].token, exp |-> Expiry(n)]]

-----------------------------------------------------------------------------
(* claim_dag.  The clock is read, and the token made, before _LOCK. *)
CallClaim(n) ==
  /\ call[n].op = "idle"
  /\ \E t \in Token :
       /\ Fresh(t)
       /\ call' = [call EXCEPT ![n] = [Idle EXCEPT !.op = "claim",
                                                   !.now = clock,
                                                   !.token = t]]
  /\ UNCHANGED <<clock, row, mutex, lease, lapsed>>

(* Mutant: any row of another node is taken. *)
BugSeesAnyRow(n, r) == r.owner \notin {NoNode, n}

(* now >= existing_expires, on the row of another node *)
SeesLapsed(n, r) == r.owner \notin {NoNode, n} /\ call[n].now >= r.exp

ClaimSelect(n) ==
  /\ call[n].op = "claim"
  /\ Enter(n, "claim_write")
  /\ lapsed' = (lapsed \/ SeesLapsed(n, row))
  /\ UNCHANGED <<clock, row, lease>>

(* Mutant: INSERT OR REPLACE. *)
BugClaimReplaces(n) ==
  /\ call[n].op = "claim_write"
  /\ call[n].seen.owner = NoNode
  /\ row' = [owner |-> n, exp |-> Expiry(n), token |-> call[n].token]
  /\ Grant(n)
  /\ Return(n)
  /\ UNCHANGED <<clock, lapsed>>

(* No row was read: INSERT.  dag_id is the primary key: an INSERT that     *)
(* finds a row raises IntegrityError and the claimant has no lock.         *)
ClaimInsert(n) ==
  /\ call[n].op = "claim_write"
  /\ call[n].seen.owner = NoNode
  /\ \/ /\ row = NoRow
        /\ row' = [owner |-> n, exp |-> Expiry(n), token |-> call[n].token]
        /\ Grant(n)
     \/ row # NoRow /\ UNCHANGED <<row, lease>>
  /\ Return(n)
  /\ UNCHANGED <<clock, lapsed>>

(* Mutant: the renewal returns a new token and does not store it. *)
BugRenewKeepsToken(n) ==
  /\ call[n].op = "claim_write"
  /\ call[n].seen.owner = n
  /\ row' = IF row = NoRow THEN row ELSE [row EXCEPT !.exp = Expiry(n)]
  /\ Grant(n)
  /\ Return(n)
  /\ UNCHANGED <<clock, lapsed>>

(* The row read was the node's own: a new expiry and a new token, with no  *)
(* other condition than the dag_id.                                        *)
ClaimRenew(n) ==
  /\ call[n].op = "claim_write"
  /\ call[n].seen.owner = n
  /\ row' = IF row = NoRow THEN row
            ELSE [row EXCEPT !.exp = Expiry(n), !.token = call[n].token]
  /\ Grant(n)
  /\ Return(n)
  /\ UNCHANGED <<clock, lapsed>>

(* The row read was another node's and had expired: every column is        *)
(* overwritten, with no other condition than the dag_id.                   *)
ClaimPreempt(n) ==
  /\ call[n].op = "claim_write"
  /\ SeesLapsed(n, call[n].seen)
  /\ row' = IF row = NoRow THEN row
            ELSE [owner |-> n, exp |-> Expiry(n), token |-> call[n].token]
  /\ Grant(n)
  /\ Return(n)
  /\ UNCHANGED <<clock, lapsed>>

(* Held by another node and valid: (False, ""). *)
ClaimBlocked(n) ==
  /\ call[n].op = "claim_write"
  /\ call[n].seen.owner \notin {NoNode, n}
  /\ ~SeesLapsed(n, call[n].seen)
  /\ Return(n)
  /\ UNCHANGED <<clock, row, lease, lapsed>>

-----------------------------------------------------------------------------
(* release_dag, by the node that has stopped working on the DAG. *)
StartRelease(n, t) ==
  /\ call' = [call EXCEPT ![n] = [Idle EXCEPT !.op = "release", !.token = t]]
  /\ lease' = [lease EXCEPT ![n] = NoLease]

CallRelease(n) ==
  /\ call[n].op = "idle"
  /\ lease[n] # NoLease
  /\ StartRelease(n, lease[n].token)
  /\ UNCHANGED <<clock, row, mutex, lapsed>>

(* The end of auto_handoff_to_peer: the token comes from list_dag_locks,   *)
(* not from a claim of the caller's.                                       *)
CallHandoffRelease(n) ==
  /\ call[n].op = "idle"
  /\ ~Locked(n)
  /\ row.owner = n
  /\ clock < row.exp
  /\ StartRelease(n, row.token)
  /\ UNCHANGED <<clock, row, mutex, lapsed>>

(* True when there is no row, False when owner or token differ; only a row *)
(* that matches goes on to the DELETE.                                     *)
ReleaseSelect(n) ==
  /\ call[n].op = "release"
  /\ IF row.owner = n /\ row.token = call[n].token
       THEN Enter(n, "release_delete")
       ELSE ~Locked(n) /\ Return(n)
  /\ UNCHANGED <<clock, row, lease, lapsed>>

(* DELETE ... WHERE dag_id=?, whatever the row holds by now. *)
ReleaseDelete(n) ==
  /\ call[n].op = "release_delete"
  /\ row' = NoRow
  /\ Return(n)
  /\ UNCHANGED <<clock, lease, lapsed>>

-----------------------------------------------------------------------------
(* refresh_dag_lock: the clock is read before _LOCK; one UPDATE compares   *)
(* owner and token and moves the expiry.                                   *)
CallRefresh(n) ==
  /\ call[n].op = "idle"
  /\ lease[n] # NoLease
  /\ call' = [call EXCEPT ![n] = [Idle EXCEPT !.op = "refresh",
                                              !.now = clock,
                                              !.token = lease[n].token]]
  /\ UNCHANGED <<clock, row, mutex, lease, lapsed>>

(* Mutant: each refresh adds a time to live to the expiry in the row. *)
BugRefreshAccumulates(n) ==
  /\ call[n].op = "refresh"
  /\ ~Locked(n)
  /\ row.owner = n /\ row.token = call[n].token
  /\ row' = [row EXCEPT !.exp = @ + Ttl]
  /\ lease' = [lease EXCEPT ![n].exp = row.exp + Ttl]
  /\ Return(n)
  /\ UNCHANGED <<clock, lapsed>>

RefreshUpdate(n) ==
  /\ call[n].op = "refresh"
  /\ ~Locked(n)
  /\ IF row.owner = n /\ row.token = call[n].token
       THEN /\ row' = [row EXCEPT !.exp = Expiry(n)]
            /\ Grant(n)
       ELSE /\ lease' = [lease EXCEPT ![n] = NoLease]
            /\ UNCHANGED row
  /\ Return(n)
  /\ UNCHANGED <<clock, lapsed>>

-----------------------------------------------------------------------------
(* The call fails before its commit: "database is locked" after the 8 s of *)
(* sqlite3.connect, or the process dies and SQLite rolls back.             *)
Fail(n) ==
  /\ call[n].op # "idle"
  /\ Return(n)
  /\ UNCHANGED <<clock, row, lease, lapsed>>

(* The node restarts, or the answer of a claim never reaches it. *)
Forget(n) ==
  /\ call[n].op = "idle"
  /\ lease[n] # NoLease
  /\ lease' = [lease EXCEPT ![n] = NoLease]
  /\ UNCHANGED <<clock, row, mutex, call, lapsed>>

Tick ==
  /\ clock < MaxTime
  /\ clock' = clock + 1
  /\ UNCHANGED <<row, mutex, call, lease, lapsed>>

Step(n) ==
  \/ ClaimSelect(n) \/ ClaimInsert(n) \/ ClaimRenew(n)
  \/ ClaimPreempt(n) \/ ClaimBlocked(n)
  \/ ReleaseSelect(n) \/ ReleaseDelete(n)
  \/ RefreshUpdate(n)

Next ==
  \/ Tick
  \/ \E n \in Node :
       \/ CallClaim(n) \/ CallRelease(n) \/ CallHandoffRelease(n)
       \/ CallRefresh(n)
       \/ Step(n)
       \/ Fail(n) \/ Forget(n)

Spec == Init /\ [][Next]_vars

-----------------------------------------------------------------------------
(* Node n may still rely on the lock it was given. *)
Holds(n) == lease[n] # NoLease /\ clock < lease[n].exp

(* All the calls run in one process, as when one coordinator serves the    *)
(* HTTP endpoints for every node.                                          *)
OneProcess == \A m, n \in Node : ProcOf[m] = ProcOf[n]

(***************************************************************************)
(* Two nodes never hold a live lease on the same DAG: what claim_dag,      *)
(* release_dag and refresh_dag_lock are for.                               *)
(***************************************************************************)
MutualExclusion == \A m, n \in Node : Holds(m) /\ Holds(n) => m = n

(***************************************************************************)
(* A node that holds a live lease is in the table with the token it was    *)
(* given and the same expiry: it can refresh and release what it holds,    *)
(* and get_dag_owner, list_dag_locks and the other claimants see it.       *)
(***************************************************************************)
LeaseBacked ==
  \A n \in Node : Holds(n) => row = [owner |-> n, exp |-> lease[n].exp,
                                      token |-> lease[n].token]

(***************************************************************************)
(* The docstring of claim_dag: False when "held by another node and not    *)
(* expired".  No step gives another owner to a row whose lease is live.    *)
(***************************************************************************)
NoLiveTakeover ==
  [][ row.owner # NoNode /\ clock < row.exp
        => row'.owner \in {row.owner, NoNode} ]_vars

(***************************************************************************)
(* The docstring of release_dag: the token keeps a node from releasing     *)
(* another's lock.  The row of a node that holds a live lease goes away    *)
(* only when that node releases it.                                        *)
(***************************************************************************)
NoForeignRelease ==
  [][ \A n \in Node : Holds(n) /\ row.owner = n => row' # NoRow ]_vars

(***************************************************************************)
(* In every deployment: as long as no claimant has read the expired row of *)
(* another node, there is mutual exclusion.  The gap between SELECT and    *)
(* UPDATE opens only once a lease has lapsed.                              *)
(***************************************************************************)
ExclusionUntilLapse == ~lapsed => MutualExclusion

(***************************************************************************)
(* In every deployment, whatever stale clock a write carries, no row       *)
(* outlives a time to live from now: a holder that dies blocks the DAG for *)
(* at most that long.                                                      *)
(***************************************************************************)
BoundedLease == row.exp <= clock + Ttl

(* The abstract lease, with the row as the holder's record. *)
Abstract == INSTANCE LeaseLock WITH holder <- row.owner, until <- row.exp

(***************************************************************************)
(* The lock implements the lease of LeaseLock (in one process).            *)
(***************************************************************************)
ImplementsLease == Abstract!Spec
=============================================================================
