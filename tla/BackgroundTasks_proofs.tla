----------------------- MODULE BackgroundTasks_proofs -----------------------
(***************************************************************************)
(* Proofs about BackgroundTasks, for any tasks, any number of workers and  *)
(* any capacity of the queue: types, and that no task is run twice however *)
(* often the process crashes and starts again; that a rejected task is     *)
(* never run, that no record is stuck, and that the record of a task that  *)
(* has ended stays.                                                        *)
(*                                                                         *)
(* The first inductive invariant says where a task that has not been run can be: *)
(* in the queue, in the table, in a write to the table still to come, or   *)
(* with one worker that has not begun.  A worker that has a task and finds *)
(* its row still there is about to delete it.  A task that is anywhere has *)
(* a record, or is about to get one, so its id is never submitted again.   *)
(*                                                                         *)
(* The second, RecordInv, is about the records.  A process that dies       *)
(* between two writes leaves one torn or out of date, so it speaks of what *)
(* the record will say once the running section has made its writes        *)
(* (Settled), which a write does not change and the start of a section     *)
(* changes for one task.                                                   *)
(***************************************************************************)
EXTENDS BackgroundTasks, SequenceTheorems, TLAPS

Held(t) == \E w \in Worker : Holds(w, t)

(* A write of the running section will insert the row of t. *)
Pends(t) == \E i \in DOMAIN todo : todo[i].kind = "pend" /\ todo[i].task = t

(* The next write is of kind k, for t. *)
Next1(k, t) == todo # <<>> /\ Head(todo).kind = k /\ Head(todo).task = t

OpsOK ==
  \A i \in DOMAIN todo :
    /\ todo[i].kind = "record" => todo[i].status \in Status \ {"none"}
    /\ todo[i].kind = "answer" => todo[i].status \in {"queued", "rejected"}

WorkersOK ==
  /\ \A w \in Worker :
       worker[w].pc \notin {"off", "idle"} => worker[w].task \in Task
  /\ phase \in {"reconciling", "recovering"} =>
       \A w \in Worker : worker[w].pc \in {"off", "idle"}

Types == TypeOK /\ OpsOK /\ WorkersOK

(* An id that is in use has a record, or is about to get one. *)
Known ==
  /\ \A t \in Task : Queued(t) \/ Held(t) \/ Pends(t) =>
       disk[t] # "none" \/ Next1("empty", t)
  /\ \A t \in Task : t \in pending \/ starts[t] > 0 => disk[t] # "none"

(* A task is in one place. *)
OnePlace ==
  /\ \A i, j \in DOMAIN queue : queue[i] = queue[j] => i = j
  /\ \A t \in Task : Held(t) => ~Queued(t) /\ ~Pends(t)
  /\ \A v, w \in Worker : \A t \in Task : Holds(v, t) /\ Holds(w, t) => v = w
  /\ \A t \in Task : Held(t) /\ t \in pending => Next1("unpend", t)

(* A task that may still be given to the agent has not been. *)
NotRun ==
  /\ \A t \in Task : Queued(t) \/ Pends(t) \/ t \in pending => starts[t] = 0
  /\ \A w \in Worker : worker[w].pc = "started" => starts[worker[w].task] = 0
  /\ AtMostOnce

OnceInv == Types /\ Known /\ OnePlace /\ NotRun

-----------------------------------------------------------------------------
(* Sequences without their first element. *)
LEMMA TailShift ==
  ASSUME NEW S, NEW s \in Seq(S), s # <<>>
  PROVE  /\ Head(s) = s[1] /\ 1 \in DOMAIN s /\ Head(s) \in S
         /\ Tail(s) \in Seq(S)
         /\ \A i \in DOMAIN Tail(s) : i + 1 \in DOMAIN s /\ Tail(s)[i] = s[i + 1]
  OBVIOUS

(* A worker that goes on keeps its task, and the others stay. *)
LEMMA PcMoved ==
  ASSUME NEW f \in [Worker -> [pc: WorkerPc, task: Task \cup {NoTask}]],
         NEW g, NEW w \in Worker, NEW pc \in WorkerPc,
         g = [f EXCEPT ![w].pc = pc]
  PROVE  /\ g \in [Worker -> [pc: WorkerPc, task: Task \cup {NoTask}]]
         /\ g[w].pc = pc
         /\ \A v \in Worker : g[v].task = f[v].task
         /\ \A v \in Worker \ {w} : g[v] = f[v]
  OBVIOUS

(* What one write does to the files, the table and the answers. *)
LEMMA WriteEffect ==
  ASSUME Types, Write, NEW u, u = Head(todo)
  PROVE  /\ u \in WriteOp /\ todo' = Tail(todo) /\ todo # <<>>
         /\ \A t \in Task : disk'[t] =
              IF u.task = t /\ u.kind = "empty" THEN "torn"
              ELSE IF u.task = t /\ u.kind = "record" THEN u.status ELSE disk[t]
         /\ pending' = CASE u.kind = "pend" -> pending \cup {u.task}
                         [] u.kind = "unpend" -> pending \ {u.task}
                         [] OTHER -> pending
         /\ UNCHANGED <<phase, reg, queue, worker, starts, shown>>
  <1>1. u \in WriteOp /\ todo # <<>> /\ todo' = Tail(todo)
    BY TailShift DEF Types, TypeOK, Write
  <1> QED BY <1>1 DEF Types, TypeOK, Write, WriteOp, stored

(* A section that leaves the table alone, and in which no worker gets a    *)
(* task, leaves every task where it is.                                    *)
LEMMA OnePlaceKept ==
  ASSUME OnePlace, todo = <<>>, queue' = queue, pending' = pending,
         \A v \in Worker : \A t \in Task : Holds(v, t)' => Holds(v, t),
         \A t \in Task : ~Pends(t)'
  PROVE  OnePlace'
  <1>1. \A t \in Task : Held(t)' => Held(t)
    BY DEF Held
  <1>2. \A t \in Task : Queued(t)' <=> Queued(t)
    BY DEF Queued
  <1>3. \A t \in Task : Held(t) => t \notin pending
    BY DEF OnePlace, Next1
  <1> QED BY <1>1, <1>2, <1>3 DEF OnePlace

-----------------------------------------------------------------------------
LEMMA WriteStep == OnceInv /\ Write => OnceInv'
  <1> SUFFICES ASSUME OnceInv, Write PROVE OnceInv'
    OBVIOUS
  <1> DEFINE u == Head(todo)
  <1>1. /\ u \in WriteOp /\ todo' = Tail(todo) /\ todo # <<>>
        /\ \A t \in Task : disk'[t] =
             IF u.task = t /\ u.kind = "empty" THEN "torn"
             ELSE IF u.task = t /\ u.kind = "record" THEN u.status ELSE disk[t]
        /\ pending' = CASE u.kind = "pend" -> pending \cup {u.task}
                        [] u.kind = "unpend" -> pending \ {u.task}
                        [] OTHER -> pending
        /\ UNCHANGED <<phase, reg, queue, worker, starts, shown>>
    BY WriteEffect DEF OnceInv
  <1>2. /\ u = todo[1] /\ 1 \in DOMAIN todo
        /\ todo' \in Seq(WriteOp)
        /\ \A i \in DOMAIN todo' : i + 1 \in DOMAIN todo /\ todo'[i] = todo[i + 1]
    BY <1>1, TailShift DEF OnceInv, Types, TypeOK
  <1>3. \A t \in Task : /\ Pends(t)' => Pends(t)
                        /\ Queued(t)' <=> Queued(t)
                        /\ Held(t)' <=> Held(t)
                        /\ u.kind = "pend" /\ u.task = t => Pends(t)
    BY <1>1, <1>2 DEF Pends, Queued, Held, Holds
  <1>4. Types'
    <2>1. /\ u.kind = "record" => u.status \in Status \ {"none"}
          /\ u.kind = "answer" => u.status \in {"queued", "rejected"}
      BY <1>2 DEF OnceInv, Types, OpsOK
    <2>2. /\ disk' \in [Task -> Status \cup {"torn"}]
          /\ pending' \in SUBSET Task
          /\ zombies' \in SUBSET Task
          /\ reply' \in [Task -> {"none", "queued", "rejected"}]
      <3>1. u.task \in Task
        BY <1>1 DEF WriteOp
      <3>2. CASE u.kind = "empty"
        BY <1>1, <3>1, <3>2 DEF OnceInv, Types, TypeOK, Write
      <3>3. CASE u.kind = "record"
        BY <1>1, <2>1, <3>1, <3>3 DEF OnceInv, Types, TypeOK, Write
      <3>4. CASE u.kind \in {"pend", "unpend", "zombie"}
        BY <1>1, <3>1, <3>4 DEF OnceInv, Types, TypeOK, Write
      <3>5. CASE u.kind = "answer"
        BY <1>1, <2>1, <3>1, <3>5 DEF OnceInv, Types, TypeOK, Write, stored
      <3> QED BY <1>1, <3>2, <3>3, <3>4, <3>5 DEF WriteOp
    <2>3. OpsOK'
      BY <1>2 DEF OnceInv, Types, OpsOK
    <2> QED BY <1>1, <1>2, <2>2, <2>3 DEF OnceInv, Types, TypeOK, WorkersOK
  <1>5. Known'
    <2>1. \A t \in Task : disk[t] # "none" \/ Next1("empty", t) => disk'[t] # "none"
      BY <1>1, <1>2 DEF OnceInv, Types, OpsOK, Next1
    <2>2. \A t \in Task : t \in pending' => t \in pending \/ Pends(t)
      BY <1>1, <1>3
    <2> QED BY <1>1, <1>3, <2>1, <2>2 DEF OnceInv, Known
  <1>6. OnePlace'
    <2>1. \A t \in Task : Held(t) => t \notin pending'
      <3> SUFFICES ASSUME NEW t \in Task, Held(t), t \in pending' PROVE FALSE
        OBVIOUS
      <3>1. ~(u.kind = "pend" /\ u.task = t)
        BY <1>3 DEF OnceInv, OnePlace
      <3>2. t \in pending
        BY <1>1, <3>1
      <3>3. u.kind = "unpend" /\ u.task = t
        BY <3>2 DEF OnceInv, OnePlace, Next1
      <3> QED BY <1>1, <3>3
    <2>2. \A v \in Worker : \A t \in Task : Holds(v, t)' <=> Holds(v, t)
      BY <1>1 DEF Holds
    <2> QED BY <1>1, <1>3, <2>1, <2>2 DEF OnceInv, OnePlace
  <1>7. NotRun'
    <2>1. \A t \in Task : t \in pending' => t \in pending \/ Pends(t)
      BY <1>1, <1>3
    <2> QED BY <1>1, <1>3, <2>1 DEF OnceInv, NotRun, AtMostOnce
  <1> QED BY <1>4, <1>5, <1>6, <1>7 DEF OnceInv

-----------------------------------------------------------------------------
LEMMA SubmitStep == ASSUME NEW t \in Task, OnceInv, Submit(t) PROVE OnceInv'
  <1>1. todo = <<>> /\ starts[t] = 0 /\ t \notin pending
        /\ ~Queued(t) /\ ~Held(t)
    BY DEF Submit, Between, OnceInv, Types, TypeOK, Known, Next1
  <1>2. /\ \A x \in Task : Queued(x)' => Queued(x) \/ x = t
        /\ \A i, j \in DOMAIN queue' : queue'[i] = queue'[j] => i = j
        /\ queue' \in Seq(Task)
    <2>1. CASE queue' = Append(queue, t)
      <3>1. \A i \in DOMAIN queue' :
              queue'[i] = IF i = Len(queue) + 1 THEN t ELSE queue[i]
        BY <2>1 DEF OnceInv, Types, TypeOK
      <3>2. DOMAIN queue' = 1..(Len(queue) + 1) /\ DOMAIN queue = 1..Len(queue)
        BY <2>1 DEF OnceInv, Types, TypeOK
      <3>3. Len(queue) \in Nat
        BY DEF OnceInv, Types, TypeOK
      <3>4. \A i \in DOMAIN queue : queue[i] # t
        BY <1>1 DEF Queued
      <3> QED BY <2>1, <3>1, <3>2, <3>3, <3>4 DEF OnceInv, OnePlace, Queued, Types, TypeOK
    <2>2. CASE queue' = queue
      BY <2>2 DEF OnceInv, OnePlace, Queued, Types, TypeOK
    <2> QED BY <2>1, <2>2 DEF Submit
  <1>3. /\ todo' \in Seq(WriteOp)
        /\ todo' # <<>> /\ Head(todo') = Empty(t)
        /\ \A i \in DOMAIN todo' :
             todo'[i] \in {Empty(t), Record(t, "queued"), Pend(t), Unpend(t),
                           Answer(t, "queued"), Answer(t, "rejected")}
    <2>1. {Empty(t), Record(t, "queued"), Pend(t), Unpend(t),
           Answer(t, "queued"), Answer(t, "rejected")} \subseteq WriteOp
      BY DEF Op, Empty, Record, Pend, Unpend, Answer, WriteOp, Status
    <2>2. CASE todo' = <<Empty(t), Record(t, "queued"), Pend(t),
                         Answer(t, "queued")>>
      BY <2>1, <2>2
    <2>3. CASE todo' = <<Empty(t), Record(t, "queued"), Pend(t), Unpend(t),
                         Answer(t, "rejected")>>
      BY <2>1, <2>3
    <2> QED BY <2>2, <2>3 DEF Submit
  <1>4. OpsOK' /\ \A x \in Task : Pends(x)' => x = t
    BY <1>3 DEF OpsOK, Pends, Op, Empty, Record, Pend, Unpend, Answer, Status
  <1>5. /\ UNCHANGED <<phase, worker, disk, pending, starts, zombies, reply, shown>>
        /\ reg' \in [Task -> Status]
    BY DEF Submit, stored, history, OnceInv, Types, TypeOK, Status
  <1>6. Types'
    BY <1>2, <1>3, <1>4, <1>5 DEF OnceInv, Types, TypeOK, WorkersOK
  <1>7. \A x \in Task : Held(x)' <=> Held(x)
    BY <1>5 DEF Held, Holds
  <1>8. Known'
    <2>1. \A x \in Task \ {t} : Queued(x) \/ Held(x) => disk[x] # "none"
      BY <1>1 DEF OnceInv, Known, Next1
    <2>2. Next1("empty", t)'
      BY <1>3 DEF Next1, Op, Empty
    <2> QED BY <1>2, <1>4, <1>5, <1>7, <2>1, <2>2 DEF OnceInv, Known
  <1>9. OnePlace'
    <2>1. \A x \in Task : Held(x) => x \notin pending
      BY <1>1 DEF OnceInv, OnePlace, Next1
    <2>2. \A v \in Worker : \A x \in Task : Holds(v, x)' <=> Holds(v, x)
      BY <1>5 DEF Holds
    <2> QED BY <1>1, <1>2, <1>4, <1>5, <1>7, <2>1, <2>2 DEF OnceInv, OnePlace
  <1>10. NotRun'
    BY <1>1, <1>2, <1>4, <1>5 DEF OnceInv, NotRun, AtMostOnce
  <1> QED BY <1>6, <1>8, <1>9, <1>10 DEF OnceInv

LEMMA FlushStep == OnceInv /\ Flush => OnceInv'
  <1> SUFFICES ASSUME OnceInv, Flush PROVE OnceInv'
    OBVIOUS
  <1>1. /\ todo = <<>> /\ queue' = <<>>
        /\ UNCHANGED <<reg, worker, disk, pending, zombies, reply, starts, shown>>
        /\ phase' = "stopping"
    BY DEF Flush, Between, stored, history
  <1>2. /\ queue \in Seq(Task) /\ DOMAIN todo' = DOMAIN queue
        /\ \A i \in DOMAIN queue : todo'[i] = Pend(queue[i]) /\ queue[i] \in Task
    BY DEF Flush, OnceInv, Types, TypeOK
  <1>3. todo' \in Seq(WriteOp)
    <2>1. \A i \in 1..Len(queue) : Pend(queue[i]) \in WriteOp
      BY <1>2 DEF Pend, Op, WriteOp, Status
    <2>2. Len(queue) \in Nat /\ todo' = [i \in 1..Len(queue) |-> Pend(queue[i])]
      BY <1>2 DEF Flush
    <2> QED BY <2>1, <2>2
  <1>4. \A t \in Task : (Pends(t)' <=> Queued(t)) /\ ~Queued(t)' /\ (Held(t)' <=> Held(t))
    BY <1>1, <1>2 DEF Pends, Queued, Pend, Op, Held, Holds
  <1>5. OpsOK'
    BY <1>2 DEF OpsOK, Pend, Op
  <1>6. Types'
    BY <1>1, <1>3, <1>5 DEF OnceInv, Types, TypeOK, WorkersOK, Phase
  <1>7. Known'
    BY <1>1, <1>4 DEF OnceInv, Known, Next1
  <1>8. OnePlace'
    <2>1. \A t \in Task : Held(t) => t \notin pending
      BY <1>1 DEF OnceInv, OnePlace, Next1
    <2>2. \A v \in Worker : \A t \in Task : Holds(v, t)' <=> Holds(v, t)
      BY <1>1 DEF Holds
    <2> QED BY <1>1, <1>4, <2>1, <2>2 DEF OnceInv, OnePlace
  <1>9. NotRun'
    BY <1>1, <1>4 DEF OnceInv, NotRun, AtMostOnce
  <1> QED BY <1>6, <1>7, <1>8, <1>9 DEF OnceInv

-----------------------------------------------------------------------------
(* A section that Settle starts: two writes, of the record of w's task. *)
LEMMA SettleStep ==
  ASSUME NEW w \in Worker, NEW s \in Terminal, NEW pc \in WorkerPc,
         OnceInv, todo = <<>>, worker[w].pc \notin {"off", "idle"},
         Settle(w, s, pc), pc # "started",
         UNCHANGED <<phase, queue, disk, pending, zombies, reply, starts, shown>>,
         pc \notin {"off", "idle"} => phase \notin {"reconciling", "recovering"}
  PROVE  OnceInv'
  <1> DEFINE t == worker[w].task
  <1>1. t \in Task
    BY DEF OnceInv, Types, WorkersOK
  <1>2. /\ todo' = <<Empty(t), Record(t, s)>>
        /\ Empty(t) \in WriteOp /\ Record(t, s) \in WriteOp
    BY <1>1 DEF Settle, Empty, Record, Op, WriteOp, Status, Terminal
  <1>3. /\ todo' \in Seq(WriteOp)
        /\ OpsOK'
        /\ \A x \in Task : ~Pends(x)'
    BY <1>2 DEF OpsOK, Pends, Empty, Record, Op, Status, Terminal
  <1>4. /\ worker' \in [Worker -> [pc: WorkerPc, task: Task \cup {NoTask}]]
        /\ worker'[w].pc = pc
        /\ \A v \in Worker : worker'[v].task = worker[v].task
        /\ \A v \in Worker \ {w} : worker'[v] = worker[v]
    BY PcMoved DEF OnceInv, Types, TypeOK, Settle
  <1>5. WorkersOK'
    BY <1>1, <1>4 DEF OnceInv, Types, WorkersOK
  <1>6. reg' \in [Task -> Status]
    BY <1>1 DEF OnceInv, Types, TypeOK, Settle, Status
  <1>7. Types'
    BY <1>3, <1>4, <1>5, <1>6 DEF OnceInv, Types, TypeOK
  <1>8. \A v \in Worker : \A x \in Task : Holds(v, x)' => Holds(v, x)
    BY <1>4 DEF Holds
  <1>9. \A x \in Task : (Held(x)' => Held(x)) /\ (Queued(x)' <=> Queued(x))
    BY <1>8 DEF Held, Queued
  <1>10. Known'
    BY <1>3, <1>9 DEF OnceInv, Known, Next1
  <1>11. OnePlace'
    BY <1>3, <1>8, OnePlaceKept DEF OnceInv
  <1>12. NotRun'
    BY <1>3, <1>4, <1>9 DEF OnceInv, NotRun, AtMostOnce
  <1> QED BY <1>7, <1>10, <1>11, <1>12 DEF OnceInv

LEMMA CompleteStep == ASSUME NEW w \in Worker, OnceInv, Complete(w) PROVE OnceInv'
  BY SettleStep, "completed" \in Terminal, "announcing" \in WorkerPc
     DEF Complete, Between, stored, history, Terminal, WorkerPc

LEMMA FailJobStep == ASSUME NEW w \in Worker, OnceInv, FailJob(w) PROVE OnceInv'
  BY SettleStep, "failed" \in Terminal, "ending" \in WorkerPc
     DEF FailJob, Between, stored, history, Terminal, WorkerPc

(* A worker that gives its task up, or ends, without a write. *)
LEMMA DropStep ==
  ASSUME NEW w \in Worker, NEW f \in {Off, Free}, OnceInv, todo = <<>>,
         worker' = [worker EXCEPT ![w] = f],
         UNCHANGED <<phase, reg, queue, todo, disk, pending, zombies, reply,
                     starts, shown>>
  PROVE  OnceInv'
  <1>1. /\ f.pc \in {"off", "idle"}
        /\ worker' \in [Worker -> [pc: WorkerPc, task: Task \cup {NoTask}]]
    BY DEF OnceInv, Types, TypeOK, Off, Free, WorkerPc
  <1>2. \A v \in Worker : worker'[v] = IF v = w THEN f ELSE worker[v]
    BY DEF OnceInv, Types, TypeOK
  <1>3. \A v \in Worker : \A x \in Task : Holds(v, x)' => Holds(v, x)
    BY <1>1, <1>2 DEF Holds
  <1>4. \A x \in Task : (Held(x)' => Held(x)) /\ (Queued(x)' <=> Queued(x))
                        /\ ~Pends(x)'
    BY <1>3 DEF Held, Queued, Pends
  <1>5. Types'
    BY <1>1, <1>2 DEF OnceInv, Types, TypeOK, OpsOK, WorkersOK
  <1>6. Known'
    BY <1>4 DEF OnceInv, Known, Next1
  <1>7. OnePlace'
    BY <1>3, <1>4, OnePlaceKept DEF OnceInv
  <1>8. NotRun'
    BY <1>1, <1>2, <1>4 DEF OnceInv, NotRun, AtMostOnce
  <1> QED BY <1>5, <1>6, <1>7, <1>8 DEF OnceInv

LEMMA DoneStep == ASSUME NEW w \in Worker, OnceInv, Done(w) PROVE OnceInv'
  BY DropStep DEF Done, Between, stored, history

LEMMA CancelStep == ASSUME NEW w \in Worker, OnceInv, Cancel(w) PROVE OnceInv'
  <1>1. CASE worker[w].pc \in {"running", "announcing"}
    BY <1>1, SettleStep, "cancelled" \in Terminal, "off" \in WorkerPc
       DEF Cancel, Between, stored, history, Terminal, WorkerPc
  <1>2. CASE worker[w].pc \notin {"running", "announcing"}
    BY <1>2, DropStep DEF Cancel, Between, stored, history
  <1> QED BY <1>1, <1>2

(* The agent is run on the task: for the first time. *)
LEMMA BeginStep == ASSUME NEW w \in Worker, OnceInv, Begin(w) PROVE OnceInv'
  <1> DEFINE t == worker[w].task
  <1>1. /\ t \in Task /\ Holds(w, t) /\ todo = <<>> /\ starts[t] = 0
    BY DEF Begin, Between, OnceInv, Types, WorkersOK, NotRun, Holds
  <1>2. /\ worker' \in [Worker -> [pc: WorkerPc, task: Task \cup {NoTask}]]
        /\ worker'[w].pc = "running"
        /\ \A v \in Worker : worker'[v].task = worker[v].task
        /\ \A v \in Worker \ {w} : worker'[v] = worker[v]
    BY PcMoved, "running" \in WorkerPc DEF OnceInv, Types, TypeOK, Begin, WorkerPc
  <1>3. /\ starts' \in [Task -> Nat] /\ starts'[t] = 1
        /\ \A x \in Task \ {t} : starts'[x] = starts[x]
    BY <1>1 DEF Begin, OnceInv, Types, TypeOK
  <1>4. UNCHANGED <<phase, reg, queue, todo, disk, pending, zombies, reply, shown>>
    BY DEF Begin, stored
  <1>5. Types'
    BY <1>1, <1>2, <1>3, <1>4
       DEF OnceInv, Types, TypeOK, OpsOK, WorkersOK, Begin, Between
  <1>6. \A v \in Worker : \A x \in Task : Holds(v, x)' => Holds(v, x)
    BY <1>1, <1>2 DEF Holds
  <1>7. \A x \in Task : (Held(x)' => Held(x)) /\ (Queued(x)' <=> Queued(x))
                        /\ ~Pends(x)'
    BY <1>1, <1>4, <1>6 DEF Held, Queued, Pends
  <1>8. Known'
    <2>1. disk[t] # "none"
      BY <1>1 DEF OnceInv, Known, Held, Next1
    <2> QED BY <1>1, <1>3, <1>4, <1>7, <2>1 DEF OnceInv, Known, Next1
  <1>9. OnePlace'
    BY <1>1, <1>4, <1>6, <1>7, OnePlaceKept DEF OnceInv
  <1>10. NotRun'
    <2>1. ~Queued(t) /\ t \notin pending
      BY <1>1 DEF OnceInv, OnePlace, Held, Next1
    <2>2. \A v \in Worker \ {w} : worker[v].pc = "started" => worker[v].task # t
      BY <1>1 DEF OnceInv, OnePlace, Holds
    <2>3. \A v \in Worker : worker[v].pc = "started" => worker[v].task \in Task
      BY DEF OnceInv, Types, WorkersOK
    <2> QED BY <1>2, <1>3, <1>4, <1>7, <2>1, <2>2, <2>3 DEF OnceInv, NotRun, AtMostOnce
  <1> QED BY <1>5, <1>8, <1>9, <1>10 DEF OnceInv

(* The task goes from the head of the queue to the worker, and the first   *)
(* write deletes its row.                                                  *)
LEMMA TakeStep == ASSUME NEW w \in Worker, OnceInv, Take(w) PROVE OnceInv'
  <1>0. PICK t \in Task : t = Head(queue)
    BY TailShift DEF Take, OnceInv, Types, TypeOK
  <1>1. /\ queue # <<>> /\ t \in Task /\ t = queue[1] /\ 1 \in DOMAIN queue
        /\ queue' = Tail(queue) /\ queue' \in Seq(Task)
        /\ \A i \in DOMAIN queue' : i + 1 \in DOMAIN queue /\ queue'[i] = queue[i + 1]
        /\ DOMAIN queue' \subseteq Nat \ {0}
    BY <1>0, TailShift DEF Take, OnceInv, Types, TypeOK
  <1>2. Queued(t) /\ ~Held(t) /\ starts[t] = 0 /\ todo = <<>>
    BY <1>1 DEF OnceInv, OnePlace, NotRun, Queued, Take, Between
  <1>3. /\ worker' \in [Worker -> [pc: WorkerPc, task: Task \cup {NoTask}]]
        /\ worker'[w] = [pc |-> "started", task |-> t]
        /\ \A v \in Worker \ {w} : worker'[v] = worker[v]
    BY <1>0, <1>1 DEF Take, OnceInv, Types, TypeOK, WorkerPc
  <1>4. /\ todo' = <<Unpend(t), Empty(t), Record(t, "running")>>
        /\ {Unpend(t), Empty(t), Record(t, "running")} \subseteq WriteOp
    BY <1>0, <1>1 DEF Take, Unpend, Empty, Record, Op, WriteOp, Status
  <1>5. /\ todo' \in Seq(WriteOp) /\ Next1("unpend", t)'
        /\ OpsOK'
        /\ \A x \in Task : ~Pends(x)'
    <2>1. /\ todo' \in Seq(WriteOp) /\ todo' # <<>> /\ Head(todo') = Unpend(t)
          /\ \A i \in DOMAIN todo' :
               todo'[i] \in {Unpend(t), Empty(t), Record(t, "running")}
      BY <1>4
    <2>2. Next1("unpend", t)'
      BY <1>1, <2>1 DEF Next1, Unpend, Op
    <2>3. OpsOK' /\ \A x \in Task : ~Pends(x)'
      BY <2>1 DEF OpsOK, Pends, Unpend, Empty, Record, Op, Status
    <2> QED BY <2>1, <2>2, <2>3
  <1>6. /\ UNCHANGED <<phase, disk, pending, zombies, reply, starts, shown>>
        /\ reg' \in [Task -> Status] /\ phase = "serving"
    BY <1>0, <1>1 DEF Take, Between, stored, history, OnceInv, Types, TypeOK, Status
  <1>7. Types'
    <2>1. TypeOK'
      BY <1>1, <1>3, <1>5, <1>6 DEF OnceInv, Types, TypeOK
    <2>2. WorkersOK'
      BY <1>1, <1>3, <1>6 DEF OnceInv, Types, WorkersOK
    <2> QED BY <1>5, <2>1, <2>2 DEF Types
  <1>8. \A x \in Task : /\ Queued(x)' => Queued(x) /\ x # t
                        /\ Held(x)' => Held(x) \/ x = t
    <2>1. \A x \in Task : Queued(x)' => Queued(x) /\ x # t
      BY <1>1 DEF Queued, OnceInv, OnePlace
    <2> QED BY <1>3, <2>1 DEF Held, Holds
  <1>9. Known'
    <2>1. \A x \in Task : Queued(x) \/ Held(x) => disk[x] # "none"
      BY <1>2 DEF OnceInv, Known, Next1
    <2> QED BY <1>2, <1>5, <1>6, <1>8, <2>1 DEF OnceInv, Known
  <1>10. OnePlace'
    <2>1. \A i, j \in DOMAIN queue' : queue'[i] = queue'[j] => i = j
      BY <1>1 DEF OnceInv, OnePlace
    <2>2. \A u, v \in Worker : \A x \in Task : Holds(u, x)' /\ Holds(v, x)' => u = v
      BY <1>2, <1>3 DEF OnceInv, OnePlace, Holds, Held
    <2>3. \A x \in Task : Held(x) => x \notin pending
      BY <1>2 DEF OnceInv, OnePlace, Next1
    <2>4. \A x \in Task : Held(x)' => ~Queued(x)' /\ ~Pends(x)'
      BY <1>5, <1>8 DEF OnceInv, OnePlace
    <2>5. \A x \in Task : Held(x)' /\ x \in pending' => Next1("unpend", x)'
      BY <1>5, <1>6, <1>8, <2>3
    <2> QED BY <2>1, <2>2, <2>4, <2>5 DEF OnePlace
  <1>11. NotRun'
    BY <1>2, <1>3, <1>5, <1>6, <1>8 DEF OnceInv, NotRun, AtMostOnce
  <1> QED BY <1>7, <1>9, <1>10, <1>11 DEF OnceInv

-----------------------------------------------------------------------------
(* The memory is lost: what was queued or held is nowhere any more. *)
LEMMA HaltStep ==
  ASSUME OnceInv, Halt PROVE OnceInv'
  <1>1. Types'
    BY NoTaskAssumption
       DEF Halt, OnceInv, Types, TypeOK, OpsOK, WorkersOK, Off, Phase, Status,
           WorkerPc, stored, history
  <1>2. \A t \in Task : ~Queued(t)' /\ ~Held(t)' /\ ~Pends(t)'
    BY DEF Halt, Queued, Held, Holds, Pends, Off
  <1>3. UNCHANGED <<disk, pending, starts>> /\ queue' = <<>>
    BY DEF Halt, stored, history
  <1>4. \A w \in Worker : worker'[w] = Off
    BY DEF Halt
  <1>5. Known'
    BY <1>2, <1>3 DEF OnceInv, Known
  <1>6. OnePlace'
    BY <1>2, <1>3, <1>4 DEF OnePlace, Holds, Off
  <1>7. NotRun'
    BY <1>2, <1>3, <1>4 DEF OnceInv, NotRun, AtMostOnce, Off
  <1> QED BY <1>1, <1>5, <1>6, <1>7 DEF OnceInv

LEMMA InitStep == Init => OnceInv
  <1> SUFFICES ASSUME Init PROVE OnceInv
    OBVIOUS
  <1>1. Types
    BY NoTaskAssumption
       DEF Init, Types, TypeOK, OpsOK, WorkersOK, Off, Phase, Status, WorkerPc
  <1>2. /\ \A w \in Worker : worker[w].pc = "off"
        /\ \A t \in Task : starts[t] = 0
        /\ queue = <<>> /\ todo = <<>> /\ pending = {}
    <2>1. Off.pc = "off" /\ \A w \in Worker : worker[w] = Off
      BY DEF Init, Off
    <2>2. \A t \in Task : starts[t] = 0
      BY DEF Init
    <2> QED BY <2>1, <2>2 DEF Init
  <1>3. \A t \in Task : ~Queued(t) /\ ~Held(t) /\ ~Pends(t)
    <2>0. /\ DOMAIN queue = 1..0 /\ DOMAIN todo = 1..0
      BY <1>1, <1>2, Len(queue) = 0, Len(todo) = 0 DEF Types, TypeOK
    <2>1. \A t \in Task : ~Queued(t)
      BY <2>0 DEF Queued
    <2>2. \A t \in Task : ~Held(t)
      BY <1>2 DEF Held, Holds
    <2>3. \A t \in Task : ~Pends(t)
      BY <2>0 DEF Pends
    <2> QED BY <2>1, <2>2, <2>3
  <1>4. Known
    BY <1>2, <1>3 DEF Known
  <1>5. OnePlace
    BY <1>2, <1>3 DEF OnePlace, Held
  <1>6. NotRun
    BY <1>2, <1>3 DEF NotRun, AtMostOnce
  <1> QED BY <1>1, <1>4, <1>5, <1>6 DEF OnceInv

(* All workers idle, and the registry as the records say. *)
LEMMA StartStep == ASSUME OnceInv, Start PROVE OnceInv'
  <1>1. UNCHANGED <<queue, todo, disk, pending, zombies, reply, starts, shown>>
        /\ phase' = "reconciling"
    BY DEF Start, stored, history
  <1>2. \A w \in Worker : worker'[w] = Free
    BY DEF Start
  <1>3. Types'
    BY <1>1, <1>2, NoTaskAssumption
       DEF Start, OnceInv, Types, TypeOK, OpsOK, WorkersOK, Free, Phase, Status, WorkerPc
  <1>4. \A t \in Task : ~Held(t)' /\ (Queued(t)' <=> Queued(t)) /\ (Pends(t)' <=> Pends(t))
    BY <1>1, <1>2 DEF Held, Holds, Queued, Pends, Free
  <1>5. Known'
    BY <1>1, <1>4 DEF OnceInv, Known, Next1
  <1>6. OnePlace'
    BY <1>1, <1>2, <1>4 DEF OnceInv, OnePlace, Holds, Free
  <1>7. NotRun'
    BY <1>1, <1>2, <1>4 DEF OnceInv, NotRun, AtMostOnce, Free
  <1> QED BY <1>3, <1>5, <1>6, <1>7 DEF OnceInv

(* A section of the startup or the shutdown that moves no task: it changes *)
(* the phase, the registry, the lists, or takes rows away.                 *)
LEMMA QuietStep ==
  ASSUME OnceInv, TypeOK', UNCHANGED <<queue, worker, todo, disk, starts>>,
         pending' \subseteq pending,
         phase' \in {"reconciling", "recovering"} =>
           phase \in {"reconciling", "recovering"}
  PROVE  OnceInv'
  <1>1. Types'
    BY DEF OnceInv, Types, OpsOK, WorkersOK
  <1>2. \A t \in Task : /\ Queued(t)' <=> Queued(t)
                        /\ Held(t)' <=> Held(t)
                        /\ Pends(t)' <=> Pends(t)
    BY DEF Queued, Held, Holds, Pends
  <1>3. Known'
    BY <1>2 DEF OnceInv, Known, Next1
  <1>4. OnePlace'
    BY <1>2 DEF OnceInv, OnePlace, Next1, Holds
  <1>5. NotRun'
    BY <1>2 DEF OnceInv, NotRun, AtMostOnce
  <1> QED BY <1>1, <1>3, <1>4, <1>5 DEF OnceInv

LEMMA QuietSteps ==
  ASSUME OnceInv,
         \/ Consume \/ Reconciled \/ Serve \/ CancelWorkers
         \/ \E t \in Task : DropRow(t)
  PROVE  OnceInv'
  <1>1. TypeOK'
    BY DEF OnceInv, Types, TypeOK, Consume, Reconciled, Serve, CancelWorkers,
           DropRow, Between, Phase, memory, stored, history
  <1> QED BY <1>1, QuietStep
          DEF Consume, Reconciled, Serve, CancelWorkers, DropRow, Between,
              memory, stored, history

(* The three writes of an interrupted task. *)
LEMMA InterruptedStep ==
  ASSUME NEW t \in Task, OnceInv, Reconcile(t) \/ Interrupt(t)
  PROVE  OnceInv'
  <1>1. /\ todo = <<>>
        /\ UNCHANGED <<phase, queue, worker, disk, pending, zombies, reply,
                       starts, shown>>
        /\ reg' = [reg EXCEPT ![t] = "interrupted"]
        /\ todo' = <<Empty(t), Record(t, "interrupted"), Zombie(t)>>
    BY DEF Reconcile, Interrupt, Between, stored, history
  <1>2. {Empty(t), Record(t, "interrupted"), Zombie(t)} \subseteq WriteOp
    BY DEF Empty, Record, Zombie, Op, WriteOp, Status, Terminal
  <1>3. /\ todo' \in Seq(WriteOp)
        /\ \A i \in DOMAIN todo' :
             todo'[i] \in {Empty(t), Record(t, "interrupted"), Zombie(t)}
    BY <1>1, <1>2
  <1>4. OpsOK' /\ \A x \in Task : ~Pends(x)'
    BY <1>3 DEF OpsOK, Pends, Empty, Record, Zombie, Op, Status, Terminal
  <1>5. Types'
    <2>1. reg' \in [Task -> Status]
      BY <1>1 DEF OnceInv, Types, TypeOK, Status, Terminal
    <2> QED BY <1>1, <1>3, <1>4, <2>1 DEF OnceInv, Types, TypeOK, WorkersOK
  <1>6. \A v \in Worker : \A x \in Task : Holds(v, x)' <=> Holds(v, x)
    BY <1>1 DEF Holds
  <1>7. \A x \in Task : (Held(x)' <=> Held(x)) /\ (Queued(x)' <=> Queued(x))
    BY <1>1, <1>6 DEF Held, Queued
  <1>8. Known'
    BY <1>1, <1>4, <1>7 DEF OnceInv, Known, Next1
  <1>9. OnePlace'
    BY <1>1, <1>4, <1>6, OnePlaceKept DEF OnceInv
  <1>10. NotRun'
    BY <1>1, <1>4, <1>7 DEF OnceInv, NotRun, AtMostOnce
  <1> QED BY <1>5, <1>8, <1>9, <1>10 DEF OnceInv

(* A row goes back to the queue; no worker has anything yet. *)
LEMMA RequeueStep ==
  ASSUME NEW t \in Task, OnceInv, RequeueRow(t) PROVE OnceInv'
  <1>1. /\ todo = <<>> /\ phase = "recovering" /\ t \in pending /\ ~Queued(t)
        /\ queue' = Append(queue, t)
        /\ UNCHANGED <<phase, reg, worker, todo, disk, pending, zombies, reply,
                       starts, shown>>
    BY DEF RequeueRow, Requeuable, Between, stored, history
  <1>2. \A x \in Task : ~Held(x) /\ ~Pends(x)
    BY <1>1 DEF OnceInv, Types, WorkersOK, Held, Holds, Pends
  <1>3. /\ \A x \in Task : Queued(x)' => Queued(x) \/ x = t
        /\ \A i, j \in DOMAIN queue' : queue'[i] = queue'[j] => i = j
        /\ queue' \in Seq(Task)
    <2>1. \A i \in DOMAIN queue' :
            queue'[i] = IF i = Len(queue) + 1 THEN t ELSE queue[i]
      BY <1>1 DEF OnceInv, Types, TypeOK
    <2>2. DOMAIN queue' = 1..(Len(queue) + 1) /\ DOMAIN queue = 1..Len(queue)
          /\ Len(queue) \in Nat
      BY <1>1 DEF OnceInv, Types, TypeOK
    <2>3. \A i \in DOMAIN queue : queue[i] # t
      BY <1>1 DEF Queued
    <2> QED BY <1>1, <2>1, <2>2, <2>3 DEF OnceInv, OnePlace, Queued, Types, TypeOK
  <1>4. Types'
    BY <1>1, <1>3 DEF OnceInv, Types, TypeOK, OpsOK, WorkersOK
  <1>5. \A x \in Task : ~Held(x)' /\ ~Pends(x)'
    BY <1>1, <1>2 DEF Held, Holds, Pends
  <1>6. Known'
    BY <1>1, <1>3, <1>5 DEF OnceInv, Known, Next1
  <1>7. OnePlace'
    BY <1>3, <1>5 DEF OnePlace, Held
  <1>8. NotRun'
    BY <1>1, <1>3, <1>5 DEF OnceInv, NotRun, AtMostOnce
  <1> QED BY <1>4, <1>6, <1>7, <1>8 DEF OnceInv

-----------------------------------------------------------------------------
LEMMA OnceInductive == OnceInv /\ [Next]_vars => OnceInv'
  <1> SUFFICES ASSUME OnceInv, [Next]_vars PROVE OnceInv'
    OBVIOUS
  <1>1. CASE Write
    BY <1>1, WriteStep
  <1>2. CASE Consume \/ CancelWorkers
    BY <1>2, QuietSteps
  <1>3. CASE Start
    BY <1>3, StartStep
  <1>4. CASE Startup
    BY <1>4, QuietSteps, InterruptedStep, RequeueStep DEF Startup
  <1>5. CASE Flush
    BY <1>5, FlushStep
  <1>6. CASE Shutdown
    BY <1>6, QuietSteps, InterruptedStep, HaltStep DEF Shutdown, Exit
  <1>7. CASE Crash
    BY <1>7, HaltStep DEF Crash
  <1>8. ASSUME NEW t \in Task, Submit(t) PROVE OnceInv'
    BY <1>8, SubmitStep
  <1>9. ASSUME NEW w \in Worker, WorkerStep(w) PROVE OnceInv'
    BY <1>9, TakeStep, BeginStep, CompleteStep, FailJobStep, DoneStep, CancelStep
       DEF WorkerStep
  <1>10. CASE UNCHANGED vars
    <2>1. TypeOK'
      BY <1>10 DEF OnceInv, Types, TypeOK, vars, memory, stored, history
    <2> QED BY <1>10, <2>1, QuietStep DEF vars, memory, stored, history
  <1> QED BY <1>1, <1>2, <1>3, <1>4, <1>5, <1>6, <1>7, <1>8, <1>9, <1>10 DEF Next

(***************************************************************************)
(* Every reachable state of the runtime has the types its variables are    *)
(* declared with: the registry, queue, records, rows and the writes still  *)
(* to come, across crashes and restarts.                                   *)
(***************************************************************************)
THEOREM TypesCorrect == Spec => []TypeOK
  <1>1. Init => OnceInv
    BY InitStep
  <1>2. OnceInv /\ [Next]_vars => OnceInv'
    BY OnceInductive
  <1>3. OnceInv => TypeOK
    BY DEF OnceInv, Types
  <1> QED BY <1>1, <1>2, <1>3, PTL DEF Spec

(***************************************************************************)
(* The agent is run at most once on each task, whatever the process        *)
(* crashes between and however often the recovery queues rows again.       *)
(***************************************************************************)
THEOREM RunAtMostOnce == Spec => []AtMostOnce
  <1>1. Init => OnceInv
    BY InitStep
  <1>2. OnceInv /\ [Next]_vars => OnceInv'
    BY OnceInductive
  <1>3. OnceInv => AtMostOnce
    BY DEF OnceInv, NotRun
  <1> QED BY <1>1, <1>2, <1>3, PTL DEF Spec

-----------------------------------------------------------------------------
(* The invariant of rejected tasks and of the records while the node serves.  *)

Rejecting(t) == \E i \in DOMAIN todo : todo[i] = Answer(t, "rejected")

Unpends(t) == \E i \in DOMAIN todo : todo[i].kind = "unpend" /\ todo[i].task = t

Recording(t) == \E i \in DOMAIN todo : todo[i].kind = "record" /\ todo[i].task = t

(* The record of t says s once the section that runs has made its writes.     *)
Settled(t, s) ==
  \/ \E i \in DOMAIN todo : /\ todo[i].kind = "record" /\ todo[i].task = t
                            /\ todo[i].status = s
  \/ ~Recording(t) /\ disk[t] = s

(* How the writes of a section follow one another.                            *)
SectionInv ==
  /\ \A i \in DOMAIN todo : todo[i].kind = "empty" =>
       /\ i + 1 \in DOMAIN todo
       /\ todo[i + 1].kind = "record" /\ todo[i + 1].task = todo[i].task
  /\ \A i, j \in DOMAIN todo :
       todo[i].kind = "record" /\ todo[j].kind = "record" => i = j
  /\ \A i \in DOMAIN todo : todo[i].kind = "answer" =>
       i = Len(todo) /\ reply[todo[i].task] = "none"
  /\ \A t \in Task : Rejecting(t) =>
       \A i \in DOMAIN todo : todo[i].kind = "pend" /\ todo[i].task = t =>
         /\ i + 1 \in DOMAIN todo
         /\ todo[i + 1].kind = "unpend" /\ todo[i + 1].task = t

Nowhere(t) == starts[t] = 0 /\ ~Queued(t) /\ ~Held(t)

(* A task that is turned away loses its row before its submitter is told.     *)
RejectInv ==
  \A t \in Task :
    /\ Rejecting(t) => Nowhere(t) /\ (t \in pending => Unpends(t))
    /\ reply[t] = "rejected" => Nowhere(t) /\ t \notin pending /\ ~Pends(t)

(* What the startup has made sure of.                                         *)
StartInv ==
  /\ phase \in {"down", "reconciling"} => queue = <<>>
  /\ phase \in {"down", "recovering"} => todo = <<>>
  /\ phase = "reconciling" =>
       \A t \in Task : \A s \in Terminal : Settled(t, s) => reg[t] \in Terminal
  /\ phase = "recovering" =>
       \A t \in Task : /\ disk[t] \notin {"queued", "running"}
                       /\ disk[t] \in Terminal => reg[t] \in Terminal
                       /\ Queued(t) => reg[t] \notin Terminal

Working(t) ==
  \E w \in Worker : worker[w].task = t /\ worker[w].pc \in {"started", "running"}

(* The records of the tasks in the queue and with a worker say so.            *)
ServeInv ==
  phase = "serving" =>
    \A t \in Task :
      /\ Settled(t, "running") <=> Working(t)
      /\ Settled(t, "queued") => Queued(t) \/ reply[t] = "rejected" \/ Rejecting(t)
      /\ Queued(t) => \A s \in Terminal : ~Settled(t, s)
      /\ Recording(t) => disk[t] \notin Terminal

RecordInv == SectionInv /\ RejectInv /\ StartInv /\ ServeInv

-----------------------------------------------------------------------------
(* Between two sections the records say what they say.                        *)
LEMMA SettledBetween ==
  ASSUME todo = <<>>
  PROVE  /\ SectionInv
         /\ \A t \in Task : /\ ~Rejecting(t) /\ ~Recording(t) /\ ~Pends(t) /\ ~Unpends(t)
                            /\ \A s : Settled(t, s) <=> disk[t] = s
  <1>1. DOMAIN todo = {}
    OBVIOUS
  <1> QED BY <1>1 DEF SectionInv, Rejecting, Recording, Pends, Unpends, Settled

(* A section that records status s of task t.                                 *)
LEMMA SettledSection ==
  ASSUME NEW t \in Task, NEW s, disk' = disk,
         \A i \in DOMAIN todo' : todo'[i].kind = "record" =>
                                   todo'[i].task = t /\ todo'[i].status = s,
         \E i \in DOMAIN todo' : todo'[i].kind = "record"
  PROVE  \A x \in Task : /\ Recording(x)' <=> x = t
                         /\ \A y : Settled(x, y)' <=> y = IF x = t THEN s ELSE disk[x]
  BY DEF Settled, Recording

(* What is left of a section after its first write.                           *)
LEMMA Shifted ==
  ASSUME Types, Write
  PROVE  /\ 1 \in DOMAIN todo /\ todo[1] = Head(todo) /\ Len(todo') = Len(todo) - 1
         /\ Len(todo) \in Nat /\ DOMAIN todo = 1..Len(todo) /\ DOMAIN todo' = 1..(Len(todo) - 1)
         /\ \A i \in DOMAIN todo' : i + 1 \in DOMAIN todo /\ todo'[i] = todo[i + 1]
         /\ \A i \in DOMAIN todo : i # 1 => i - 1 \in DOMAIN todo' /\ todo'[i - 1] = todo[i]
  <1>1. todo \in Seq(WriteOp) /\ todo # <<>> /\ todo' = Tail(todo)
    BY DEF Types, TypeOK, Write
  <1> QED BY <1>1

(* A write does not change what its section records in the end.               *)
LEMMA WriteSettles ==
  ASSUME Types, Write, SectionInv
  PROVE  \A t \in Task : /\ Recording(t)' => Recording(t)
                         /\ \A s : Settled(t, s)' <=> Settled(t, s)
  <1> SUFFICES ASSUME NEW t \in Task
               PROVE  /\ Recording(t)' => Recording(t)
                      /\ \A s : Settled(t, s)' <=> Settled(t, s)
    OBVIOUS
  <1> DEFINE u == todo[1]
  <1>1. \A x \in Task : disk'[x] =
              IF u.task = x /\ u.kind = "empty" THEN "torn"
              ELSE IF u.task = x /\ u.kind = "record" THEN u.status ELSE disk[x]
    BY Shifted, WriteEffect
  <1>2. Recording(t)' => Recording(t)
    BY Shifted DEF Recording
  <1>3. CASE u.kind = "record" /\ u.task = t
    <2>1. ~Recording(t)' /\ Recording(t)
      BY <1>3, Shifted DEF Recording, SectionInv
    <2>2. \A i \in DOMAIN todo : todo[i].kind = "record" => i = 1
      BY <1>3, Shifted DEF SectionInv
    <2>3. \A s : Settled(t, s) <=> s = u.status
      BY <1>3, <2>1, <2>2, Shifted DEF Settled
    <2>4. \A s : Settled(t, s)' <=> disk'[t] = s
      BY <2>1 DEF Settled, Recording
    <2> QED BY <1>1, <1>2, <1>3, <2>3, <2>4
  <1>4. CASE ~(u.kind = "record" /\ u.task = t)
    <2>1. Recording(t) => Recording(t)'
      BY <1>4, Shifted DEF Recording
    <2>2. \A s : (\E i \in DOMAIN todo : /\ todo[i].kind = "record" /\ todo[i].task = t
                                         /\ todo[i].status = s)
             <=> (\E i \in DOMAIN todo' : /\ todo'[i].kind = "record" /\ todo'[i].task = t
                                          /\ todo'[i].status = s)
      BY <1>4, Shifted
    <2>3. ~Recording(t) => disk'[t] = disk[t]
      <3>1. ASSUME u.kind = "empty", u.task = t PROVE Recording(t)
        <4>1. 1 \in DOMAIN todo
          BY Shifted
        <4>2. /\ 1 + 1 \in DOMAIN todo
              /\ todo[1 + 1].kind = "record" /\ todo[1 + 1].task = t
          BY <3>1, <4>1 DEF SectionInv
        <4> QED BY <4>2 DEF Recording
      <3> QED BY <1>1, <1>4, <3>1
    <2>4. ASSUME NEW s PROVE Settled(t, s)' <=> Settled(t, s)
      <3>1. (\E i \in DOMAIN todo : /\ todo[i].kind = "record" /\ todo[i].task = t
                                     /\ todo[i].status = s)
            <=> (\E i \in DOMAIN todo' : /\ todo'[i].kind = "record" /\ todo'[i].task = t
                                         /\ todo'[i].status = s)
        BY <2>2
      <3>2. Recording(t)' <=> Recording(t)
        BY <1>2, <2>1
      <3> QED BY <2>3, <3>1, <3>2 DEF Settled
    <2> QED BY <1>2, <2>4
  <1> QED BY <1>3, <1>4

(* What a write does to the answers: the last write of a section gives one.   *)
LEMMA WriteAnswers ==
  ASSUME Types, Write, SectionInv, NEW t \in Task
  PROVE  /\ reply'[t] # reply[t] => /\ todo[1].kind = "answer" /\ todo[1].task = t
                                    /\ reply'[t] = todo[1].status
                                    /\ reply[t] = "none" /\ Len(todo) = 1
         /\ todo[1] = Answer(t, "rejected") => reply'[t] = "rejected"
         /\ todo[1] \in WriteOp
  <1>1. 1 \in DOMAIN todo /\ todo[1] = Head(todo)
    BY Shifted
  <1>2. todo[1] \in WriteOp
    BY <1>1, WriteEffect
  <1>3. CASE todo[1].kind = "answer"
    <2>1. reply' = [reply EXCEPT ![todo[1].task] = todo[1].status]
      BY <1>1, <1>3 DEF Write
    <2>2. 1 = Len(todo) /\ reply[todo[1].task] = "none"
      BY <1>1, <1>3 DEF SectionInv
    <2> QED BY <1>2, <1>3, <2>1, <2>2 DEF Answer, Op, WriteOp, Types, TypeOK
  <1>4. CASE todo[1].kind # "answer"
    <2>1. reply' = reply
      BY <1>1, <1>2, <1>4 DEF Write, WriteOp
    <2> QED BY <1>2, <1>4, <2>1 DEF Answer, Op
  <1> QED BY <1>3, <1>4

LEMMA WriteRecords == OnceInv /\ RecordInv /\ Write => RecordInv'
  <1> SUFFICES ASSUME OnceInv, RecordInv, Write PROVE RecordInv'
    OBVIOUS
  <1> DEFINE u == todo[1]
  <1>t. Types /\ SectionInv /\ RejectInv /\ StartInv /\ ServeInv
    BY DEF OnceInv, RecordInv
  <1>1. /\ \A t \in Task : disk'[t] =
              IF u.task = t /\ u.kind = "empty" THEN "torn"
              ELSE IF u.task = t /\ u.kind = "record" THEN u.status ELSE disk[t]
        /\ pending' = CASE u.kind = "pend" -> pending \cup {u.task}
                        [] u.kind = "unpend" -> pending \ {u.task}
                        [] OTHER -> pending
        /\ UNCHANGED <<phase, reg, queue, worker, starts, shown>>
        /\ todo # <<>> /\ u \in WriteOp
    BY <1>t, Shifted, WriteEffect
  <1>2. /\ 1 \in DOMAIN todo /\ Len(todo) \in Nat
        /\ \A i \in DOMAIN todo' : i + 1 \in DOMAIN todo /\ todo'[i] = todo[i + 1]
        /\ \A i \in DOMAIN todo : i # 1 => i - 1 \in DOMAIN todo' /\ todo'[i - 1] = todo[i]
        /\ DOMAIN todo = 1..Len(todo) /\ DOMAIN todo' = 1..Len(todo')
        /\ Len(todo') = Len(todo) - 1
    BY <1>t, Shifted
  <1>3. \A t \in Task : /\ Rejecting(t)' => Rejecting(t)
                        /\ Rejecting(t) => Rejecting(t)' \/ u = Answer(t, "rejected")
                        /\ Pends(t)' => Pends(t)
                        /\ u.kind = "pend" /\ u.task = t => Pends(t)
                        /\ Unpends(t) => Unpends(t)' \/ (u.kind = "unpend" /\ u.task = t)
                        /\ Queued(t)' <=> Queued(t)
                        /\ Held(t)' <=> Held(t)
                        /\ Working(t)' <=> Working(t)
    BY <1>1, <1>2 DEF Rejecting, Answer, Op, Pends, Unpends, Queued, Held, Holds, Working
  <1>4. SectionInv'
    <2>1. \A i \in DOMAIN todo' : todo'[i].kind = "empty" =>
            /\ i + 1 \in DOMAIN todo'
            /\ todo'[i + 1].kind = "record" /\ todo'[i + 1].task = todo'[i].task
      <3> SUFFICES ASSUME NEW i \in DOMAIN todo', todo'[i].kind = "empty"
                   PROVE  /\ i + 1 \in DOMAIN todo'
                          /\ todo'[i + 1].kind = "record" /\ todo'[i + 1].task = todo'[i].task
        OBVIOUS
      <3>1. i + 1 \in DOMAIN todo /\ todo[i + 1] = todo'[i]
        BY <1>2
      <3>2. /\ (i + 1) + 1 \in DOMAIN todo
            /\ todo[(i + 1) + 1].kind = "record" /\ todo[(i + 1) + 1].task = todo[i + 1].task
        BY <1>t, <3>1 DEF SectionInv
      <3>3. i + 1 \in DOMAIN todo' /\ todo'[i + 1] = todo[(i + 1) + 1]
        BY <1>2, <3>2
      <3> QED BY <3>1, <3>2, <3>3
    <2>2. \A i, j \in DOMAIN todo' :
            todo'[i].kind = "record" /\ todo'[j].kind = "record" => i = j
      <3> SUFFICES ASSUME NEW i \in DOMAIN todo', NEW j \in DOMAIN todo',
                          todo'[i].kind = "record", todo'[j].kind = "record"
                   PROVE  i = j
        OBVIOUS
      <3>1. i + 1 = j + 1
        BY <1>t, <1>2 DEF SectionInv
      <3> QED BY <1>2, <3>1
    <2>3. \A i \in DOMAIN todo' : todo'[i].kind = "answer" =>
            i = Len(todo') /\ reply'[todo'[i].task] = "none"
      <3> SUFFICES ASSUME NEW i \in DOMAIN todo', todo'[i].kind = "answer"
                   PROVE  i = Len(todo') /\ reply'[todo'[i].task] = "none"
        OBVIOUS
      <3>1. i + 1 \in DOMAIN todo /\ todo[i + 1] = todo'[i]
        BY <1>2
      <3>2. i + 1 = Len(todo) /\ reply[todo'[i].task] = "none"
        BY <1>t, <3>1 DEF SectionInv
      <3>3. todo'[i].task \in Task
        <4>1. todo[i + 1] \in WriteOp
          BY <1>t, <3>1 DEF Types, TypeOK
        <4> QED BY <3>1, <4>1 DEF WriteOp
      <3>4. Len(todo) # 1
        BY <1>2, <3>2
      <3> QED BY <1>t, <1>2, <3>2, <3>3, <3>4, WriteAnswers
    <2>4. \A t \in Task : Rejecting(t)' =>
            \A i \in DOMAIN todo' : todo'[i].kind = "pend" /\ todo'[i].task = t =>
              /\ i + 1 \in DOMAIN todo'
              /\ todo'[i + 1].kind = "unpend" /\ todo'[i + 1].task = t
      <3> SUFFICES ASSUME NEW t \in Task, Rejecting(t)', NEW i \in DOMAIN todo',
                          todo'[i].kind = "pend", todo'[i].task = t
                   PROVE  /\ i + 1 \in DOMAIN todo'
                          /\ todo'[i + 1].kind = "unpend" /\ todo'[i + 1].task = t
        OBVIOUS
      <3>1. i + 1 \in DOMAIN todo /\ todo[i + 1] = todo'[i]
        BY <1>2
      <3>2. Rejecting(t)
        BY <1>3
      <3>3. /\ (i + 1) + 1 \in DOMAIN todo
            /\ todo[(i + 1) + 1].kind = "unpend" /\ todo[(i + 1) + 1].task = t
        BY <1>t, <3>1, <3>2 DEF SectionInv
      <3>4. i + 1 \in DOMAIN todo' /\ todo'[i + 1] = todo[(i + 1) + 1]
        BY <1>2, <3>3
      <3> QED BY <3>3, <3>4
    <2> QED BY <2>1, <2>2, <2>3, <2>4 DEF SectionInv
  <1>5. RejectInv'
    <2> SUFFICES ASSUME NEW t \in Task
                 PROVE  /\ Rejecting(t)' => Nowhere(t)' /\ (t \in pending' => Unpends(t)')
                        /\ reply'[t] = "rejected" => Nowhere(t)' /\ t \notin pending' /\ ~Pends(t)'
      BY DEF RejectInv
    <2>1. Nowhere(t)' <=> Nowhere(t)
      BY <1>1, <1>3 DEF Nowhere
    <2>2. ASSUME Rejecting(t)' PROVE Nowhere(t)' /\ (t \in pending' => Unpends(t)')
      <3>1. Nowhere(t) /\ (t \in pending => Unpends(t)) /\ Rejecting(t)
        BY <1>t, <1>3, <2>2 DEF RejectInv
      <3>2. CASE u.kind = "pend" /\ u.task = t
        <4>1. 1 + 1 \in DOMAIN todo /\ todo[1 + 1].kind = "unpend" /\ todo[1 + 1].task = t
          BY <1>t, <1>2, <3>1, <3>2 DEF SectionInv
        <4>2. 1 \in DOMAIN todo' /\ todo'[1] = todo[1 + 1]
          BY <1>2, <4>1
        <4>3. Unpends(t)'
          BY <4>1, <4>2 DEF Unpends
        <4> QED BY <2>1, <3>1, <4>3
      <3>3. CASE ~(u.kind = "pend" /\ u.task = t)
        BY <1>1, <1>3, <2>1, <3>1, <3>3
      <3> QED BY <3>2, <3>3
    <2>3. ASSUME reply'[t] = "rejected"
          PROVE  Nowhere(t)' /\ t \notin pending' /\ ~Pends(t)'
      <3>1. CASE reply[t] = "rejected"
        BY <1>t, <1>1, <1>3, <2>1, <3>1 DEF RejectInv
      <3>2. CASE reply[t] # "rejected"
        <4>1. u.kind = "answer" /\ u.task = t /\ u.status = "rejected" /\ Len(todo) = 1
          BY <1>t, <2>3, <3>2, WriteAnswers
        <4>2. u = Answer(t, "rejected")
          BY <1>1, <4>1 DEF Answer, Op, WriteOp
        <4>3. Rejecting(t) /\ ~Unpends(t) /\ ~Pends(t)'
          BY <1>2, <4>1, <4>2 DEF Rejecting, Unpends, Pends
        <4>4. pending' = pending
          BY <1>1, <4>1
        <4> QED BY <1>t, <2>1, <4>3, <4>4 DEF RejectInv
      <3> QED BY <3>1, <3>2
    <2> QED BY <2>2, <2>3
  <1>6. \A t \in Task : /\ Recording(t)' => Recording(t)
                        /\ \A s : Settled(t, s)' <=> Settled(t, s)
    BY <1>t, WriteSettles
  <1>7. StartInv'
    BY <1>t, <1>1, <1>3, <1>6 DEF StartInv
  <1>8. ServeInv'
    <2> SUFFICES ASSUME phase = "serving", NEW t \in Task
                 PROVE  /\ Settled(t, "running")' <=> Working(t)'
                        /\ Settled(t, "queued")' =>
                             Queued(t)' \/ reply'[t] = "rejected" \/ Rejecting(t)'
                        /\ Queued(t)' => \A s \in Terminal : ~Settled(t, s)'
                        /\ Recording(t)' => disk'[t] \notin Terminal
      BY <1>1 DEF ServeInv
    <2>1. /\ Settled(t, "running") <=> Working(t)
          /\ Settled(t, "queued") => Queued(t) \/ reply[t] = "rejected" \/ Rejecting(t)
          /\ Queued(t) => \A s \in Terminal : ~Settled(t, s)
          /\ Recording(t) => disk[t] \notin Terminal
      BY <1>t DEF ServeInv
    <2>2. reply[t] = "rejected" \/ Rejecting(t) => reply'[t] = "rejected" \/ Rejecting(t)'
      BY <1>t, <1>3, WriteAnswers
    <2>3. Recording(t)' => disk'[t] \notin Terminal
      <3> SUFFICES ASSUME Recording(t)' PROVE disk'[t] \notin Terminal
        OBVIOUS
      <3>1. disk[t] \notin Terminal
        BY <1>6, <2>1
      <3>2. ~(u.kind = "record" /\ u.task = t)
        BY <1>t, <1>2 DEF SectionInv, Recording
      <3> QED BY <1>1, <3>1, <3>2 DEF Terminal
    <2> QED BY <1>3, <1>6, <2>1, <2>2, <2>3
  <1> QED BY <1>4, <1>5, <1>7, <1>8 DEF RecordInv

(* The sections that record a status and neither insert a row nor answer.     *)
LEMMA RecordingSections ==
  ASSUME NEW t \in Task, NEW s, disk' = disk,
         todo' \in {<<Empty(t), Record(t, s)>>, <<Unpend(t), Empty(t), Record(t, s)>>,
                    <<Empty(t), Record(t, s), Zombie(t)>>}
  PROVE  /\ SectionInv'
         /\ \A x \in Task : /\ Recording(x)' <=> x = t
                            /\ \A y : Settled(x, y)' <=> y = IF x = t THEN s ELSE disk[x]
                            /\ ~Rejecting(x)' /\ ~Pends(x)'
  <1> USE DEF Empty, Record, Unpend, Zombie, Op
  <1>1. \A i \in DOMAIN todo' : /\ todo'[i].kind \in {"empty", "record", "unpend", "zombie"}
                                /\ todo'[i].kind = "record" =>
                                     todo'[i].task = t /\ todo'[i].status = s
    OBVIOUS
  <1>2. \E i \in DOMAIN todo' : todo'[i].kind = "record"
    <2>1. CASE todo' = <<Empty(t), Record(t, s)>>
      BY <2>1, 2 \in DOMAIN todo'
    <2>2. CASE todo' = <<Unpend(t), Empty(t), Record(t, s)>>
      BY <2>2, 3 \in DOMAIN todo'
    <2>3. CASE todo' = <<Empty(t), Record(t, s), Zombie(t)>>
      BY <2>3, 2 \in DOMAIN todo'
    <2> QED BY <2>1, <2>2, <2>3
  <1>3. \A x \in Task : ~Rejecting(x)' /\ ~Pends(x)'
    BY <1>1 DEF Rejecting, Pends, Answer
  <1>4. /\ \A i \in DOMAIN todo' : todo'[i].kind = "empty" =>
              /\ i + 1 \in DOMAIN todo'
              /\ todo'[i + 1].kind = "record" /\ todo'[i + 1].task = todo'[i].task
        /\ \A i, j \in DOMAIN todo' :
             todo'[i].kind = "record" /\ todo'[j].kind = "record" => i = j
    OBVIOUS
  <1>5. SectionInv'
    BY <1>1, <1>3, <1>4 DEF SectionInv
  <1> QED BY <1>1, <1>2, <1>3, <1>5, SettledSection

(* The two sections of a submission.                                          *)
LEMMA SubmitSections ==
  ASSUME NEW t \in Task, disk' = disk, reply' = reply, reply[t] = "none",
         todo' \in {<<Empty(t), Record(t, "queued"), Pend(t), Answer(t, "queued")>>,
                    <<Empty(t), Record(t, "queued"), Pend(t), Unpend(t),
                      Answer(t, "rejected")>>}
  PROVE  /\ SectionInv'
         /\ \A x \in Task : /\ Recording(x)' <=> x = t
                            /\ \A y : Settled(x, y)' <=> y = IF x = t THEN "queued" ELSE disk[x]
                            /\ Rejecting(x)' \/ Pends(x)' => x = t
         /\ Rejecting(t)' <=> Len(todo') = 5
         /\ Rejecting(t)' => Unpends(t)'
  <1> USE DEF Empty, Record, Pend, Unpend, Answer, Op
  <1>1. \A i \in DOMAIN todo' : /\ todo'[i].task = t
                                /\ todo'[i].kind = "record" => todo'[i].status = "queued"
    OBVIOUS
  <1>2. 2 \in DOMAIN todo' /\ todo'[2].kind = "record"
    OBVIOUS
  <1>3. \A x \in Task : Rejecting(x)' \/ Pends(x)' => x = t
    BY <1>1 DEF Rejecting, Pends
  <1>4. /\ Rejecting(t)' <=> Len(todo') = 5
        /\ Rejecting(t)' => Unpends(t)'
    <2>1. CASE todo' = <<Empty(t), Record(t, "queued"), Pend(t), Answer(t, "queued")>>
      <3>1. \A i \in DOMAIN todo' : todo'[i] # Answer(t, "rejected")
        BY <2>1
      <3> QED BY <2>1, <3>1 DEF Rejecting
    <2>2. CASE todo' = <<Empty(t), Record(t, "queued"), Pend(t), Unpend(t),
                         Answer(t, "rejected")>>
      <3>1. /\ 5 \in DOMAIN todo' /\ todo'[5] = Answer(t, "rejected")
            /\ 4 \in DOMAIN todo' /\ todo'[4] = Unpend(t)
        BY <2>2
      <3> QED BY <2>2, <3>1 DEF Rejecting, Unpends
    <2> QED BY <2>1, <2>2
  <1>5. /\ \A i \in DOMAIN todo' : todo'[i].kind = "empty" =>
              /\ i + 1 \in DOMAIN todo'
              /\ todo'[i + 1].kind = "record" /\ todo'[i + 1].task = todo'[i].task
        /\ \A i, j \in DOMAIN todo' :
             todo'[i].kind = "record" /\ todo'[j].kind = "record" => i = j
        /\ \A i \in DOMAIN todo' : todo'[i].kind = "answer" => i = Len(todo')
        /\ Len(todo') = 5 => \A i \in DOMAIN todo' : todo'[i].kind = "pend" =>
              /\ i + 1 \in DOMAIN todo'
              /\ todo'[i + 1].kind = "unpend" /\ todo'[i + 1].task = t
    <2>1. CASE todo' = <<Empty(t), Record(t, "queued"), Pend(t), Answer(t, "queued")>>
      BY <2>1
    <2>2. CASE todo' = <<Empty(t), Record(t, "queued"), Pend(t), Unpend(t),
                         Answer(t, "rejected")>>
      BY <2>2
    <2> QED BY <2>1, <2>2
  <1>6. SectionInv'
    BY <1>1, <1>3, <1>4, <1>5 DEF SectionInv
  <1> QED BY <1>1, <1>2, <1>3, <1>4, <1>6, SettledSection

LEMMA SubmitRecords ==
  ASSUME NEW t \in Task, OnceInv, RecordInv, Submit(t) PROVE RecordInv'
  <1>1. /\ todo = <<>> /\ starts[t] = 0 /\ t \notin pending /\ disk[t] = "none"
        /\ reply[t] = "none" /\ ~Queued(t) /\ ~Held(t)
        /\ phase \in {"serving", "cancelling"}
        /\ UNCHANGED <<phase, worker, disk, pending, zombies, reply, starts, shown>>
    BY DEF Submit, Between, OnceInv, Types, TypeOK, Known, Next1, stored, history
  <1>2. /\ todo' \in {<<Empty(t), Record(t, "queued"), Pend(t), Answer(t, "queued")>>,
                      <<Empty(t), Record(t, "queued"), Pend(t), Unpend(t),
                        Answer(t, "rejected")>>}
        /\ Len(todo') = 5 => queue' = queue
        /\ Len(todo') # 5 => queue' = Append(queue, t)
    <2>1. \/ /\ todo' = <<Empty(t), Record(t, "queued"), Pend(t), Answer(t, "queued")>>
             /\ queue' = Append(queue, t)
          \/ /\ todo' = <<Empty(t), Record(t, "queued"), Pend(t), Unpend(t),
                           Answer(t, "rejected")>>
             /\ queue' = queue
      BY DEF Submit
    <2>2. CASE todo' = <<Empty(t), Record(t, "queued"), Pend(t), Answer(t, "queued")>>
               /\ queue' = Append(queue, t)
      <3>1. Len(todo') = 4
        BY <2>2
      <3> QED BY <2>2, <3>1
    <2>3. CASE todo' = <<Empty(t), Record(t, "queued"), Pend(t), Unpend(t),
                         Answer(t, "rejected")>>
               /\ queue' = queue
      <3>1. Len(todo') = 5
        BY <2>3
      <3> QED BY <2>3, <3>1
    <2> QED BY <2>1, <2>2, <2>3
  <1>3. /\ SectionInv'
        /\ \A x \in Task : /\ Recording(x)' <=> x = t
                           /\ \A y : Settled(x, y)' <=> y = IF x = t THEN "queued" ELSE disk[x]
                           /\ Rejecting(x)' \/ Pends(x)' => x = t
        /\ Rejecting(t)' <=> Len(todo') = 5
        /\ Rejecting(t)' => Unpends(t)'
    BY <1>1, <1>2, SubmitSections
  <1>4. /\ \A x \in Task : Queued(x)' => Queued(x) \/ x = t
        /\ \A x \in Task : Queued(x) => Queued(x)'
        /\ Queued(t)' \/ Rejecting(t)'
        /\ Rejecting(t)' => ~Queued(t)'
    <2>1. CASE queue' = Append(queue, t)
      <3>1. /\ DOMAIN queue' = 1..(Len(queue) + 1) /\ DOMAIN queue = 1..Len(queue)
            /\ Len(queue) \in Nat
            /\ \A i \in DOMAIN queue' : queue'[i] = IF i = Len(queue) + 1 THEN t ELSE queue[i]
        BY <2>1 DEF OnceInv, Types, TypeOK
      <3>2. Queued(t)'
        BY <3>1 DEF Queued
      <3>3. \A x \in Task : Queued(x) => Queued(x)'
        BY <3>1 DEF Queued
      <3>4. \A x \in Task : Queued(x)' => Queued(x) \/ x = t
        BY <3>1 DEF Queued
      <3>5. ~Rejecting(t)'
        <4>1. queue' # queue
          BY <3>1
        <4> QED BY <1>2, <1>3, <4>1
      <3> QED BY <3>2, <3>3, <3>4, <3>5
    <2>2. CASE queue' = queue /\ Len(todo') = 5
      BY <1>1, <1>3, <2>2 DEF Queued
    <2> QED BY <1>2, <2>1, <2>2
  <1>5. \A x \in Task : (Held(x)' <=> Held(x)) /\ (Working(x)' <=> Working(x))
    BY <1>1 DEF Held, Holds, Working
  <1>6. RejectInv'
    BY <1>1, <1>3, <1>4, <1>5 DEF RecordInv, RejectInv, Nowhere
  <1>7. StartInv'
    BY <1>1 DEF StartInv
  <1>8. ServeInv'
    <2>1. ~Working(t)
      BY <1>1 DEF Working, Held, Holds
    <2>2. \A x \in Task : \A y : Settled(x, y) <=> disk[x] = y
      BY <1>1, SettledBetween
    <2>3. \A x \in Task : ~Rejecting(x)
      BY <1>1, SettledBetween
    <2> QED BY <1>1, <1>3, <1>4, <1>5, <2>1, <2>2, <2>3 DEF RecordInv, ServeInv, Terminal
  <1> QED BY <1>3, <1>6, <1>7, <1>8 DEF RecordInv

LEMMA TakeRecords ==
  ASSUME NEW w \in Worker, OnceInv, RecordInv, Take(w) PROVE RecordInv'
  <1>0. PICK t \in Task : t = Head(queue)
    BY TailShift DEF Take, OnceInv, Types, TypeOK
  <1>1. /\ queue # <<>> /\ t = queue[1] /\ 1 \in DOMAIN queue /\ todo = <<>>
        /\ queue' = Tail(queue) /\ phase = "serving" /\ worker[w].pc = "idle"
        /\ worker' = [worker EXCEPT ![w] = [pc |-> "started", task |-> t]]
        /\ todo' = <<Unpend(t), Empty(t), Record(t, "running")>>
        /\ UNCHANGED <<phase, disk, pending, zombies, reply, starts, shown>>
    BY <1>0, TailShift DEF Take, Between, stored, history, OnceInv, Types, TypeOK
  <1>2. Queued(t)
    BY <1>1 DEF Queued
  <1>3. \A v \in Worker : worker'[v] = IF v = w THEN [pc |-> "started", task |-> t]
                                       ELSE worker[v]
    BY <1>1 DEF OnceInv, Types, TypeOK
  <1>4. \A x \in Task : /\ Queued(x)' => Queued(x)
                        /\ Queued(x) => Queued(x)' \/ x = t
                        /\ Queued(t)' => FALSE
    <2>1. /\ Len(queue) \in Nat /\ DOMAIN queue = 1..Len(queue)
          /\ DOMAIN queue' = 1..(Len(queue) - 1)
          /\ \A i \in DOMAIN queue' : queue'[i] = queue[i + 1]
      BY <1>1 DEF OnceInv, Types, TypeOK
    <2>2. \A x \in Task : Queued(x)' => Queued(x) /\ x # t
      BY <1>1, <2>1 DEF Queued, OnceInv, OnePlace
    <2>3. ASSUME NEW x \in Task, Queued(x), x # t PROVE Queued(x)'
      <3>1. PICK i \in DOMAIN queue : queue[i] = x
        BY <2>3 DEF Queued
      <3>2. i - 1 \in DOMAIN queue' /\ queue'[i - 1] = x
        BY <1>1, <2>1, <2>3, <3>1
      <3> QED BY <3>2 DEF Queued
    <2> QED BY <2>2, <2>3
  <1>5. \A x \in Task : /\ Held(x)' => Held(x) \/ x = t
                        /\ Working(x)' <=> Working(x) \/ x = t
    BY <1>1, <1>3 DEF Held, Holds, Working
  <1>6. /\ SectionInv'
        /\ \A x \in Task : /\ Recording(x)' <=> x = t
                           /\ \A y : Settled(x, y)' <=> y = IF x = t THEN "running" ELSE disk[x]
                           /\ ~Rejecting(x)' /\ ~Pends(x)'
    BY <1>1, RecordingSections
  <1>7. \A x \in Task : ~Rejecting(x) /\ \A y : Settled(x, y) <=> disk[x] = y
    BY <1>1, SettledBetween
  <1>8. RejectInv'
    BY <1>1, <1>2, <1>4, <1>5, <1>6 DEF RecordInv, RejectInv, Nowhere
  <1>9. StartInv'
    BY <1>1 DEF StartInv
  <1>10. ServeInv'
    BY <1>1, <1>2, <1>4, <1>5, <1>6, <1>7 DEF RecordInv, ServeInv, Terminal
  <1> QED BY <1>6, <1>8, <1>9, <1>10 DEF RecordInv

(* A worker that ends its task records how.                                   *)
LEMMA SettleRecords ==
  ASSUME NEW w \in Worker, NEW s \in Terminal, NEW pc \in {"announcing", "ending", "off"},
         OnceInv, RecordInv, todo = <<>>, worker[w].pc \notin {"off", "idle"},
         Settle(w, s, pc), phase \in {"serving", "cancelling"},
         phase = "serving" => worker[w].pc \in {"started", "running"},
         UNCHANGED <<phase, queue, disk, pending, zombies, reply, starts, shown>>
  PROVE  RecordInv'
  <1> SUFFICES ASSUME NEW t, t = worker[w].task PROVE RecordInv'
    OBVIOUS
  <1>1. t \in Task /\ Holds(w, t)
    BY DEF OnceInv, Types, WorkersOK, Holds
  <1>2. todo' = <<Empty(t), Record(t, s)>>
    BY DEF Settle
  <1>3. /\ worker'[w].pc = pc
        /\ \A v \in Worker : worker'[v].task = worker[v].task
        /\ \A v \in Worker \ {w} : worker'[v] = worker[v]
    BY PcMoved DEF OnceInv, Types, TypeOK, Settle, WorkerPc
  <1>4. \A x \in Task : /\ Held(x)' => Held(x)
                        /\ Queued(x)' <=> Queued(x)
    BY <1>3 DEF Held, Holds, Queued
  <1>5. phase = "serving" => \A x \in Task : Working(x)' <=> Working(x) /\ x # t
    <2> SUFFICES ASSUME phase = "serving", NEW x \in Task
                 PROVE  Working(x)' <=> Working(x) /\ x # t
      OBVIOUS
    <2>1. Working(x)' => Working(x)
      BY <1>3 DEF Working
    <2>2. ~Working(t)'
      BY <1>1, <1>3 DEF Working, OnceInv, OnePlace, Holds
    <2>3. Working(x) /\ x # t => Working(x)'
      BY <1>3 DEF Working
    <2> QED BY <2>1, <2>2, <2>3
  <1>6. /\ SectionInv'
        /\ \A x \in Task : /\ Recording(x)' <=> x = t
                           /\ \A y : Settled(x, y)' <=> y = IF x = t THEN s ELSE disk[x]
                           /\ ~Rejecting(x)' /\ ~Pends(x)'
    BY <1>1, <1>2, RecordingSections
  <1>7. \A x \in Task : ~Rejecting(x) /\ \A y : Settled(x, y) <=> disk[x] = y
    BY SettledBetween
  <1>8. RejectInv'
    BY <1>4, <1>6 DEF RecordInv, RejectInv, Nowhere
  <1>9. StartInv'
    BY DEF StartInv
  <1>10. ServeInv'
    <2> SUFFICES ASSUME phase = "serving"
                 PROVE  \A x \in Task :
                          /\ Settled(x, "running")' <=> Working(x)'
                          /\ Settled(x, "queued")' => Queued(x)' \/ reply'[x] = "rejected"
                          /\ Queued(x)' => \A y \in Terminal : ~Settled(x, y)'
                          /\ Recording(x)' => disk'[x] \notin Terminal
      BY DEF ServeInv
    <2>1. ~Queued(t) /\ Working(t)
      BY <1>1 DEF OnceInv, OnePlace, Held, Working
    <2>2. disk[t] = "running"
      BY <1>1, <1>7, <2>1 DEF RecordInv, ServeInv
    <2> QED BY <1>1, <1>4, <1>5, <1>6, <1>7, <2>1, <2>2 DEF RecordInv, ServeInv, Terminal
  <1> QED BY <1>6, <1>8, <1>9, <1>10 DEF RecordInv

LEMMA CompleteRecords ==
  ASSUME NEW w \in Worker, OnceInv, RecordInv, Complete(w) PROVE RecordInv'
  BY SettleRecords, "completed" \in Terminal
     DEF Complete, Between, stored, history, Terminal

LEMMA FailJobRecords ==
  ASSUME NEW w \in Worker, OnceInv, RecordInv, FailJob(w) PROVE RecordInv'
  BY SettleRecords, "failed" \in Terminal
     DEF FailJob, Between, stored, history, Terminal

(* A section that writes nothing and gives no worker another task.            *)
LEMMA SameRecords ==
  ASSUME OnceInv, RecordInv, todo = <<>>, todo' = <<>>, disk' = disk, reply' = reply,
         pending' \subseteq pending, phase' = "serving" => phase = "serving" /\ queue' = queue,
         \A x \in Task : /\ Queued(x)' => Queued(x)
                         /\ Held(x)' => Held(x)
                         /\ phase' = "serving" => (Working(x)' <=> Working(x))
                         /\ starts'[x] # starts[x] => Held(x),
         StartInv'
  PROVE  RecordInv'
  <1>1. /\ SectionInv'
        /\ \A x \in Task : /\ ~Rejecting(x)' /\ ~Recording(x)' /\ ~Pends(x)'
                           /\ \A y : Settled(x, y)' <=> disk[x] = y
    BY DEF SectionInv, Rejecting, Recording, Pends, Settled
  <1>2. \A x \in Task : /\ ~Rejecting(x)
                        /\ \A y : Settled(x, y) <=> disk[x] = y
    BY SettledBetween
  <1>3. RejectInv'
    BY <1>1 DEF RecordInv, RejectInv, Nowhere
  <1>4. ServeInv'
    <2>1. phase' = "serving" => \A x \in Task : Queued(x)' <=> Queued(x)
      BY DEF Queued
    <2> QED BY <1>1, <1>2, <2>1 DEF RecordInv, ServeInv
  <1> QED BY <1>1, <1>3, <1>4 DEF RecordInv

LEMMA DropRecords ==
  ASSUME NEW w \in Worker, NEW f \in {Off, Free}, OnceInv, RecordInv, todo = <<>>,
         worker' = [worker EXCEPT ![w] = f], phase \in {"serving", "cancelling"},
         phase = "serving" => worker[w].pc \notin {"started", "running"},
         UNCHANGED <<phase, reg, queue, todo, disk, pending, zombies, reply,
                     starts, shown>>
  PROVE  RecordInv'
  <1>1. f.pc \in {"off", "idle"}
    BY DEF Off, Free
  <1>2. \A v \in Worker : worker'[v] = IF v = w THEN f ELSE worker[v]
    BY DEF OnceInv, Types, TypeOK
  <1>3. \A x \in Task : /\ Held(x)' => Held(x)
                        /\ Queued(x)' => Queued(x)
                        /\ phase' = "serving" => (Working(x)' <=> Working(x))
    BY <1>1, <1>2 DEF Held, Holds, Queued, Working
  <1>4. StartInv'
    BY DEF StartInv
  <1> QED BY <1>3, <1>4, SameRecords

LEMMA DoneRecords ==
  ASSUME NEW w \in Worker, OnceInv, RecordInv, Done(w) PROVE RecordInv'
  BY DropRecords DEF Done, Between, stored, history

LEMMA CancelRecords ==
  ASSUME NEW w \in Worker, OnceInv, RecordInv, Cancel(w) PROVE RecordInv'
  <1>1. CASE worker[w].pc \in {"running", "announcing"}
    BY <1>1, SettleRecords, "cancelled" \in Terminal
       DEF Cancel, Between, stored, history, Terminal
  <1>2. CASE worker[w].pc \notin {"running", "announcing"}
    BY <1>2, DropRecords DEF Cancel, Between, stored, history
  <1> QED BY <1>1, <1>2

LEMMA BeginRecords ==
  ASSUME NEW w \in Worker, OnceInv, RecordInv, Begin(w) PROVE RecordInv'
  <1>1. /\ worker'[w].pc = "running"
        /\ \A v \in Worker : worker'[v].task = worker[v].task
        /\ \A v \in Worker \ {w} : worker'[v] = worker[v]
    BY PcMoved, "running" \in WorkerPc DEF OnceInv, Types, TypeOK, Begin, WorkerPc
  <1>2. /\ phase = "serving" /\ todo = <<>> /\ worker[w].pc = "started"
        /\ UNCHANGED <<phase, reg, queue, todo, disk, pending, zombies, reply, shown>>
    BY DEF Begin, Between, stored
  <1>3. \A x \in Task : /\ Held(x)' => Held(x)
                        /\ Queued(x)' => Queued(x)
                        /\ Working(x)' <=> Working(x)
    BY <1>1, <1>2 DEF Held, Holds, Queued, Working
  <1>4. \A x \in Task : starts'[x] # starts[x] => Held(x)
    <2>1. starts' = [starts EXCEPT ![worker[w].task] = @ + 1]
      BY DEF Begin
    <2> QED BY <1>2, <2>1 DEF OnceInv, Types, TypeOK, Held, Holds
  <1>5. StartInv'
    BY <1>2 DEF StartInv
  <1> QED BY <1>2, <1>3, <1>4, <1>5, SameRecords

(* The memory goes: what remains is in the records and the table.             *)
LEMMA HaltRecords ==
  ASSUME OnceInv, RecordInv, Halt PROVE RecordInv'
  <1>1. /\ phase' = "down" /\ queue' = <<>> /\ todo' = <<>>
        /\ UNCHANGED <<disk, pending, reply, starts>>
        /\ \A w \in Worker : worker'[w] = Off
    BY DEF Halt, stored, history
  <1>2. \A x \in Task : /\ ~Queued(x)' /\ ~Held(x)' /\ ~Rejecting(x)' /\ ~Pends(x)'
    BY <1>1 DEF Queued, Held, Holds, Rejecting, Pends, Off
  <1>3. SectionInv'
    BY <1>1 DEF SectionInv, Rejecting
  <1>4. RejectInv'
    BY <1>1, <1>2 DEF RecordInv, RejectInv, Nowhere
  <1>5. StartInv' /\ ServeInv'
    BY <1>1 DEF StartInv, ServeInv
  <1> QED BY <1>3, <1>4, <1>5 DEF RecordInv

LEMMA InitRecords == Init => RecordInv
  <1> SUFFICES ASSUME Init PROVE RecordInv
    OBVIOUS
  <1>1. /\ phase = "down" /\ queue = <<>> /\ todo = <<>>
        /\ \A t \in Task : reply[t] = "none"
    BY DEF Init
  <1>2. SectionInv /\ \A t \in Task : ~Rejecting(t)
    BY <1>1, SettledBetween
  <1>3. RejectInv
    BY <1>1, <1>2 DEF RejectInv
  <1> QED BY <1>1, <1>2, <1>3 DEF RecordInv, StartInv, ServeInv

LEMMA FlushRecords == OnceInv /\ RecordInv /\ Flush => RecordInv'
  <1> SUFFICES ASSUME OnceInv, RecordInv, Flush PROVE RecordInv'
    OBVIOUS
  <1>1. /\ todo = <<>> /\ queue' = <<>> /\ phase' = "stopping"
        /\ UNCHANGED <<reg, worker, disk, pending, zombies, reply, starts, shown>>
    BY DEF Flush, Between, stored, history
  <1>2. /\ DOMAIN todo' = DOMAIN queue
        /\ \A i \in DOMAIN queue : todo'[i] = Pend(queue[i])
    BY DEF Flush
  <1>3. \A x \in Task : /\ ~Rejecting(x)' /\ ~Queued(x)'
                        /\ Pends(x)' => Queued(x)
                        /\ Held(x)' <=> Held(x)
    BY <1>1, <1>2 DEF Rejecting, Queued, Pends, Held, Holds, Pend, Answer, Op
  <1>4. SectionInv'
    BY <1>2, <1>3 DEF SectionInv, Pend, Op
  <1>5. RejectInv'
    BY <1>1, <1>3 DEF RecordInv, RejectInv, Nowhere
  <1>6. StartInv' /\ ServeInv'
    BY <1>1 DEF StartInv, ServeInv
  <1> QED BY <1>4, <1>5, <1>6 DEF RecordInv

(* The registry is read from the records that parse.                          *)
LEMMA StartRecords == ASSUME OnceInv, RecordInv, Start PROVE RecordInv'
  <1>1. /\ phase = "down" /\ phase' = "reconciling" /\ todo = <<>> /\ queue = <<>>
        /\ UNCHANGED <<queue, todo, disk, pending, zombies, reply, starts, shown>>
        /\ \A w \in Worker : worker'[w] = Free
        /\ \A t \in Task : reg'[t] = IF disk[t] = "torn" THEN "none" ELSE disk[t]
    BY DEF Start, stored, history, RecordInv, StartInv
  <1>2. \A x \in Task : ~Held(x)' /\ (Queued(x)' => Queued(x))
    BY <1>1 DEF Held, Holds, Queued, Free
  <1>3. StartInv'
    <2>1. \A x \in Task : \A y : Settled(x, y)' => disk[x] = y
      BY <1>1 DEF Settled
    <2>2. "torn" \notin Terminal
      BY DEF Terminal
    <2> QED BY <1>1, <2>1, <2>2 DEF StartInv
  <1> QED BY <1>1, <1>2, <1>3, SameRecords

LEMMA InterruptedRecords ==
  ASSUME NEW t \in Task, OnceInv, RecordInv, Reconcile(t) \/ Interrupt(t)
  PROVE  RecordInv'
  <1>1. /\ todo = <<>> /\ phase \in {"reconciling", "stopping"}
        /\ UNCHANGED <<phase, queue, worker, disk, pending, zombies, reply,
                       starts, shown>>
        /\ reg' = [reg EXCEPT ![t] = "interrupted"]
        /\ todo' = <<Empty(t), Record(t, "interrupted"), Zombie(t)>>
    BY DEF Reconcile, Interrupt, Between, stored, history
  <1>2. /\ SectionInv'
        /\ \A x \in Task : /\ \A y : Settled(x, y)' <=>
                                       y = IF x = t THEN "interrupted" ELSE disk[x]
                           /\ ~Rejecting(x)' /\ ~Pends(x)'
    BY <1>1, RecordingSections
  <1>3. \A x \in Task : \A y : Settled(x, y) <=> disk[x] = y
    BY <1>1, SettledBetween
  <1>4. \A x \in Task : (Held(x)' <=> Held(x)) /\ (Queued(x)' <=> Queued(x))
    BY <1>1 DEF Held, Holds, Queued
  <1>5. RejectInv'
    BY <1>1, <1>2, <1>4 DEF RecordInv, RejectInv, Nowhere
  <1>6. StartInv'
    <2>1. \A x \in Task : reg'[x] = IF x = t THEN "interrupted" ELSE reg[x]
      BY <1>1 DEF OnceInv, Types, TypeOK
    <2>2. "interrupted" \in Terminal
      BY DEF Terminal
    <2> QED BY <1>1, <1>2, <1>3, <2>1, <2>2 DEF RecordInv, StartInv
  <1>7. ServeInv'
    BY <1>1 DEF ServeInv
  <1> QED BY <1>2, <1>5, <1>6, <1>7 DEF RecordInv

(* Every record has ended; the workers wait.                                  *)
LEMMA StartupRecords ==
  ASSUME OnceInv, RecordInv, Reconciled \/ Serve \/ \E t \in Task : DropRow(t) \/ RequeueRow(t)
  PROVE  RecordInv'
  <1>1. /\ todo = <<>> /\ todo' = <<>> /\ phase \in {"reconciling", "recovering"}
        /\ UNCHANGED <<reg, worker, disk, zombies, reply, starts, shown>>
        /\ pending' \subseteq pending
    BY DEF Reconciled, Serve, DropRow, RequeueRow, Between, memory, stored, history
  <1>2. /\ SectionInv'
        /\ \A x \in Task : /\ ~Rejecting(x)' /\ ~Recording(x)' /\ ~Pends(x)'
                           /\ \A y : Settled(x, y)' <=> disk[x] = y
    BY <1>1 DEF SectionInv, Rejecting, Recording, Pends, Settled
  <1>3. \A x \in Task : \A y : Settled(x, y) <=> disk[x] = y
    BY <1>1, SettledBetween
  <1>4. \A x \in Task : /\ Held(x)' <=> Held(x)
                        /\ ~Working(x)'
    BY <1>1 DEF Held, Holds, Working, OnceInv, Types, WorkersOK
  <1>5. \A x \in Task : Queued(x)' =>
          Queued(x) \/ (x \in pending /\ reg[x] \notin Terminal /\ phase = "recovering")
    <2>1. CASE queue' = queue
      BY <2>1 DEF Queued
    <2>2. ASSUME NEW t \in Task, RequeueRow(t)
          PROVE  \A x \in Task : Queued(x)' => Queued(x) \/ x = t
      <3>1. \A i \in DOMAIN queue' : queue'[i] = t \/ (i \in DOMAIN queue /\ queue'[i] = queue[i])
        BY <2>2 DEF RequeueRow, OnceInv, Types, TypeOK
      <3> QED BY <3>1 DEF Queued
    <2> QED BY <2>1, <2>2
        DEF RequeueRow, Requeuable, Between, Reconciled, Serve, DropRow, memory
  <1>6. RejectInv'
    BY <1>1, <1>2, <1>4, <1>5 DEF RecordInv, RejectInv, Nowhere
  <1>7. CASE Reconciled
    <2>1. /\ phase = "reconciling" /\ phase' = "recovering" /\ queue' = queue /\ queue = <<>>
          /\ \A x \in Task : disk[x] \notin {"queued", "running"}
      BY <1>7 DEF Reconciled, Between, memory, RecordInv, StartInv
    <2>2. \A x \in Task : ~Queued(x)'
      BY <2>1 DEF Queued
    <2>3. StartInv' /\ ServeInv'
      BY <1>1, <1>3, <2>1, <2>2 DEF RecordInv, StartInv, ServeInv
    <2> QED BY <1>2, <1>6, <2>3 DEF RecordInv
  <1>8. CASE Serve
    <2>1. phase = "recovering" /\ phase' = "serving" /\ queue' = queue
      BY <1>8 DEF Serve, Between, memory
    <2>2. \A x \in Task : Queued(x)' <=> Queued(x)
      BY <2>1 DEF Queued
    <2>3. StartInv'
      BY <2>1 DEF StartInv
    <2>4. ServeInv'
      BY <1>1, <1>2, <1>4, <2>1, <2>2 DEF RecordInv, StartInv, ServeInv, Terminal
    <2> QED BY <1>2, <1>6, <2>3, <2>4 DEF RecordInv
  <1>9. ASSUME NEW t \in Task, DropRow(t) \/ RequeueRow(t) PROVE RecordInv'
    <2>1. phase = "recovering" /\ phase' = "recovering"
      BY <1>9 DEF DropRow, RequeueRow, Between
    <2>2. StartInv'
      BY <1>1, <1>5, <2>1 DEF RecordInv, StartInv
    <2>3. ServeInv'
      BY <2>1 DEF ServeInv
    <2> QED BY <1>2, <1>6, <2>2, <2>3 DEF RecordInv
  <1> QED BY <1>7, <1>8, <1>9

LEMMA QuietRecords ==
  ASSUME OnceInv, RecordInv, Consume \/ CancelWorkers PROVE RecordInv'
  <1>1. /\ todo = <<>> /\ todo' = <<>> /\ phase \in {"serving", "stopping"}
        /\ UNCHANGED <<reg, queue, worker, disk, pending, reply, starts>>
        /\ phase' = phase \/ phase' = "cancelling"
    BY DEF Consume, CancelWorkers, Between, memory, stored, history
  <1>2. \A x \in Task : /\ Held(x)' <=> Held(x)
                        /\ Queued(x)' <=> Queued(x)
                        /\ Working(x)' <=> Working(x)
    BY <1>1 DEF Held, Holds, Queued, Working
  <1>3. StartInv'
    BY <1>1 DEF StartInv
  <1> QED BY <1>1, <1>2, <1>3, SameRecords

LEMMA StutterRecords == RecordInv /\ UNCHANGED vars => RecordInv'
  <1> SUFFICES ASSUME RecordInv, UNCHANGED vars PROVE RecordInv'
    OBVIOUS
  <1> USE DEF vars, memory, stored, history
  <1>1. \A x \in Task : /\ Rejecting(x)' <=> Rejecting(x)
                        /\ Unpends(x)' <=> Unpends(x)
                        /\ Pends(x)' <=> Pends(x)
                        /\ Recording(x)' <=> Recording(x)
                        /\ Working(x)' <=> Working(x)
                        /\ Queued(x)' <=> Queued(x)
                        /\ Nowhere(x)' <=> Nowhere(x)
    BY DEF Rejecting, Unpends, Pends, Recording, Working, Queued, Nowhere, Held, Holds
  <1>2. \A x \in Task : \A y : Settled(x, y)' <=> Settled(x, y)
    BY DEF Settled, Recording
  <1>3. SectionInv'
    BY <1>1 DEF RecordInv, SectionInv
  <1>4. RejectInv'
    BY <1>1 DEF RecordInv, RejectInv
  <1>5. StartInv' /\ ServeInv'
    BY <1>1, <1>2 DEF RecordInv, StartInv, ServeInv
  <1> QED BY <1>3, <1>4, <1>5 DEF RecordInv

LEMMA RecordsInductive == OnceInv /\ RecordInv /\ [Next]_vars => RecordInv'
  <1> SUFFICES ASSUME OnceInv, RecordInv, [Next]_vars PROVE RecordInv'
    OBVIOUS
  <1>1. CASE Write
    BY <1>1, WriteRecords
  <1>2. CASE Consume \/ CancelWorkers
    BY <1>2, QuietRecords
  <1>3. CASE Start
    BY <1>3, StartRecords
  <1>4. CASE Startup
    BY <1>4, StartupRecords, InterruptedRecords DEF Startup
  <1>5. CASE Flush
    BY <1>5, FlushRecords
  <1>6. CASE Shutdown
    BY <1>6, QuietRecords, InterruptedRecords, HaltRecords DEF Shutdown, Exit
  <1>7. CASE Crash
    BY <1>7, HaltRecords DEF Crash
  <1>8. ASSUME NEW t \in Task, Submit(t) PROVE RecordInv'
    BY <1>8, SubmitRecords
  <1>9. ASSUME NEW w \in Worker, WorkerStep(w) PROVE RecordInv'
    BY <1>9, TakeRecords, BeginRecords, CompleteRecords, FailJobRecords, DoneRecords,
       CancelRecords DEF WorkerStep
  <1>10. CASE UNCHANGED vars
    BY <1>10, StutterRecords
  <1> QED BY <1>1, <1>2, <1>3, <1>4, <1>5, <1>6, <1>7, <1>8, <1>9, <1>10 DEF Next

LEMMA RecordsAlways == Spec => [](OnceInv /\ RecordInv)
  <1>1. Init => OnceInv /\ RecordInv
    BY InitStep, InitRecords
  <1>2. (OnceInv /\ RecordInv) /\ [Next]_vars => (OnceInv /\ RecordInv)'
    BY OnceInductive, RecordsInductive
  <1> QED BY <1>1, <1>2, PTL DEF Spec

(***************************************************************************)
(* A task whose submitter was told that the queue is full is never run,    *)
(* whatever the process crashes between and however often it is restarted. *)
(***************************************************************************)
THEOREM RejectedIsFinal == Spec => []RejectedNeverRuns
  <1>1. OnceInv /\ RecordInv => RejectedNeverRuns
    BY DEF RecordInv, RejectInv, Nowhere, Held, RejectedNeverRuns
  <1> QED BY <1>1, RecordsAlways, PTL

(***************************************************************************)
(* While the node serves, a record that says running has one worker, and   *)
(* one that says queued is in the queue or was rejected: the startup has   *)
(* left nothing behind that no coroutine will ever touch.                  *)
(***************************************************************************)
THEOREM NoRecordIsStuck == Spec => []NoStuckRecord
  <1>1. OnceInv /\ RecordInv => NoStuckRecord
    <2> SUFFICES ASSUME OnceInv, RecordInv, Between("serving"), NEW t \in Task
                 PROVE  /\ disk[t] = "running" =>
                             \E w \in Worker :
                               Holds(w, t) /\ \A v \in Worker : Holds(v, t) => v = w
                        /\ disk[t] = "queued" => Queued(t) \/ reply[t] = "rejected"
      BY DEF NoStuckRecord
    <2>1. phase = "serving" /\ todo = <<>>
      BY DEF Between
    <2>2. ~Rejecting(t) /\ \A y : Settled(t, y) <=> disk[t] = y
      BY <2>1, SettledBetween
    <2>3. disk[t] = "running" => \E w \in Worker : Holds(w, t)
      BY <2>1, <2>2 DEF RecordInv, ServeInv, Working, Holds
    <2>4. disk[t] = "queued" => Queued(t) \/ reply[t] = "rejected"
      BY <2>1, <2>2 DEF RecordInv, ServeInv
    <2> QED BY <2>3, <2>4 DEF OnceInv, OnePlace
  <1> QED BY <1>1, RecordsAlways, PTL

(***************************************************************************)
(* While the node serves, the record of a task that has ended is left as   *)
(* it is, by workers, submissions and the writes they have still to make.  *)
(***************************************************************************)
THEOREM EndedRecordsKept == Spec => TerminalKept
  <1>1. OnceInv /\ RecordInv /\ [Next]_vars =>
          \A t \in Task : phase = "serving" /\ disk[t] \in Terminal => disk'[t] = disk[t]
    <2> SUFFICES ASSUME OnceInv, RecordInv, [Next]_vars, NEW t \in Task,
                        phase = "serving", disk[t] \in Terminal
                 PROVE  disk'[t] = disk[t]
      OBVIOUS
    <2>1. CASE Write
      <3>1. ~Recording(t)
        BY DEF RecordInv, ServeInv
      <3>2. 1 \in DOMAIN todo /\ todo[1] = Head(todo)
        BY <2>1, Shifted DEF OnceInv
      <3>3. ~(todo[1].kind = "record" /\ todo[1].task = t)
        BY <3>1, <3>2 DEF Recording
      <3>4. ~(todo[1].kind = "empty" /\ todo[1].task = t)
        <4> SUFFICES ASSUME todo[1].kind = "empty", todo[1].task = t PROVE FALSE
          OBVIOUS
        <4>1. 1 + 1 \in DOMAIN todo /\ todo[1 + 1].kind = "record" /\ todo[1 + 1].task = t
          BY <3>2 DEF RecordInv, SectionInv
        <4> QED BY <3>1, <4>1 DEF Recording
      <3> QED BY <2>1, <3>2, <3>3, <3>4, WriteEffect DEF OnceInv
    <2>2. CASE ~Write
      BY <2>2
         DEF Next, Startup, Shutdown, WorkerStep, Submit, Take, Begin, Complete, FailJob,
             Done, Cancel, Settle, Consume, Start, Reconcile, Reconciled, DropRow,
             RequeueRow, Serve, Flush, Interrupt, CancelWorkers, Halt, Exit, Crash,
             vars, memory, stored, history
    <2> QED BY <2>1, <2>2
  <1> QED BY <1>1, RecordsAlways, PTL DEF Spec, TerminalKept
=============================================================================
