---------------------- MODULE DeferredScheduler_proofs ----------------------
(***************************************************************************)
(* Theorems about DeferredScheduler, for any tasks and instants, any       *)
(* calling threads, and any number of restarts: types, at most one run of  *)
(* a task, and what becomes of schedules and cancellations as long as no   *)
(* change of the file is lost.                                             *)
(***************************************************************************)
EXTENDS DeferredScheduler, TLAPS

ThreadRec == [pc: Pc, op: Op, id: Id \cup {NoId}, seen: SUBSET Id]

(* What a thread that is not idle works on is an id. *)
Busy == \A h \in Thread : thread[h].pc # "idle" => thread[h].id \in Id

(* A process that is down has no jobs and no threads, and may be started. *)
Down == ~up => epoch < MaxEpoch /\ jobs = {} /\ thread = [h \in Thread |-> Idle]

Types == TypeOK /\ Busy /\ Down

LEMMA RowsType ==
  ASSUME Types, NEW h \in Thread, thread[h].pc # "idle"
  PROVE  Rows(h) \in SUBSET Id
BY DEF Types, TypeOK, Busy, Rows

LEMMA RetractedType ==
  ASSUME TypeOK, NEW id
  PROVE  /\ Retracted(id) \in [Thread -> ThreadRec]
         /\ \A h \in Thread : /\ Retracted(id)[h].pc = thread[h].pc
                              /\ Retracted(id)[h].id = thread[h].id
                              /\ Retracted(id)[h].seen = thread[h].seen
                              /\ Retracted(id)[h].op \in {thread[h].op, "remove"}
                              /\ (Retracted(id)[h].op = "append" <=> thread[h].op = "append")
                              /\ (Retracted(id)[h].op = "cancel"
                                   <=> thread[h].op = "cancel" /\ thread[h].id # id)
<1>1. \A h \in Thread : thread[h] \in ThreadRec
  BY DEF TypeOK, ThreadRec
<1>2. \A h \in Thread : [thread[h] EXCEPT !.op = "remove"] \in ThreadRec
  BY <1>1 DEF ThreadRec, Op
<1>3. Retracted(id) \in [Thread -> ThreadRec]
  BY <1>1, <1>2 DEF Retracted
<1>4. \A h \in Thread : /\ [thread[h] EXCEPT !.op = "remove"].pc = thread[h].pc
                        /\ [thread[h] EXCEPT !.op = "remove"].id = thread[h].id
                        /\ [thread[h] EXCEPT !.op = "remove"].seen = thread[h].seen
                        /\ [thread[h] EXCEPT !.op = "remove"].op = "remove"
  BY <1>1 DEF ThreadRec
<1> QED
  BY <1>1, <1>3, <1>4 DEF Retracted, ThreadRec, Op

LEMMA TypesInit == Init => Types
BY TimeAssumption, NoIdAssumption DEF Init, Types, Down, TypeOK, Busy, Idle, Json, Pc, Op

LEMMA TypesStep == Types /\ [Next]_vars => Types'
<1> SUFFICES ASSUME Types, [Next]_vars PROVE Types'
  OBVIOUS
<1> USE DEF Types
<1>1. ASSUME NEW c \in Caller, NEW t \in Task, Schedule(c, t) PROVE Types'
  <2>1. <<epoch, t>> \in Id /\ c \in Thread
    BY DEF TypeOK, Id, Thread
  <2>2. [pc |-> "read", op |-> "append", id |-> <<epoch, t>>, seen |-> {}] \in ThreadRec
    BY <2>1 DEF ThreadRec, Pc, Op
  <2>3. thread' \in [Thread -> ThreadRec]
    BY <1>1, <2>1, <2>2, RetractedType DEF Schedule
  <2>4. Busy'
    BY <1>1, <2>1, RetractedType DEF Schedule, Busy
  <2>5. calls' \in 0..MaxCalls
    BY <1>1, TimeAssumption DEF Schedule, TypeOK
  <2> QED
    BY <1>1, <2>3, <2>4, <2>5 DEF Schedule, TypeOK, ThreadRec, Down
<1>2. ASSUME NEW c \in Caller, NEW id \in Id, Cancel(c, id) PROVE Types'
  <2>1. c \in Thread
    BY DEF Thread
  <2> DEFINE op == IF Found(id) /\ ~Appending(id) THEN "cancel" ELSE "remove"
  <2>2. [pc |-> "read", id |-> id, seen |-> {}, op |-> op] \in ThreadRec
    BY DEF ThreadRec, Pc, Op
  <2>3. thread' = [thread EXCEPT ![c] = [pc |-> "read", id |-> id, seen |-> {}, op |-> op]]
    BY <1>2 DEF Cancel
  <2>4. thread' \in [Thread -> ThreadRec] /\ Busy'
    BY <2>1, <2>2, <2>3 DEF TypeOK, Busy, ThreadRec
  <2>5. calls' \in 0..MaxCalls
    BY <1>2, TimeAssumption DEF Cancel, TypeOK
  <2> QED
    BY <1>2, <2>4, <2>5 DEF Cancel, TypeOK, ThreadRec, Down
<1>3. ASSUME NEW h \in Thread, ReadFile(h) PROVE Types'
  BY <1>3 DEF ReadFile, TypeOK, Busy, Down, Idle, Pc, history
<1>4. ASSUME NEW h \in Thread, SkipFile(h) PROVE Types'
  BY <1>4 DEF SkipFile, Finish, TypeOK, Busy, Down, Idle, Pc, Op
<1>5. ASSUME NEW h \in Thread, Truncate(h) PROVE Types'
  BY <1>5 DEF Truncate, TypeOK, Busy, Down, Idle, Pc, Empty
<1>6. ASSUME NEW h \in Thread, WriteFile(h) PROVE Types'
  <2>1. file' \in [form: {"json", "empty", "garbled"}, rows: SUBSET Id]
    BY <1>6, RowsType DEF WriteFile, Json, Garbled
  <2> QED
    BY <1>6, <2>1 DEF WriteFile, Finish, TypeOK, Busy, Down, Idle, Pc, Op
<1>7. ASSUME NEW t \in Task, Fire(t) PROVE Types'
  <2>1. <<epoch, t>> \in Id /\ t \in Thread
    BY DEF TypeOK, Id, Thread
  <2>2. runs' \in [Task -> Nat]
    BY <1>7 DEF Fire, TypeOK
  <2> QED
    BY <1>7, <2>1, <2>2 DEF Fire, TypeOK, Busy, Down, Pc, Op
<1>8. ASSUME NEW t \in Task, Misfire(t) PROVE Types'
  BY <1>8 DEF Misfire, TypeOK, Busy, Down, Idle
<1>9. ASSUME NEW t \in Task, EndRun(t) PROVE Types'
  BY <1>9 DEF EndRun, TypeOK, Busy, Down, Idle, Pc, history, Thread
<1>10. CASE Tick
  BY <1>10, TimeAssumption DEF Tick, TypeOK, Busy, Down, Idle, history
<1>11. CASE Crash
  BY <1>11, TimeAssumption DEF Crash, TypeOK, Busy, Down, Idle, Pc, Op
<1>12. CASE Start
  <2>1. epoch' \in 0..MaxEpoch
    BY <1>12, TimeAssumption DEF Start, TypeOK, Down
  <2> QED
  BY <1>12, <2>1 DEF Start, Restored, TypeOK, Busy, Down, Idle
<1>13. CASE UNCHANGED vars
  BY <1>13 DEF vars, history, TypeOK, Busy, Down, Idle
<1> QED
  BY <1>1, <1>2, <1>3, <1>4, <1>5, <1>6, <1>7, <1>8, <1>9, <1>10, <1>11, <1>12, <1>13 DEF Next

(* The variables keep their types. *)
THEOREM SchedulerTypes == Spec => []TypeOK
<1>1. Spec => []Types
  BY TypesInit, TypesStep, PTL DEF Spec
<1>2. Types => TypeOK
  BY DEF Types
<1> QED
  BY <1>1, <1>2, PTL

-----------------------------------------------------------------------------
(* A task that has been started has no job, and its time has come: neither a *)
(* schedule nor a restore takes it again.                                    *)
Started == \A t \in Task : runs[t] > 0 => t \notin jobs /\ FireAt[t] <= clock

SingleInv == Types /\ Started /\ SingleRun

LEMMA SingleStep == SingleInv /\ [Next]_vars => SingleInv'
<1> SUFFICES ASSUME SingleInv, [Next]_vars PROVE Started' /\ SingleRun'
  BY TypesStep DEF SingleInv
<1> USE TimeAssumption DEF SingleInv, Types, Started, SingleRun
<1>1. ASSUME NEW c \in Caller, NEW t \in Task, Schedule(c, t) PROVE Started' /\ SingleRun'
  BY <1>1 DEF Schedule, Ahead, TypeOK
<1>2. ASSUME NEW c \in Caller, NEW id \in Id, Cancel(c, id) PROVE Started' /\ SingleRun'
  BY <1>2 DEF Cancel
<1>3. ASSUME NEW h \in Thread, ReadFile(h) \/ SkipFile(h) \/ Truncate(h) \/ WriteFile(h)
      PROVE  Started' /\ SingleRun'
  BY <1>3 DEF ReadFile, SkipFile, Truncate, WriteFile, history
<1>4. ASSUME NEW t \in Task, Fire(t) PROVE Started' /\ SingleRun'
  <2>1. runs[t] = 0
    BY <1>4 DEF Fire, TypeOK
  <2>2. runs'[t] = 1 /\ \A u \in Task : u # t => runs'[u] = runs[u]
    BY <1>4, <2>1 DEF Fire, TypeOK
  <2> QED
    BY <1>4, <2>2 DEF Fire, TypeOK
<1>5. ASSUME NEW t \in Task, Misfire(t) \/ EndRun(t) PROVE Started' /\ SingleRun'
  BY <1>5 DEF Misfire, EndRun, history
<1>6. CASE Tick
  BY <1>6 DEF Tick, history, TypeOK
<1>7. CASE Crash
  BY <1>7 DEF Crash
<1>8. CASE Start
  BY <1>8 DEF Start, Restored, Ahead, TypeOK
<1>9. CASE UNCHANGED vars
  BY <1>9 DEF vars, history
<1> QED
  BY <1>1, <1>2, <1>3, <1>4, <1>5, <1>6, <1>7, <1>8, <1>9 DEF Next

(* A task is started at most once, through any number of restarts. *)
THEOREM SingleRunHolds == Spec => []SingleRun
<1>1. Init => SingleInv
  BY TypesInit DEF Init, SingleInv, Started, SingleRun
<1>2. SingleInv => SingleRun
  BY DEF SingleInv
<1> QED
  BY <1>1, <1>2, SingleStep, PTL DEF Spec

-----------------------------------------------------------------------------
Writes(h) == thread[h].pc = "write"

(* The file has a row of this id, or will have once it is written. *)
InFile(id) ==
  IF Readable
    THEN id \in file.rows
    ELSE \E h \in Thread : thread[h].pc = "write" /\ id \in Rows(h)

(* While no change has been lost, one thread at a time has the file open, and *)
(* a file that does not parse has such a thread.                              *)
FileInv ==
  clean => /\ \A h, k \in Thread : Writes(h) /\ Writes(k) => h = k
           /\ (\E h \in Thread : Writes(h)) => file = Empty
           /\ Readable \/ \E h \in Thread : Writes(h)

(* A step that leaves the file and its writers alone. *)
Untouched ==
  /\ file' = file
  /\ clean' => clean
  /\ \A h \in Thread : (Writes(h)' <=> Writes(h)) /\ (Writes(h) => Rows(h)' = Rows(h))

LEMMA UntouchedFile ==
  ASSUME Untouched
  PROVE  /\ FileInv => FileInv'
         /\ \A id \in Id : (InFile(id)' <=> InFile(id))
<1>1. FileInv => FileInv'
  BY DEF Untouched, FileInv, Readable, Writes
<1>2. \A id \in Id : InFile(id)' <=> InFile(id)
  BY DEF Untouched, InFile, Readable, Writes
<1> QED
  BY <1>1, <1>2

LEMMA ScheduleUntouched ==
  ASSUME Types, NEW c \in Caller, NEW t \in Task, Schedule(c, t)
  PROVE  Untouched
<1>1. c \in Thread /\ TypeOK
  BY DEF Thread, Types
<1>2. \A h \in Thread : h # c => thread'[h] = Retracted(<<epoch, t>>)[h]
  BY <1>1, RetractedType DEF Schedule
<1>3. thread'[c].pc = "read" /\ thread[c].pc = "idle"
  BY <1>1, RetractedType DEF Schedule
<1>4. ASSUME NEW h \in Thread
      PROVE  (Writes(h)' <=> Writes(h)) /\ (Writes(h) => Rows(h)' = Rows(h))
  <2>1. CASE h = c
    BY <1>3, <2>1 DEF Writes
  <2>2. CASE h # c
    <3>1. thread'[h] = Retracted(<<epoch, t>>)[h]
      BY <1>2, <2>2
    <3>2. /\ thread'[h].pc = thread[h].pc
          /\ thread'[h].id = thread[h].id
          /\ thread'[h].seen = thread[h].seen
          /\ (thread'[h].op = "append" <=> thread[h].op = "append")
      BY <1>1, <3>1, RetractedType
    <3> QED
      BY <3>2 DEF Writes, Rows
  <2> QED
    BY <2>1, <2>2
<1> QED
  BY <1>4 DEF Schedule, Untouched

LEMMA CancelUntouched ==
  ASSUME Types, NEW c \in Caller, NEW id \in Id, Cancel(c, id)
  PROVE  Untouched
<1>1. \A h \in Thread : h # c => thread'[h] = thread[h]
  BY DEF Cancel, Types, TypeOK
<1>2. ~Writes(c) /\ ~Writes(c)'
  BY DEF Cancel, Types, TypeOK, Thread, Writes
<1>3. \A h \in Thread : (Writes(h)' <=> Writes(h)) /\ (Writes(h) => Rows(h)' = Rows(h))
  BY <1>1, <1>2 DEF Writes, Rows
<1> QED
  BY <1>3 DEF Cancel, Untouched

LEMMA ReadUntouched ==
  ASSUME Types, NEW h \in Thread, ReadFile(h) \/ SkipFile(h)
  PROVE  Untouched
<1>1. \A k \in Thread : k # h => thread'[k] = thread[k]
  BY DEF ReadFile, SkipFile, Finish, Types, TypeOK
<1>2. ~Writes(h) /\ ~Writes(h)'
  BY DEF ReadFile, SkipFile, Finish, Idle, Types, TypeOK, Writes
<1>3. \A k \in Thread : (Writes(k)' <=> Writes(k)) /\ (Writes(k) => Rows(k)' = Rows(k))
  BY <1>1, <1>2 DEF Writes, Rows
<1>4. file' = file /\ (clean' => clean)
  BY DEF ReadFile, SkipFile, history
<1> QED
  BY <1>3, <1>4 DEF Untouched

LEMMA JobUntouched ==
  ASSUME Types, NEW t \in Task, Fire(t) \/ Misfire(t) \/ EndRun(t)
  PROVE  Untouched
<1>1. \A k \in Thread : k # t => thread'[k] = thread[k]
  BY DEF Fire, Misfire, EndRun, Types, TypeOK, Thread
<1>2. ~(Misfire(t)) => ~Writes(t) /\ ~Writes(t)'
  BY DEF Fire, EndRun, Types, TypeOK, Writes, Thread
<1>3. \A k \in Thread : (Writes(k)' <=> Writes(k)) /\ (Writes(k) => Rows(k)' = Rows(k))
  BY <1>1, <1>2 DEF Misfire, Writes, Rows
<1>4. file' = file /\ (clean' => clean)
  BY DEF Fire, Misfire, EndRun, history
<1> QED
  BY <1>3, <1>4 DEF Untouched

LEMMA ClockUntouched ==
  ASSUME Types, Tick \/ Start \/ UNCHANGED vars
  PROVE  Untouched
BY DEF Tick, Start, vars, history, Untouched, Writes, Rows

(* The process ends: a clean file parses and stays what it is. *)
LEMMA CrashFile ==
  ASSUME Types, FileInv, Crash
  PROVE  FileInv' /\ (clean' => clean /\ \A id \in Id : (InFile(id)' <=> InFile(id)))
BY DEF Crash, FileInv, InFile, Readable, Writes, Idle

(* The change takes effect when the file is opened. *)
LEMMA TruncateFile ==
  ASSUME Types, FileInv, NEW h \in Thread, Truncate(h)
  PROVE  /\ FileInv'
         /\ clean' => /\ clean
                      /\ \A id \in Id : (InFile(id)' <=>
                            IF id = thread[h].id
                              THEN thread[h].op = "append"
                              ELSE InFile(id))
<1> USE DEF Types, TypeOK
<1>1. SUFFICES ASSUME clean' PROVE FileInv' /\ clean /\ \A id \in Id : (InFile(id)' <=>
                            IF id = thread[h].id
                              THEN thread[h].op = "append"
                              ELSE InFile(id))
  BY DEF FileInv
<1>2. clean /\ file = Json(thread[h].seen) /\ Readable /\ file.rows = thread[h].seen
  <2>1. clean /\ file = Json(thread[h].seen)
    BY <1>1, Zenon DEF Truncate
  <2> QED
    BY <2>1 DEF Json, Readable
<1>3. \A k \in Thread : ~Writes(k)
  BY <1>2 DEF FileInv, Empty, Readable
<1>4. file' = Empty /\ ~Readable' /\ \A k \in Thread : (Writes(k)' <=> k = h)
  BY <1>3 DEF Truncate, Empty, Readable, Writes
<1>5. Rows(h)' = Rows(h)
  BY DEF Truncate, Rows
<1>6. \A id \in Id : InFile(id)' <=> id \in Rows(h)
  BY <1>4, <1>5 DEF InFile, Writes
<1>7. \A id \in Id : InFile(id) <=> id \in thread[h].seen
  BY <1>2 DEF InFile
<1>8. \A id \in Id : InFile(id)' <=>
        IF id = thread[h].id THEN thread[h].op = "append" ELSE InFile(id)
  BY <1>6, <1>7 DEF Rows
<1> QED
  BY <1>2, <1>4, <1>8 DEF FileInv

LEMMA WriteFileFile ==
  ASSUME Types, FileInv, NEW h \in Thread, WriteFile(h)
  PROVE  /\ FileInv'
         /\ clean' => /\ clean
                      /\ \A id \in Id : /\ (InFile(id)' <=> InFile(id))
                                        /\ (InFile(id) <=> id \in Rows(h))
<1> USE DEF Types, TypeOK
<1>1. SUFFICES ASSUME clean'
               PROVE  /\ FileInv'
                      /\ \A id \in Id : /\ (InFile(id)' <=> InFile(id))
                                        /\ (InFile(id) <=> id \in Rows(h))
  BY DEF FileInv, WriteFile
<1>2. clean /\ file = Empty /\ ~Readable /\ \A k \in Thread : Writes(k) => k = h
  BY <1>1 DEF WriteFile, FileInv, Writes, Empty, Readable
<1>3. file' = Json(Rows(h)) /\ Readable' /\ file'.rows = Rows(h)
  BY <1>2 DEF WriteFile, Json, Readable
<1>4. \A k \in Thread : ~Writes(k)'
  BY <1>2 DEF WriteFile, Finish, Idle, Writes
<1>5. \A id \in Id : InFile(id)' <=> id \in Rows(h)
  BY <1>3 DEF InFile
<1>6. \A id \in Id : InFile(id) <=> id \in Rows(h)
  BY <1>2 DEF InFile, WriteFile, Writes
<1> QED
  BY <1>3, <1>4, <1>5, <1>6 DEF FileInv

LEMMA FileStep == Types /\ FileInv /\ [Next]_vars => FileInv'
<1> SUFFICES ASSUME Types, FileInv, [Next]_vars PROVE FileInv'
  OBVIOUS
<1>1. ASSUME NEW c \in Caller, NEW t \in Task, Schedule(c, t) PROVE FileInv'
  BY <1>1, ScheduleUntouched, UntouchedFile
<1>2. ASSUME NEW c \in Caller, NEW id \in Id, Cancel(c, id) PROVE FileInv'
  BY <1>2, CancelUntouched, UntouchedFile
<1>3. ASSUME NEW h \in Thread, ReadFile(h) \/ SkipFile(h) PROVE FileInv'
  BY <1>3, ReadUntouched, UntouchedFile
<1>4. ASSUME NEW h \in Thread, Truncate(h) PROVE FileInv'
  BY <1>4, TruncateFile
<1>5. ASSUME NEW h \in Thread, WriteFile(h) PROVE FileInv'
  BY <1>5, WriteFileFile
<1>6. ASSUME NEW t \in Task, Fire(t) \/ Misfire(t) \/ EndRun(t) PROVE FileInv'
  BY <1>6, JobUntouched, UntouchedFile
<1>7. CASE Tick \/ Start \/ UNCHANGED vars
  BY <1>7, ClockUntouched, UntouchedFile
<1>8. CASE Crash
  BY <1>8, CrashFile
<1> QED
  BY <1>1, <1>2, <1>3, <1>4, <1>5, <1>6, <1>7, <1>8 DEF Next

-----------------------------------------------------------------------------
(* What the threads work on: a schedule on an id of this process, the thread  *)
(* of a job on the row of that job, which has been started.                   *)
ThreadInv ==
  /\ \A h \in Thread : thread[h].pc # "idle" /\ thread[h].op = "append"
                          => thread[h].id[1] = epoch
  /\ \A t \in Task : thread[t].pc # "idle"
                          => thread[t].op = "remove" /\ thread[t].id = <<epoch, t>> /\ runs[t] > 0

Cancelling(id) ==
  \E h \in Thread : thread[h].pc # "idle" /\ thread[h].op = "cancel" /\ thread[h].id = id

(* An id whose cancellation is answered ok, or is going to be, is of this or an *)
(* earlier process, has no job and is not being scheduled.                      *)
CancelInv ==
  \A id \in Id : id \in cancelled \/ Cancelling(id)
    => id[1] <= epoch /\ ~(up /\ Found(id)) /\ ~Appending(id)

(* One whose cancellation is going to be answered ok is of this process, and   *)
(* its task has not been started.                                              *)
CancelNow == \A id \in Id : Cancelling(id) => id[1] = epoch /\ runs[id[2]] = 0

(* A task whose cancellation was answered ok is not being scheduled. *)
Quiet == \A id \in cancelled : \A e \in 0..MaxEpoch : ~Appending(<<e, id[2]>>)

(* What <<e, t>> in the file says of t when another process than this one made *)
(* the row and t was not restored: its time is up, and nobody cancels it.      *)
Stale(t) ==
  /\ t \notin jobs /\ ~Ahead(t)
  /\ <<epoch, t>> \notin cancelled /\ ~Cancelling(<<epoch, t>>)

OldInv ==
  clean /\ up => \A t \in Task : \A e \in 0..MaxEpoch :
    e # epoch /\ InFile(<<e, t>>) /\ t \notin restored => Stale(t)

(* A task whose cancellation was answered ok has no row, whoever wrote it, if it *)
(* had not been restored.                                                      *)
Out(i, r) == clean /\ i \in cancelled /\ i[2] = r[2] /\ r[2] \notin restored => ~InFile(r)

CancelledOut == \A i, r \in Id : Out(i, r)

(* CancelHolds, for one id. *)
Holds(i) ==
  i[1] = epoch \/ (clean /\ i[2] \notin restored) => i[2] \notin jobs /\ runs[i[2]] = 0

HoldsInv == \A i \in Id : i \in cancelled => Holds(i)

(* An accepted task that is still to come has a row that nobody is removing, or *)
(* is about to get one.                                                         *)
Backed(t) ==
  \E e \in 0..MaxEpoch :
    /\ ~Removing(<<e, t>>)
    /\ InFile(<<e, t>>) \/ (e = epoch /\ Appending(<<e, t>>))

SurviveInv ==
  clean => \A t \in accepted :
             runs[t] = 0 /\ t \notin missed => (up => t \in jobs) /\ Backed(t)

-----------------------------------------------------------------------------
Job(h) == thread[h].pc # "idle"

(* One thread goes on, or ends: what is being appended, removed or cancelled  *)
(* was before.                                                                *)
LEMMA GoesOn ==
  ASSUME NEW h \in Thread,
         \A k \in Thread : k # h => thread'[k] = thread[k],
         Job(h)' => Job(h) /\ thread'[h].op = thread[h].op /\ thread'[h].id = thread[h].id
  PROVE  \A id \in Id : /\ Appending(id)' => Appending(id)
                        /\ Removing(id)' => Removing(id)
                        /\ Cancelling(id)' => Cancelling(id)
                        /\ Job(h)' /\ Appending(id) => Appending(id)'
BY DEF Appending, Removing, Cancelling, Job

LEMMA FileStepCalls ==
  ASSUME Types, NEW h \in Thread, ReadFile(h) \/ SkipFile(h) \/ Truncate(h) \/ WriteFile(h)
  PROVE  /\ \A k \in Thread : k # h => thread'[k] = thread[k]
         /\ Job(h)' => Job(h) /\ thread'[h].op = thread[h].op /\ thread'[h].id = thread[h].id
         /\ Job(h)
         /\ ReadFile(h) \/ Truncate(h) => Job(h)'
<1> USE DEF Types, TypeOK, Job
<1>1. CASE ReadFile(h) \/ Truncate(h)
  BY <1>1 DEF ReadFile, Truncate
<1>2. CASE SkipFile(h) \/ WriteFile(h)
  BY <1>2 DEF ReadFile, Truncate, SkipFile, WriteFile, Finish, Idle
<1> QED
  BY <1>1, <1>2

LEMMA EndRunCalls ==
  ASSUME Types, NEW t \in Task, EndRun(t)
  PROVE  /\ t \in Thread
         /\ \A k \in Thread : k # t => thread'[k] = thread[k]
         /\ Job(t)' /\ Job(t) /\ thread'[t].op = thread[t].op /\ thread'[t].id = thread[t].id
BY DEF Types, TypeOK, Job, EndRun, Thread

LEMMA ScheduleCalls ==
  ASSUME Types, NEW c \in Caller, NEW t \in Task, Schedule(c, t)
  PROVE  /\ c \in Thread /\ <<epoch, t>> \in Id
         /\ thread'[c] = [pc |-> "read", op |-> "append", id |-> <<epoch, t>>, seen |-> {}]
         /\ ~Job(c)
         /\ \A h \in Thread : h # c =>
               /\ thread'[h].pc = thread[h].pc
               /\ thread'[h].id = thread[h].id
               /\ (thread'[h].op = "append" <=> thread[h].op = "append")
               /\ thread'[h].op \in {thread[h].op, "remove"}
               /\ (thread'[h].op = "cancel" <=> thread[h].op = "cancel" /\ thread[h].id # <<epoch, t>>)
         /\ \A id \in Id : /\ (Removing(id)' <=> Removing(id))
                           /\ (Appending(id)' <=> (Appending(id) \/ id = <<epoch, t>>))
                           /\ (Cancelling(id)' <=> (Cancelling(id) /\ id # <<epoch, t>>))
<1>1. c \in Thread /\ <<epoch, t>> \in Id /\ TypeOK
  BY DEF Thread, Types, TypeOK, Id
<1>2. thread'[c] = [pc |-> "read", op |-> "append", id |-> <<epoch, t>>, seen |-> {}]
  BY <1>1, RetractedType DEF Schedule
<1>3. \A h \in Thread : h # c => thread'[h] = Retracted(<<epoch, t>>)[h]
  BY <1>1, RetractedType DEF Schedule
<1>4. \A h \in Thread : h # c =>
               /\ thread'[h].pc = thread[h].pc
               /\ thread'[h].id = thread[h].id
               /\ (thread'[h].op = "append" <=> thread[h].op = "append")
               /\ thread'[h].op \in {thread[h].op, "remove"}
               /\ (thread'[h].op = "cancel" <=> thread[h].op = "cancel" /\ thread[h].id # <<epoch, t>>)
  BY <1>1, <1>3, RetractedType
<1>5. ~Job(c) /\ Job(c)' /\ thread'[c].op = "append" /\ thread'[c].id = <<epoch, t>>
  BY <1>2 DEF Schedule, Job
<1>6. \A id \in Id : Removing(id)' <=> Removing(id)
  BY <1>1, <1>4, <1>5 DEF Removing, Job
<1>7. \A id \in Id : Appending(id)' <=> (Appending(id) \/ id = <<epoch, t>>)
  BY <1>1, <1>4, <1>5 DEF Appending, Job
<1>8. \A id \in Id : Cancelling(id)' <=> (Cancelling(id) /\ id # <<epoch, t>>)
  BY <1>1, <1>4, <1>5 DEF Cancelling, Job
<1> QED
  BY <1>1, <1>2, <1>4, <1>5, <1>6, <1>7, <1>8

LEMMA CancelCalls ==
  ASSUME Types, NEW c \in Caller, NEW id \in Id, Cancel(c, id)
  PROVE  /\ c \in Thread
         /\ ~Job(c) /\ Job(c)' /\ thread'[c].id = id /\ thread'[c].op # "append"
         /\ (thread'[c].op = "cancel" <=> Found(id) /\ ~Appending(id))
         /\ \A h \in Thread : h # c => thread'[h] = thread[h]
         /\ \A i \in Id : /\ (Removing(i)' <=> (Removing(i) \/ i = id))
                          /\ (Appending(i)' <=> Appending(i))
                          /\ (Cancelling(i)' <=>
                               (Cancelling(i) \/ (i = id /\ Found(id) /\ ~Appending(id))))
<1>1. c \in Thread
  BY DEF Thread
<1>2. \A h \in Thread : h # c => thread'[h] = thread[h]
  BY DEF Cancel, Types, TypeOK
<1>3. thread'[c] = [pc |-> "read", id |-> id, seen |-> {},
                    op |-> IF Found(id) /\ ~Appending(id) THEN "cancel" ELSE "remove"]
  BY <1>1 DEF Cancel, Types, TypeOK
<1>4. ~Job(c) /\ Job(c)' /\ thread'[c].id = id
  BY <1>3 DEF Cancel, Job
<1>5. /\ thread'[c].op # "append"
      /\ (thread'[c].op = "cancel" <=> Found(id) /\ ~Appending(id))
  BY <1>3
<1>6. \A i \in Id : Removing(i)' <=> (Removing(i) \/ i = id)
  BY <1>1, <1>2, <1>4, <1>5 DEF Removing, Job
<1>7. \A i \in Id : Appending(i)' <=> Appending(i)
  BY <1>1, <1>2, <1>4, <1>5 DEF Appending, Job
<1>8. \A i \in Id : Cancelling(i)' <=>
                       (Cancelling(i) \/ (i = id /\ Found(id) /\ ~Appending(id)))
  BY <1>1, <1>2, <1>4, <1>5 DEF Cancelling, Job
<1> QED
  BY <1>1, <1>2, <1>4, <1>5, <1>6, <1>7, <1>8

LEMMA FireCalls ==
  ASSUME Types, NEW t \in Task, Fire(t)
  PROVE  /\ t \in Thread /\ <<epoch, t>> \in Id
         /\ ~Job(t) /\ Job(t)' /\ thread'[t].id = <<epoch, t>> /\ thread'[t].op = "remove"
         /\ \A h \in Thread : h # t => thread'[h] = thread[h]
         /\ \A i \in Id : /\ (Removing(i)' <=> (Removing(i) \/ i = <<epoch, t>>))
                          /\ (Appending(i)' <=> Appending(i))
                          /\ (Cancelling(i)' <=> Cancelling(i))
<1>1. t \in Thread /\ <<epoch, t>> \in Id
  BY DEF Thread, Types, TypeOK, Id
<1>2. \A h \in Thread : h # t => thread'[h] = thread[h]
  BY DEF Fire, Types, TypeOK
<1>3. ~Job(t) /\ Job(t)' /\ thread'[t].id = <<epoch, t>> /\ thread'[t].op = "remove"
  BY <1>1 DEF Fire, Types, TypeOK, Job
<1>4. \A i \in Id : Removing(i)' <=> (Removing(i) \/ i = <<epoch, t>>)
  BY <1>1, <1>2, <1>3 DEF Removing, Job
<1>5. \A i \in Id : Appending(i)' <=> Appending(i)
  BY <1>1, <1>2, <1>3 DEF Appending, Job
<1>6. \A i \in Id : Cancelling(i)' <=> Cancelling(i)
  BY <1>1, <1>2, <1>3 DEF Cancelling, Job
<1> QED
  BY <1>1, <1>2, <1>3, <1>4, <1>5, <1>6

(* No thread is left after a crash, and none is there at a start. *)
LEMMA CrashCalls ==
  ASSUME Crash \/ (Types /\ Start)
  PROVE  /\ \A h \in Thread : ~Job(h)'
         /\ \A id : ~Appending(id)' /\ ~Removing(id)' /\ ~Cancelling(id)'
<1>1. \A h \in Thread : ~Job(h)'
  BY DEF Crash, Start, Types, Down, Idle, Job
<1> QED
  BY <1>1 DEF Appending, Removing, Cancelling, Job

-----------------------------------------------------------------------------
LEMMA ThreadStep == Types /\ ThreadInv /\ [Next]_vars => ThreadInv'
<1> SUFFICES ASSUME Types, ThreadInv, [Next]_vars PROVE ThreadInv'
  OBVIOUS
<1> USE ThreadAssumption
<1>1. ASSUME NEW c \in Caller, NEW t \in Task, Schedule(c, t) PROVE ThreadInv'
  <2>1. epoch' = epoch /\ runs' = runs
    BY <1>1 DEF Schedule
  <2>0. thread'[c].id = <<epoch, t>>
    <3>1. thread'[c] = [pc |-> "read", op |-> "append", id |-> <<epoch, t>>, seen |-> {}]
      BY <1>1, ScheduleCalls
    <3> QED
      BY <3>1
  <2>2. thread'[c].id[1] = epoch
    BY <2>0
  <2>3. \A h \in Thread : h # c => /\ thread'[h].pc = thread[h].pc
                                   /\ thread'[h].id = thread[h].id
                                   /\ (thread'[h].op = "append" <=> thread[h].op = "append")
                                   /\ thread'[h].op \in {thread[h].op, "remove"}
    BY <1>1, ScheduleCalls
  <2>4. \A u \in Task : u # c /\ u \in Thread
    BY DEF Thread
  <2>5. ASSUME NEW h \in Thread, thread'[h].pc # "idle", thread'[h].op = "append"
        PROVE  thread'[h].id[1] = epoch
    <3>1. CASE h = c
      BY <2>2, <3>1
    <3>2. CASE h # c
      <4>1. thread[h].pc # "idle" /\ thread[h].op = "append" /\ thread'[h].id = thread[h].id
        BY <2>3, <2>5, <3>2
      <4>2. thread[h].id[1] = epoch
        BY <4>1 DEF ThreadInv
      <4> QED
        BY <4>1, <4>2
    <3> QED
      BY <3>1, <3>2
  <2>6. ASSUME NEW u \in Task, thread'[u].pc # "idle"
        PROVE  thread'[u].op = "remove" /\ thread'[u].id = <<epoch, u>> /\ runs[u] > 0
    <3>1. /\ thread[u].pc # "idle" /\ thread'[u].id = thread[u].id
          /\ thread'[u].op \in {thread[u].op, "remove"}
      BY <2>3, <2>4, <2>6
    <3>2. thread[u].op = "remove" /\ thread[u].id = <<epoch, u>> /\ runs[u] > 0
      BY <3>1 DEF ThreadInv
    <3> QED
      BY <3>1, <3>2
  <2> QED
    BY <2>1, <2>5, <2>6 DEF ThreadInv
<1>2. ASSUME NEW c \in Caller, NEW id \in Id, Cancel(c, id) PROVE ThreadInv'
  <2>1. epoch' = epoch /\ runs' = runs
    BY <1>2 DEF Cancel
  <2>2. thread'[c].op # "append" /\ \A h \in Thread : h # c => thread'[h] = thread[h]
    BY <1>2, CancelCalls
  <2>3. \A u \in Task : u # c /\ u \in Thread
    BY DEF Thread
  <2> QED
    BY <2>1, <2>2, <2>3 DEF ThreadInv
<1>3. ASSUME NEW h \in Thread, ReadFile(h) \/ SkipFile(h) \/ Truncate(h) \/ WriteFile(h)
      PROVE  ThreadInv'
  <2>1. epoch' = epoch /\ runs' = runs
    BY <1>3 DEF ReadFile, SkipFile, Truncate, WriteFile, history
  <2>2. /\ \A k \in Thread : k # h => thread'[k] = thread[k]
        /\ thread'[h].pc # "idle" => /\ thread[h].pc # "idle"
                                     /\ thread'[h].op = thread[h].op
                                     /\ thread'[h].id = thread[h].id
    BY <1>3, FileStepCalls DEF Job
  <2> QED
    BY <2>1, <2>2 DEF ThreadInv, Thread
<1>4. ASSUME NEW t \in Task, Fire(t) PROVE ThreadInv'
  <2>1. epoch' = epoch /\ \A u \in Task : runs[u] > 0 => runs'[u] > 0
    BY <1>4 DEF Fire, Types, TypeOK
  <2>2. runs'[t] > 0
    BY <1>4 DEF Fire, Types, TypeOK
  <2>3. /\ thread'[t].id = <<epoch, t>> /\ thread'[t].op = "remove"
        /\ \A h \in Thread : h # t => thread'[h] = thread[h]
    BY <1>4, FireCalls
  <2> QED
    BY <2>1, <2>2, <2>3 DEF ThreadInv, Thread
<1>5. ASSUME NEW t \in Task, EndRun(t) PROVE ThreadInv'
  <2>1. epoch' = epoch /\ runs' = runs
    BY <1>5 DEF EndRun, history
  <2> QED
    BY <1>5, <2>1, EndRunCalls DEF ThreadInv, Thread, Job
<1>6. CASE Crash \/ Start
  <2>1. \A h \in Thread : ~Job(h)'
    BY <1>6, CrashCalls
  <2> QED
    BY <2>1 DEF ThreadInv, Job, Thread
<1>7. ASSUME NEW t \in Task, Misfire(t) PROVE ThreadInv'
  BY <1>7 DEF Misfire, ThreadInv
<1>8. CASE Tick \/ UNCHANGED vars
  BY <1>8 DEF Tick, vars, history, ThreadInv
<1> QED
  BY <1>1, <1>2, <1>3, <1>4, <1>5, <1>6, <1>7, <1>8 DEF Next

LEMMA CancelStep == Types /\ CancelInv /\ [Next]_vars => CancelInv'
<1> SUFFICES ASSUME Types, CancelInv, [Next]_vars,
                    NEW i \in Id, i \in cancelled' \/ Cancelling(i)'
             PROVE  (i[1] <= epoch /\ ~(up /\ Found(i)) /\ ~Appending(i))'
  BY DEF CancelInv
<1> DEFINE Good == i[1] <= epoch /\ ~(up /\ Found(i)) /\ ~Appending(i)
<1>0. /\ i[1] \in Nat /\ i[2] \in Task /\ i = <<i[1], i[2]>>
      /\ i \in cancelled \/ Cancelling(i) => Good
  BY TimeAssumption DEF Id, CancelInv
<1>1. ASSUME NEW c \in Caller, NEW t \in Task, Schedule(c, t) PROVE Good'
  <2>1. i # <<epoch, t>> /\ (i \in cancelled \/ Cancelling(i))
    BY <1>0, <1>1, ScheduleCalls DEF Schedule
  <2>2. ~Appending(i)'
    BY <1>1, <1>0, <2>1, ScheduleCalls
  <2>3. i[1] = epoch => i[2] # t
    BY <1>0, <2>1
  <2> QED
    BY <1>1, <1>0, <2>1, <2>2, <2>3 DEF Schedule, Found
<1>2. ASSUME NEW c \in Caller, NEW id \in Id, Cancel(c, id) PROVE Good'
  <2>1. epoch' = epoch /\ up' = up /\ cancelled' = cancelled /\ jobs' \subseteq jobs
    BY <1>2 DEF Cancel
  <2>2. CASE i \in cancelled \/ Cancelling(i)
    BY <1>0, <1>2, <2>1, <2>2, CancelCalls DEF Found
  <2>3. CASE i = id /\ Found(id) /\ ~Appending(id)
    <3>1. ~Appending(i)'
      BY <1>2, <2>3, CancelCalls
    <3>2. i[2] \notin jobs' /\ i[1] <= epoch'
      BY <1>2, <2>3 DEF Cancel
    <3> QED
      BY <3>1, <3>2 DEF Found
  <2> QED
    BY <1>2, <2>1, <2>2, <2>3, CancelCalls
<1>3. ASSUME NEW h \in Thread, ReadFile(h) \/ SkipFile(h) \/ Truncate(h) \/ WriteFile(h)
      PROVE  Good'
  <2>1. epoch' = epoch /\ up' = up /\ jobs' = jobs
    BY <1>3 DEF ReadFile, SkipFile, Truncate, WriteFile, history
  <2>2. (Appending(i)' => Appending(i)) /\ (Cancelling(i)' => Cancelling(i))
    BY <1>3, FileStepCalls, GoesOn
  <2>3. i \in cancelled' => i \in cancelled \/ Cancelling(i)
    BY <1>3 DEF ReadFile, SkipFile, Truncate, WriteFile, history, Finish, Cancelling
  <2> QED
    BY <1>0, <2>1, <2>2, <2>3 DEF Found
<1>4. ASSUME NEW t \in Task, Fire(t) PROVE Good'
  <2>1. epoch' = epoch /\ up' = up /\ jobs' \subseteq jobs /\ cancelled' = cancelled
    BY <1>4 DEF Fire
  <2>2. (Appending(i)' => Appending(i)) /\ (Cancelling(i)' => Cancelling(i))
    BY <1>4, FireCalls
  <2> QED
    BY <1>0, <2>1, <2>2 DEF Found
<1>5. ASSUME NEW t \in Task, EndRun(t) PROVE Good'
  <2>1. epoch' = epoch /\ up' = up /\ jobs' = jobs /\ cancelled' = cancelled
    BY <1>5 DEF EndRun, history
  <2>2. (Appending(i)' => Appending(i)) /\ (Cancelling(i)' => Cancelling(i))
    BY <1>5, EndRunCalls, GoesOn
  <2> QED
    BY <1>0, <2>1, <2>2 DEF Found
<1>6. CASE Crash
  <2>1. i \in cancelled /\ ~Appending(i)' /\ ~up' /\ epoch' = epoch
    BY <1>6, CrashCalls DEF Crash
  <2> QED
    BY <1>0, <2>1
<1>7. CASE Start
  <2>1. i \in cancelled /\ ~Appending(i)' /\ epoch' = epoch + 1
    BY <1>7, CrashCalls DEF Start
  <2>2. i[1] <= epoch /\ epoch \in Nat
    BY <1>0, <2>1 DEF Types, TypeOK
  <2> QED
    BY <1>0, <2>1, <2>2 DEF Found
<1>8. ASSUME NEW t \in Task, Misfire(t) PROVE Good'
  BY <1>0, <1>8 DEF Misfire, Found, Appending, Cancelling
<1>9. CASE Tick \/ UNCHANGED vars
  BY <1>0, <1>9 DEF Tick, vars, history, Found, Appending, Cancelling
<1> QED
  BY <1>1, <1>2, <1>3, <1>4, <1>5, <1>6, <1>7, <1>8, <1>9 DEF Next

LEMMA NowStep == Types /\ Started /\ CancelInv /\ CancelNow /\ [Next]_vars => CancelNow'
<1> SUFFICES ASSUME Types, Started, CancelInv, CancelNow, [Next]_vars,
                    NEW i \in Id, Cancelling(i)'
             PROVE  (i[1] = epoch /\ runs[i[2]] = 0)'
  BY DEF CancelNow
<1>0. i[2] \in Task /\ TypeOK /\ (Cancelling(i) => i[1] = epoch /\ runs[i[2]] = 0)
  BY DEF Id, Types, CancelNow
<1>1. ASSUME NEW c \in Caller, NEW t \in Task, Schedule(c, t)
      PROVE  (i[1] = epoch /\ runs[i[2]] = 0)'
  BY <1>0, <1>1, ScheduleCalls DEF Schedule
<1>2. ASSUME NEW c \in Caller, NEW id \in Id, Cancel(c, id)
      PROVE  (i[1] = epoch /\ runs[i[2]] = 0)'
  <2>1. Found(id) => id[1] = epoch /\ ~(runs[id[2]] > 0)
    BY DEF Found, Started, Id
  <2>2. Found(id) => runs[id[2]] = 0
    BY <1>0, <2>1 DEF TypeOK, Id
  <2>3. Cancelling(i) \/ (i = id /\ Found(id))
    BY <1>2, CancelCalls
  <2> QED
    BY <1>0, <1>2, <2>1, <2>2, <2>3 DEF Cancel
<1>3. ASSUME NEW h \in Thread, ReadFile(h) \/ SkipFile(h) \/ Truncate(h) \/ WriteFile(h)
      PROVE  (i[1] = epoch /\ runs[i[2]] = 0)'
  <2>1. epoch' = epoch /\ runs' = runs
    BY <1>3 DEF ReadFile, SkipFile, Truncate, WriteFile, history
  <2> QED
    BY <1>0, <1>3, <2>1, FileStepCalls, GoesOn
<1>4. ASSUME NEW t \in Task, Fire(t) PROVE (i[1] = epoch /\ runs[i[2]] = 0)'
  <2>1. Cancelling(i)
    BY <1>4, FireCalls
  <2>2. i[2] # t
    BY <1>0, <1>4, <2>1 DEF Fire, CancelInv, Found
  <2> QED
    BY <1>0, <1>4, <2>1, <2>2 DEF Fire, TypeOK
<1>5. ASSUME NEW t \in Task, EndRun(t) PROVE (i[1] = epoch /\ runs[i[2]] = 0)'
  <2>1. epoch' = epoch /\ runs' = runs
    BY <1>5 DEF EndRun, history
  <2> QED
    BY <1>0, <1>5, <2>1, EndRunCalls, GoesOn
<1>6. CASE Crash \/ Start
  BY <1>6, CrashCalls
<1>7. ASSUME NEW t \in Task, Misfire(t) PROVE (i[1] = epoch /\ runs[i[2]] = 0)'
  BY <1>0, <1>7 DEF Misfire, Cancelling
<1>8. CASE Tick \/ UNCHANGED vars
  BY <1>0, <1>8 DEF Tick, vars, history, Cancelling
<1> QED
  BY <1>1, <1>2, <1>3, <1>4, <1>5, <1>6, <1>7, <1>8 DEF Next

(* What the answers of a step add to the history. *)
LEMMA Answers ==
  ASSUME Types, NEW h \in Thread, ReadFile(h) \/ SkipFile(h) \/ Truncate(h) \/ WriteFile(h)
  PROVE  /\ \A id \in Id : id \in cancelled' => id \in cancelled \/ Cancelling(id)
         /\ epoch' = epoch /\ up' = up /\ up /\ jobs' = jobs /\ runs' = runs
         /\ clock' = clock /\ restored' = restored
<1>1. \A id \in Id : id \in cancelled' => id \in cancelled \/ Cancelling(id)
  BY DEF ReadFile, SkipFile, Truncate, WriteFile, history, Finish, Cancelling
<1>2. up
  BY DEF ReadFile, SkipFile, Truncate, WriteFile, Types, Down, Idle
<1> QED
  BY <1>1, <1>2 DEF ReadFile, SkipFile, Truncate, WriteFile, history

LEMMA QuietStep ==
  Types /\ ThreadInv /\ CancelInv /\ CancelNow /\ Quiet /\ [Next]_vars => Quiet'
<1> SUFFICES ASSUME Types, ThreadInv, CancelInv, CancelNow, Quiet, [Next]_vars,
                    NEW i \in cancelled', NEW e \in 0..MaxEpoch
             PROVE  ~Appending(<<e, i[2]>>)'
  BY DEF Quiet
<1>0. /\ i \in Id /\ cancelled \subseteq Id /\ i = <<i[1], i[2]>> /\ <<e, i[2]>> \in Id
      /\ i \in cancelled => ~Appending(<<e, i[2]>>)
  BY TypesStep DEF Types, TypeOK, Id, Quiet
<1>1. ASSUME NEW c \in Caller, NEW t \in Task, Schedule(c, t) PROVE ~Appending(<<e, i[2]>>)'
  <2>1. i \in cancelled /\ i[2] # t
    BY <1>1 DEF Schedule
  <2> QED
    BY <1>0, <1>1, <2>1, ScheduleCalls
<1>2. ASSUME NEW c \in Caller, NEW id \in Id, Cancel(c, id) PROVE ~Appending(<<e, i[2]>>)'
  BY <1>0, <1>2, CancelCalls DEF Cancel
<1>3. ASSUME NEW h \in Thread, ReadFile(h) \/ SkipFile(h) \/ Truncate(h) \/ WriteFile(h)
      PROVE  ~Appending(<<e, i[2]>>)'
  <2>1. Appending(<<e, i[2]>>)' => Appending(<<e, i[2]>>)
    BY <1>0, <1>3, FileStepCalls, GoesOn
  <2>2. ASSUME i \notin cancelled, Appending(<<e, i[2]>>) PROVE FALSE
    <3>1. i[1] = epoch /\ ~Appending(i)
      BY <1>0, <1>3, <2>2, Answers DEF CancelNow, CancelInv
    <3>2. <<e, i[2]>>[1] = epoch
      BY <2>2 DEF Appending, ThreadInv
    <3> QED
      BY <1>0, <2>2, <3>1, <3>2
  <2> QED
    BY <1>0, <2>1, <2>2
<1>4. ASSUME NEW t \in Task, Fire(t) PROVE ~Appending(<<e, i[2]>>)'
  BY <1>0, <1>4, FireCalls DEF Fire
<1>5. ASSUME NEW t \in Task, EndRun(t) PROVE ~Appending(<<e, i[2]>>)'
  BY <1>0, <1>5, EndRunCalls, GoesOn DEF EndRun, history
<1>6. CASE Crash \/ Start
  BY <1>6, CrashCalls
<1>7. ASSUME NEW t \in Task, Misfire(t) PROVE ~Appending(<<e, i[2]>>)'
  BY <1>0, <1>7 DEF Misfire, Appending
<1>8. CASE Tick \/ UNCHANGED vars
  BY <1>0, <1>8 DEF Tick, vars, history, Appending
<1> QED
  BY <1>1, <1>2, <1>3, <1>4, <1>5, <1>6, <1>7, <1>8 DEF Next

(* A row of another process is not new, unless a process has just started. *)
LEMMA OldRow ==
  ASSUME Types, FileInv, ThreadInv, [Next]_vars, ~Start, clean',
         NEW t \in Task, NEW e \in 0..MaxEpoch, e # epoch, InFile(<<e, t>>)'
  PROVE  clean /\ InFile(<<e, t>>)
<1>0. <<e, t>> \in Id
  BY DEF Id
<1>1. ASSUME Untouched PROVE clean /\ InFile(<<e, t>>)
  BY <1>0, <1>1, UntouchedFile DEF Untouched
<1>2. ASSUME NEW h \in Thread, Truncate(h) PROVE clean /\ InFile(<<e, t>>)
  <2>1. thread[h].op = "append" => thread[h].id[1] = epoch
    BY <1>2 DEF Truncate, ThreadInv
  <2> QED
    BY <1>0, <1>2, <2>1, TruncateFile
<1>3. ASSUME NEW h \in Thread, WriteFile(h) PROVE clean /\ InFile(<<e, t>>)
  BY <1>0, <1>3, WriteFileFile
<1>4. CASE Crash
  BY <1>0, <1>4, CrashFile
<1> QED
  BY <1>1, <1>2, <1>3, <1>4, ScheduleUntouched, CancelUntouched, ReadUntouched, JobUntouched,
     ClockUntouched DEF Next

LEMMA OldStep ==
  Types /\ FileInv /\ ThreadInv /\ CancelInv /\ CancelledOut /\ OldInv /\ [Next]_vars => OldInv'
<1> SUFFICES ASSUME Types, FileInv, ThreadInv, CancelInv, CancelledOut, OldInv, [Next]_vars,
                    clean', up', NEW t \in Task, NEW e \in 0..MaxEpoch,
                    e # epoch', InFile(<<e, t>>)', t \notin restored'
             PROVE  Stale(t)'
  BY DEF OldInv
<1>0. TypeOK /\ \A f \in 0..MaxEpoch : <<f, t>> \in Id
  BY DEF Types, Id
<1>a. ASSUME ~Start, up, epoch' = epoch, restored' = restored PROVE Stale(t)
  BY <1>a, OldRow DEF OldInv
<1>1. ASSUME NEW c \in Caller, NEW u \in Task, Schedule(c, u) PROVE Stale(t)'
  <2>1. Stale(t) /\ t # u /\ epoch' = epoch
    BY <1>a, <1>1 DEF Schedule, Start, Stale
  <2>2. ~Cancelling(<<epoch, t>>)'
    BY <1>0, <1>1, <2>1, ScheduleCalls DEF Stale, TypeOK
  <2> QED
    BY <1>1, <2>1, <2>2 DEF Schedule, Stale, Ahead
<1>2. ASSUME NEW c \in Caller, NEW id \in Id, Cancel(c, id) PROVE Stale(t)'
  <2>1. Stale(t) /\ epoch' = epoch
    BY <1>a, <1>2 DEF Cancel, Start
  <2>2. ~(id = <<epoch, t>> /\ Found(id))
    BY <2>1 DEF Stale, Found
  <2>3. ~Cancelling(<<epoch, t>>)'
    BY <1>0, <1>2, <2>1, <2>2, CancelCalls DEF Stale, TypeOK
  <2> QED
    BY <1>2, <2>1, <2>3 DEF Cancel, Stale, Ahead
<1>3. ASSUME NEW h \in Thread, ReadFile(h) \/ SkipFile(h) \/ Truncate(h) \/ WriteFile(h)
      PROVE  Stale(t)'
  <2>1. Stale(t) /\ epoch' = epoch /\ jobs' = jobs /\ clock' = clock
    BY <1>a, <1>3, Answers DEF Start
  <2>2. ~Cancelling(<<epoch, t>>)'
    BY <1>0, <1>3, <2>1, FileStepCalls, GoesOn DEF Stale, TypeOK
  <2>3. <<epoch, t>> \notin cancelled'
    BY <1>0, <1>3, <2>1, Answers DEF Stale, TypeOK
  <2> QED
    BY <2>1, <2>2, <2>3 DEF Stale, Ahead
<1>4. ASSUME NEW u \in Task, Fire(u) PROVE Stale(t)'
  <2>1. Stale(t) /\ epoch' = epoch
    BY <1>a, <1>4 DEF Fire, Start
  <2>2. ~Cancelling(<<epoch, t>>)'
    BY <1>0, <1>4, <2>1, FireCalls DEF Stale, TypeOK
  <2> QED
    BY <1>4, <2>1, <2>2 DEF Fire, Stale, Ahead
<1>5. ASSUME NEW u \in Task, EndRun(u) PROVE Stale(t)'
  <2>1. up
    BY <1>5 DEF EndRun, Types, Down, Idle, Thread
  <2>2. Stale(t) /\ epoch' = epoch
    BY <1>a, <1>5, <2>1 DEF EndRun, Start, history
  <2>3. ~Cancelling(<<epoch, t>>)'
    BY <1>0, <1>5, <2>2, EndRunCalls, GoesOn DEF Stale, TypeOK
  <2> QED
    BY <1>5, <2>2, <2>3 DEF EndRun, Stale, Ahead, history
<1>6. CASE Crash
  BY <1>6 DEF Crash
<1>7. CASE Start
  <2>1. clean /\ InFile(<<e, t>>) /\ epoch' = epoch + 1
    BY <1>0, <1>7, ClockUntouched, UntouchedFile DEF Untouched, Start
  <2>2. \A h \in Thread : thread[h].pc = "idle"
    BY <1>7 DEF Start, Types, Down, Idle
  <2>3. Readable /\ <<e, t>> \in file.rows
    BY <2>1, <2>2 DEF FileInv, Writes, InFile
  <2>4. t \notin Restored
    <3>1. SUFFICES ASSUME t \in Restored PROVE FALSE
      OBVIOUS
    <3>2. PICK id \in cancelled : id[2] = t
      BY <1>7, <3>1 DEF Start
    <3>3. t \notin restored
      BY <1>7 DEF Start
    <3>4. id \in Id /\ <<e, t>> \in Id /\ <<e, t>>[2] = t
      BY <1>0, <3>2 DEF TypeOK
    <3> QED
      BY <2>1, <3>2, <3>3, <3>4 DEF CancelledOut, Out
  <2>5. t \notin jobs' /\ ~Ahead(t)'
    BY <1>7, <2>3, <2>4 DEF Start, Restored, Ahead
  <2>6. <<epoch', t>> \in Id
    BY <1>0, <1>7, TypesStep DEF Types, TypeOK
  <2>7. <<epoch', t>> \notin cancelled
    <3>1. <<epoch', t>> \in cancelled => <<epoch', t>>[1] <= epoch
      BY <2>6 DEF CancelInv
    <3> QED
      BY <1>0, <2>1, <3>1 DEF TypeOK
  <2> QED
    BY <1>7, <2>5, <2>7, CrashCalls DEF Start, Stale
<1>8. ASSUME NEW u \in Task, Misfire(u) PROVE Stale(t)'
  BY <1>a, <1>8 DEF Misfire, Start, Stale, Ahead, Cancelling
<1>9. CASE Tick
  <2>1. Stale(t) /\ clock' = clock + 1
    BY <1>a, <1>9 DEF Tick, Start, history
  <2>2. ~Ahead(t)'
    BY <1>0, <2>1, TimeAssumption DEF Stale, Ahead, TypeOK
  <2> QED
    BY <1>9, <2>1, <2>2 DEF Tick, Stale, Cancelling, history
<1>10. CASE UNCHANGED vars
  BY <1>10, <1>a DEF vars, history, Start, Stale, Ahead, Cancelling
<1> QED
  BY <1>1, <1>2, <1>3, <1>4, <1>5, <1>6, <1>7, <1>8, <1>9, <1>10 DEF Next

LEMMA CancelledStep ==
  /\ Types /\ FileInv /\ ThreadInv /\ CancelInv /\ CancelNow /\ Quiet /\ OldInv /\ CancelledOut
  /\ [Next]_vars
  => CancelledOut'
<1> SUFFICES ASSUME Types, FileInv, ThreadInv, CancelInv, CancelNow, Quiet, OldInv, CancelledOut,
                    [Next]_vars
             PROVE  CancelledOut'
  OBVIOUS
<1> SUFFICES ASSUME NEW i \in Id, NEW r \in Id
             PROVE  (clean /\ i \in cancelled /\ i[2] = r[2] /\ r[2] \notin restored => ~InFile(r))'
  BY DEF CancelledOut, Out
<1> SUFFICES ASSUME clean', i \in cancelled', i[2] = r[2], r[2] \notin restored'
             PROVE  ~InFile(r)'
  OBVIOUS
<1>0. /\ TypeOK /\ i = <<i[1], i[2]>> /\ r = <<r[1], i[2]>>
      /\ r[1] \in 0..MaxEpoch /\ i[2] \in Task
  BY DEF Types, Id
<1>00. i \in cancelled /\ r[2] \notin restored /\ clean => ~InFile(r)
  BY DEF CancelledOut, Out
<1>1. ASSUME Untouched, i \in cancelled, restored \subseteq restored' PROVE ~InFile(r)'
  BY <1>0, <1>00, <1>1, UntouchedFile DEF Untouched
<1>2. ASSUME NEW c \in Caller, NEW u \in Task, Schedule(c, u) PROVE ~InFile(r)'
  BY <1>1, <1>2, ScheduleUntouched DEF Schedule
<1>3. ASSUME NEW c \in Caller, NEW id \in Id, Cancel(c, id) PROVE ~InFile(r)'
  BY <1>1, <1>3, CancelUntouched DEF Cancel
<1>4. ASSUME NEW h \in Thread, ReadFile(h) PROVE ~InFile(r)'
  BY <1>1, <1>4, ReadUntouched DEF ReadFile, history
<1>5. ASSUME NEW h \in Thread, SkipFile(h) PROVE FALSE
  BY <1>5 DEF SkipFile
<1>6. ASSUME NEW h \in Thread, Truncate(h) PROVE ~InFile(r)'
  <2>1. i \in cancelled /\ clean /\ restored' = restored
        /\ (InFile(r)' <=> IF r = thread[h].id THEN thread[h].op = "append" ELSE InFile(r))
    BY <1>0, <1>6, TruncateFile DEF Truncate
  <2>2. ~InFile(r) /\ ~Appending(r)
    <3>1. ~Appending(<<r[1], i[2]>>)
      BY <1>0, <2>1 DEF Quiet
    <3> QED
      BY <1>0, <1>00, <2>1, <3>1
  <2>3. ~(r = thread[h].id /\ thread[h].op = "append")
    BY <1>6, <2>2 DEF Appending, Truncate
  <2> QED
    BY <2>1, <2>2, <2>3
<1>7. ASSUME NEW h \in Thread, WriteFile(h) PROVE ~InFile(r)'
  <2>1. clean /\ (InFile(r)' <=> InFile(r)) /\ (InFile(r) <=> r \in Rows(h))
    BY <1>0, <1>7, WriteFileFile
  <2>2. up /\ restored' = restored
    BY <1>7, Answers
  <2>3. CASE i \in cancelled
    BY <1>00, <2>1, <2>2, <2>3
  <2>4. CASE i \notin cancelled
    <3>1. thread[h].op = "cancel" /\ i = thread[h].id /\ Cancelling(i)
      BY <1>7, <2>4 DEF WriteFile, Finish, Cancelling
    <3>2. i = <<epoch, i[2]>>
      BY <1>0, <3>1 DEF CancelNow
    <3>3. CASE r[1] = epoch
      BY <1>0, <2>1, <3>1, <3>2, <3>3 DEF Rows
    <3>4. CASE r[1] # epoch
      <4>1. ~Stale(i[2])
        BY <3>1, <3>2 DEF Stale
      <4>2. ~InFile(<<r[1], i[2]>>)
        BY <1>0, <2>1, <2>2, <3>4, <4>1 DEF OldInv
      <4> QED
        BY <1>0, <2>1, <4>2
    <3> QED
      BY <3>3, <3>4
  <2> QED
    BY <2>3, <2>4
<1>8. ASSUME NEW u \in Task, Fire(u) \/ Misfire(u) \/ EndRun(u) PROVE ~InFile(r)'
  BY <1>1, <1>8, JobUntouched DEF Fire, Misfire, EndRun, history
<1>9. CASE Tick \/ Start \/ UNCHANGED vars
  BY <1>1, <1>9, ClockUntouched DEF Tick, Start, vars, history
<1>10. CASE Crash
  BY <1>0, <1>00, <1>10, CrashFile DEF Crash
<1> QED
  BY <1>2, <1>3, <1>4, <1>5, <1>6, <1>7, <1>8, <1>9, <1>10 DEF Next

LEMMA HoldsStep ==
  /\ Types /\ FileInv /\ Started /\ CancelInv /\ CancelNow /\ CancelledOut /\ HoldsInv
  /\ [Next]_vars
  => HoldsInv'
<1> SUFFICES ASSUME Types, FileInv, Started, CancelInv, CancelNow, CancelledOut, HoldsInv,
                    [Next]_vars
             PROVE  HoldsInv'
  OBVIOUS
<1> SUFFICES ASSUME NEW i \in Id, i \in cancelled',
                    (i[1] = epoch \/ (clean /\ i[2] \notin restored))'
             PROVE  (i[2] \notin jobs /\ runs[i[2]] = 0)'
  BY DEF HoldsInv, Holds
<1> DEFINE Unstarted == i[2] \notin jobs /\ runs[i[2]] = 0
<1>0. TypeOK /\ i[2] \in Task /\ i[1] \in 0..MaxEpoch
  BY DEF Types, Id
<1>a. ASSUME i \in cancelled, epoch' = epoch, clean' => clean, restored' = restored
      PROVE  Unstarted
  BY <1>a DEF HoldsInv, Holds
<1>1. ASSUME NEW c \in Caller, NEW u \in Task, Schedule(c, u) PROVE Unstarted'
  BY <1>a, <1>1 DEF Schedule
<1>2. ASSUME NEW c \in Caller, NEW id \in Id, Cancel(c, id) PROVE Unstarted'
  BY <1>a, <1>2 DEF Cancel
<1>3. ASSUME NEW h \in Thread, ReadFile(h) \/ SkipFile(h) \/ Truncate(h) \/ WriteFile(h)
      PROVE  Unstarted'
  <2>1. clean' => clean
    BY <1>3 DEF ReadFile, SkipFile, Truncate, WriteFile, history
  <2>2. CASE i \in cancelled
    BY <1>a, <1>3, <2>1, <2>2, Answers
  <2>3. CASE i \notin cancelled
    <3>1. Cancelling(i) /\ up /\ jobs' = jobs /\ runs' = runs
      BY <1>0, <1>3, <2>3, Answers
    <3> QED
      BY <1>0, <3>1 DEF CancelInv, CancelNow, Found
  <2> QED
    BY <2>2, <2>3
<1>4. ASSUME NEW u \in Task, Fire(u) PROVE Unstarted'
  <2>1. Unstarted
    BY <1>a, <1>4 DEF Fire
  <2>2. i[2] # u
    BY <1>4, <2>1 DEF Fire
  <2> QED
    BY <1>0, <1>4, <2>1, <2>2 DEF Fire, TypeOK
<1>5. ASSUME NEW u \in Task, Misfire(u) \/ EndRun(u) PROVE Unstarted'
  BY <1>a, <1>5 DEF Misfire, EndRun, history
<1>6. CASE Tick \/ UNCHANGED vars
  BY <1>a, <1>6 DEF Tick, vars, history
<1>7. CASE Crash
  BY <1>a, <1>7 DEF Crash
<1>8. CASE Start
  <2>1. i \in cancelled /\ clean' = clean /\ epoch' = epoch + 1 /\ runs' = runs
        /\ jobs' = Restored /\ restored \subseteq restored'
    BY <1>8 DEF Start
  <2>2. i[1] <= epoch /\ i[1] \in Nat /\ epoch \in Nat
    BY <1>0, <2>1 DEF CancelInv, TypeOK
  <2>3. clean /\ i[2] \notin restored
    BY <2>1, <2>2
  <2>4. Unstarted
    BY <2>1, <2>3 DEF HoldsInv, Holds
  <2>5. \A h \in Thread : thread[h].pc = "idle"
    BY <1>8 DEF Start, Types, Down, Idle
  <2>6. Readable
    BY <2>3, <2>5 DEF FileInv, Writes
  <2>7. ASSUME i[2] \in Restored PROVE FALSE
    <3>1. PICK e \in 0..MaxEpoch : <<e, i[2]>> \in file.rows
      BY <2>7 DEF Restored
    <3>2. <<e, i[2]>> \in Id /\ <<e, i[2]>>[2] = i[2]
      BY <1>0 DEF Id
    <3>3. ~InFile(<<e, i[2]>>)
      BY <2>1, <2>3, <3>2 DEF CancelledOut, Out
    <3> QED
      BY <2>6, <3>1, <3>3 DEF InFile
  <2> QED
    BY <2>1, <2>4, <2>7
<1> QED
  BY <1>1, <1>2, <1>3, <1>4, <1>5, <1>6, <1>7, <1>8 DEF Next

CancelAll ==
  /\ SingleInv /\ FileInv /\ ThreadInv /\ CancelInv /\ CancelNow /\ Quiet
  /\ OldInv /\ CancelledOut /\ HoldsInv

(* Once cancel_task has answered ok the task is not started, unless it is       *)
(* scheduled again: by this process never, by a later one not if the task had   *)
(* not been restored before it was cancelled and no change of the file is lost. *)
THEOREM CancelHoldsAlways == Spec => []CancelHolds
<1>1. Init => CancelAll
  <2>1. Init => Started /\ SingleRun /\ FileInv /\ ThreadInv
    BY DEF Init, Started, SingleRun, FileInv, Readable, Json, Writes, Idle, ThreadInv, Thread
  <2>2. Init => CancelInv /\ CancelNow
    BY DEF Init, CancelInv, CancelNow, Cancelling, Idle
  <2>3. Init => Quiet /\ OldInv /\ CancelledOut /\ HoldsInv
    BY DEF Init, Quiet, OldInv, CancelledOut, Out, HoldsInv, InFile, Readable, Json
  <2> QED
    BY <2>1, <2>2, <2>3, TypesInit DEF CancelAll, SingleInv
<1>2. CancelAll /\ [Next]_vars => CancelAll'
  BY SingleStep, FileStep, ThreadStep, CancelStep, NowStep, QuietStep, OldStep, CancelledStep,
     HoldsStep DEF CancelAll, SingleInv
<1>3. CancelAll => CancelHolds
  BY DEF CancelAll, HoldsInv, Holds, CancelHolds, SingleInv, Types, TypeOK, Id
<1> QED
  BY <1>1, <1>2, <1>3, PTL DEF Spec

-----------------------------------------------------------------------------
(* A schedule survives. *)
SurviveAll == Types /\ Started /\ FileInv /\ ThreadInv /\ SurviveInv

LEMMA BackedKept ==
  ASSUME NEW t \in Task, epoch' = epoch, epoch \in 0..MaxEpoch,
         \A e \in 0..MaxEpoch : /\ Removing(<<e, t>>)' => Removing(<<e, t>>)
                                /\ Appending(<<e, t>>) => Appending(<<e, t>>)'
                                /\ (InFile(<<e, t>>)' <=> InFile(<<e, t>>)),
         Backed(t)
  PROVE  Backed(t)'
BY DEF Backed

LEMMA SurviveStep ==
  SurviveAll /\ [Next]_vars => SurviveInv'
<1> SUFFICES ASSUME SurviveAll, [Next]_vars, clean',
                    NEW t \in accepted', runs'[t] = 0, t \notin missed'
             PROVE  (up' => t \in jobs') /\ Backed(t)'
  BY DEF SurviveInv
<1> USE DEF SurviveAll
<1> DEFINE Claim == (up => t \in jobs) /\ Backed(t)
<1>0. /\ TypeOK /\ t \in Task /\ accepted \subseteq Task /\ epoch \in 0..MaxEpoch
      /\ \A e \in 0..MaxEpoch : <<e, t>> \in Id
  BY TypesStep DEF Types, TypeOK, Id
<1>a. ASSUME clean, t \in accepted, runs[t] = 0, t \notin missed PROVE Claim
  BY <1>a DEF SurviveInv
<1>b. ASSUME Untouched, epoch' = epoch, Backed(t),
             \A e \in 0..MaxEpoch : /\ Removing(<<e, t>>)' => Removing(<<e, t>>)
                                    /\ Appending(<<e, t>>) => Appending(<<e, t>>)'
      PROVE  Backed(t)'
  <2>1. \A e \in 0..MaxEpoch : (InFile(<<e, t>>)' <=> InFile(<<e, t>>))
    BY <1>0, <1>b, UntouchedFile
  <2> QED
    BY <1>0, <1>b, <2>1, BackedKept
<1>1. ASSUME NEW c \in Caller, NEW u \in Task, Schedule(c, u) PROVE Claim'
  <2>1. Untouched /\ clean
    BY <1>1, ScheduleUntouched DEF Schedule
  <2>2. \A e \in 0..MaxEpoch : /\ Removing(<<e, t>>)' => Removing(<<e, t>>)
                               /\ Appending(<<e, t>>) => Appending(<<e, t>>)'
    BY <1>0, <1>1, ScheduleCalls
  <2>3. CASE t \in accepted
    <3>1. Claim
      BY <1>a, <1>1, <2>1, <2>3 DEF Schedule
    <3>2. Backed(t)'
      BY <1>b, <1>1, <2>1, <2>2, <3>1 DEF Schedule
    <3> QED
      BY <1>1, <3>1, <3>2 DEF Schedule
  <2>4. CASE t \notin accepted
    <3>1. t = u /\ ~Removing(<<epoch, t>>)
      BY <1>1, <2>4 DEF Schedule
    <3>2. epoch' = epoch /\ t \in jobs'
      BY <1>1, <3>1 DEF Schedule
    <3>3. ~Removing(<<epoch, t>>)'
      BY <1>0, <2>2, <3>1, <3>2
    <3>4. Appending(<<epoch, t>>)'
      BY <1>0, <1>1, <3>1, <3>2, ScheduleCalls
    <3> QED
      BY <1>0, <3>2, <3>3, <3>4 DEF Backed
  <2> QED
    BY <2>3, <2>4
<1>2. ASSUME NEW c \in Caller, NEW id \in Id, Cancel(c, id) PROVE Claim'
  <2>1. Untouched /\ clean /\ t \in accepted /\ t # id[2]
    BY <1>2, CancelUntouched DEF Cancel
  <2>2. Claim /\ epoch' = epoch /\ up' = up /\ (up => t \in jobs')
    BY <1>a, <1>2, <2>1 DEF Cancel
  <2>3. \A e \in 0..MaxEpoch : <<e, t>> # id
    BY <2>1
  <2>4. \A e \in 0..MaxEpoch : /\ Removing(<<e, t>>)' => Removing(<<e, t>>)
                               /\ Appending(<<e, t>>) => Appending(<<e, t>>)'
    BY <1>0, <1>2, <2>3, CancelCalls
  <2> QED
    BY <1>b, <2>1, <2>2, <2>4
<1>3. ASSUME NEW h \in Thread, ReadFile(h) PROVE Claim'
  <2>1. Untouched /\ clean /\ t \in accepted /\ epoch' = epoch /\ up' = up /\ jobs' = jobs
    BY <1>3, ReadUntouched DEF ReadFile, history
  <2>2. Claim
    BY <1>a, <1>3, <2>1 DEF ReadFile, history
  <2>3. \A e \in 0..MaxEpoch : /\ Removing(<<e, t>>)' => Removing(<<e, t>>)
                               /\ Appending(<<e, t>>) => Appending(<<e, t>>)'
    BY <1>0, <1>3, FileStepCalls, GoesOn
  <2> QED
    BY <1>b, <2>1, <2>2, <2>3
<1>4. ASSUME NEW h \in Thread, SkipFile(h) PROVE FALSE
  BY <1>4 DEF SkipFile
<1>5. ASSUME NEW h \in Thread, Truncate(h) PROVE Claim'
  <2>1. /\ clean /\ t \in accepted /\ epoch' = epoch /\ up' = up /\ jobs' = jobs
        /\ \A e \in 0..MaxEpoch : (InFile(<<e, t>>)' <=>
               IF <<e, t>> = thread[h].id THEN thread[h].op = "append" ELSE InFile(<<e, t>>))
    BY <1>0, <1>5, TruncateFile DEF Truncate
  <2>2. Claim
    BY <1>a, <1>5, <2>1 DEF Truncate
  <2>3. \A e \in 0..MaxEpoch : /\ Removing(<<e, t>>)' => Removing(<<e, t>>)
                               /\ Appending(<<e, t>>) => Appending(<<e, t>>)'
    BY <1>0, <1>5, FileStepCalls, GoesOn
  <2>4. PICK e \in 0..MaxEpoch : /\ ~Removing(<<e, t>>)
                                 /\ InFile(<<e, t>>) \/ (e = epoch /\ Appending(<<e, t>>))
    BY <2>2 DEF Backed
  <2>5. <<e, t>> = thread[h].id => thread[h].op = "append"
    <3>1. SUFFICES ASSUME <<e, t>> = thread[h].id, thread[h].op # "append" PROVE FALSE
      OBVIOUS
    <3>2. thread[h].pc # "idle"
      BY <1>5 DEF Truncate
    <3>3. Removing(<<e, t>>)
      BY <3>1, <3>2 DEF Removing
    <3> QED
      BY <2>4, <3>3
  <2>6. InFile(<<e, t>>) => InFile(<<e, t>>)'
    BY <2>1, <2>5
  <2>7. /\ ~Removing(<<e, t>>)'
        /\ InFile(<<e, t>>)' \/ (e = epoch' /\ Appending(<<e, t>>)')
    BY <2>1, <2>3, <2>4, <2>6
  <2> QED
    BY <2>1, <2>2, <2>7 DEF Backed
<1>6. ASSUME NEW h \in Thread, WriteFile(h) PROVE Claim'
  <2>1. /\ clean /\ t \in accepted /\ epoch' = epoch /\ up' = up /\ jobs' = jobs
        /\ \A e \in 0..MaxEpoch : /\ (InFile(<<e, t>>)' <=> InFile(<<e, t>>))
                                  /\ (InFile(<<e, t>>) <=> <<e, t>> \in Rows(h))
    BY <1>0, <1>6, WriteFileFile DEF WriteFile
  <2>2. Claim
    BY <1>a, <1>6, <2>1 DEF WriteFile
  <2>3. \A e \in 0..MaxEpoch : Removing(<<e, t>>)' => Removing(<<e, t>>)
    BY <1>0, <1>6, FileStepCalls, GoesOn
  <2>4. \A k \in Thread : k # h => thread'[k] = thread[k]
    BY <1>6, FileStepCalls
  <2>5. \A e \in 0..MaxEpoch : Appending(<<e, t>>) => Appending(<<e, t>>)' \/ <<e, t>> \in Rows(h)
    BY <2>4 DEF Appending, Rows
  <2> QED
    BY <2>1, <2>2, <2>3, <2>5 DEF Backed
<1>7. ASSUME NEW u \in Task, Fire(u) PROVE Claim'
  <2>1. Untouched /\ clean /\ t \in accepted /\ epoch' = epoch /\ up' = up
    BY <1>7, JobUntouched DEF Fire
  <2>2. t # u
    BY <1>0, <1>7 DEF Fire, TypeOK
  <2>3. runs[t] = 0 /\ t \notin missed /\ (t \in jobs => t \in jobs')
    BY <1>0, <1>7, <2>2 DEF Fire, TypeOK
  <2>4. \A e \in 0..MaxEpoch : /\ Removing(<<e, t>>)' => Removing(<<e, t>>)
                               /\ Appending(<<e, t>>) => Appending(<<e, t>>)'
    BY <1>0, <1>7, <2>2, FireCalls
  <2> QED
    BY <1>a, <1>b, <2>1, <2>3, <2>4
<1>8. ASSUME NEW u \in Task, Misfire(u) PROVE Claim'
  <2>1. Untouched /\ clean /\ t \in accepted /\ epoch' = epoch /\ up' = up
    BY <1>8, JobUntouched DEF Misfire
  <2>2. t # u /\ runs[t] = 0 /\ t \notin missed /\ (t \in jobs => t \in jobs')
    BY <1>8 DEF Misfire
  <2>3. \A e \in 0..MaxEpoch : /\ Removing(<<e, t>>)' => Removing(<<e, t>>)
                               /\ Appending(<<e, t>>) => Appending(<<e, t>>)'
    BY <1>8 DEF Misfire, Removing, Appending
  <2> QED
    BY <1>a, <1>b, <2>1, <2>2, <2>3
<1>9. ASSUME NEW u \in Task, EndRun(u) PROVE Claim'
  <2>1. /\ Untouched /\ clean /\ t \in accepted /\ epoch' = epoch /\ up' = up
        /\ jobs' = jobs /\ runs' = runs /\ missed' = missed
    BY <1>9, JobUntouched DEF EndRun, history
  <2>2. \A e \in 0..MaxEpoch : /\ Removing(<<e, t>>)' => Removing(<<e, t>>)
                               /\ Appending(<<e, t>>) => Appending(<<e, t>>)'
    BY <1>0, <1>9, EndRunCalls, GoesOn
  <2> QED
    BY <1>a, <1>b, <2>1, <2>2
<1>10. CASE Crash
  <2>1. /\ clean /\ t \in accepted /\ ~Appending(<<epoch, t>>) /\ epoch' = epoch /\ ~up'
        /\ \A e \in 0..MaxEpoch : (InFile(<<e, t>>)' <=> InFile(<<e, t>>))
    BY <1>0, <1>10, CrashFile DEF Crash
  <2>2. Claim
    BY <1>a, <1>10, <2>1 DEF Crash
  <2>3. \A e \in 0..MaxEpoch : ~Removing(<<e, t>>)'
    BY <1>10, CrashCalls
  <2> QED
    BY <2>1, <2>2, <2>3 DEF Backed
<1>11. CASE Start
  <2>1. /\ Untouched /\ clean /\ t \in accepted /\ runs[t] = 0 /\ t \notin missed
        /\ Ahead(t) /\ jobs' = Restored
    BY <1>11, ClockUntouched DEF Start
  <2>2. \A h \in Thread : thread[h].pc = "idle"
    BY <1>11 DEF Start, Types, Down, Idle
  <2>3. Readable
    BY <2>1, <2>2 DEF FileInv, Writes
  <2>4. PICK e \in 0..MaxEpoch : <<e, t>> \in file.rows /\ InFile(<<e, t>>)
    BY <1>a, <2>1, <2>2, <2>3 DEF Backed, InFile, Appending
  <2>5. t \in jobs'
    BY <1>0, <2>1, <2>4 DEF Restored
  <2>6. InFile(<<e, t>>)' /\ ~Removing(<<e, t>>)'
    BY <1>0, <1>11, <2>1, <2>4, UntouchedFile, CrashCalls
  <2> QED
    BY <2>5, <2>6 DEF Backed
<1>12. CASE Tick \/ UNCHANGED vars
  <2>1. /\ Untouched /\ clean /\ t \in accepted /\ epoch' = epoch /\ up' = up
        /\ jobs' = jobs /\ runs' = runs /\ missed' = missed /\ thread' = thread
    BY <1>12, ClockUntouched DEF Tick, vars, history
  <2>2. \A e \in 0..MaxEpoch : /\ Removing(<<e, t>>)' => Removing(<<e, t>>)
                               /\ Appending(<<e, t>>) => Appending(<<e, t>>)'
    BY <2>1 DEF Removing, Appending
  <2> QED
    BY <1>a, <1>b, <2>1, <2>2
<1> QED
  BY <1>1, <1>2, <1>3, <1>4, <1>5, <1>6, <1>7, <1>8, <1>9, <1>10, <1>11, <1>12 DEF Next

(* A task that was scheduled, and that nobody asked to cancel, is in the        *)
(* scheduler of whichever process runs until it is started or its time passes,  *)
(* as long as no change of the file is lost.                                    *)
THEOREM SurvivesRestarts == Spec => []ScheduleSurvives
<1>1. Init => SingleInv /\ SurviveAll
  <2>1. Init => Started /\ SingleRun /\ FileInv
    BY DEF Init, Started, SingleRun, FileInv, Readable, Json, Writes, Idle
  <2>2. Init => ThreadInv /\ SurviveInv
    BY DEF Init, ThreadInv, SurviveInv, Idle, Thread
  <2> QED
    BY <2>1, <2>2, TypesInit DEF SurviveAll, SingleInv
<1>2. SingleInv /\ SurviveAll /\ [Next]_vars => (SingleInv /\ SurviveAll)'
  BY SingleStep, TypesStep, FileStep, ThreadStep, SurviveStep DEF SurviveAll, SingleInv
<1>3. SurviveAll => ScheduleSurvives
  BY DEF SurviveAll, SurviveInv, ScheduleSurvives, Types, TypeOK
<1> QED
  BY <1>1, <1>2, <1>3, PTL DEF Spec
=============================================================================
