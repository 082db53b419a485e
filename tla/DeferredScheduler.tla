------------------------- MODULE DeferredScheduler -------------------------
(***************************************************************************)
(* One-shot tasks of an L3 node that wait for their time:                  *)
(* l3_node/deferred_task_scheduler.py.                                     *)
(*                                                                         *)
(* A task is a text and an instant.  Its job lives in the memory of        *)
(* APScheduler, a row of it in deferred_scheduled_tasks.json, from which   *)
(* the next process restores what is not yet due.  The file is a list that *)
(* the caller's thread (schedule, cancel) and the thread of every job      *)
(* (its finally block) read, change and write back without a lock: reading *)
(* it, opening it for writing, which empties it, and writing it are steps  *)
(* of their own.                                                           *)
(*                                                                         *)
(* A job's id is made of the instant and hash(text); Python salts the hash *)
(* of a string in every process, so the id is a pair of the process and    *)
(* the task.  Rows with the same id come and go together: a set stands for *)
(* the list.  Two texts of one instant whose 16 bits of hash agree are not *)
(* modelled.  A tick is the two seconds of _register_job.                  *)
(***************************************************************************)
EXTENDS Naturals

CONSTANTS Task,      \* pairs of an intent and an instant
          Caller,    \* threads that call schedule_task and cancel_task
          FireAt,    \* the instant of a task
          Grace,     \* misfire_grace_time
          MaxClock,  \* bound: the clock
          MaxEpoch,  \* bound: restarts of the process
          MaxCalls,  \* bound: calls of schedule_task and cancel_task
          NoId

Id == (0..MaxEpoch) \X Task
Thread == Caller \cup Task  \* the thread of a job is named after its task

ASSUME TimeAssumption ==
  /\ FireAt \in [Task -> Nat]
  /\ Grace \in Nat /\ MaxClock \in Nat /\ MaxEpoch \in Nat /\ MaxCalls \in Nat
ASSUME ThreadAssumption == Caller \cap Task = {}
ASSUME NoIdAssumption == NoId \notin Id

VARIABLES
  clock,     \* _now_sh(), in ticks
  up,        \* the process runs
  epoch,     \* which process it is
  jobs,      \* APScheduler's job store: tasks whose id is of this process
  file,      \* deferred_scheduled_tasks.json
  thread,    \* what each thread does to the file, and what it has read of it
  calls,     \* how many calls were made
  runs,      \* history: how often a task has been started
  accepted,  \* history: the tasks scheduled and not cancelled since
  cancelled, \* history: the ids whose cancellation was answered ok, but for
             \*   tasks scheduled again since
  restored,  \* history: the tasks that were restored, other than cancelled ones
  missed,    \* history: the tasks whose time passed while no scheduler ran
  clean      \* history: no change of the file has been lost

history == <<runs, accepted, cancelled, restored, missed, clean>>
vars == <<clock, up, epoch, jobs, file, thread, calls, history>>

Pc == {"idle", "run", "read", "truncate", "write"}
Op == {"append", "remove", "cancel"}

(* The file: the ids of the rows of a list that parses; empty, while it is  *)
(* open for writing or where that was cut off; or something that is no JSON. *)
Json(rows) == [form |-> "json", rows |-> rows]
Empty == [form |-> "empty", rows |-> {}]
Garbled == [form |-> "garbled", rows |-> {}]

Idle == [pc |-> "idle", op |-> "remove", id |-> NoId, seen |-> {}]

TypeOK ==
  /\ clock \in 0..MaxClock
  /\ up \in BOOLEAN
  /\ epoch \in 0..MaxEpoch
  /\ jobs \in SUBSET Task
  /\ file \in [form: {"json", "empty", "garbled"}, rows: SUBSET Id]
  /\ thread \in [Thread -> [pc: Pc, op: Op, id: Id \cup {NoId}, seen: SUBSET Id]]
  /\ calls \in 0..MaxCalls
  /\ runs \in [Task -> Nat]
  /\ accepted \in SUBSET Task
  /\ cancelled \in SUBSET Id
  /\ restored \in SUBSET Task
  /\ missed \in SUBSET Task
  /\ clean \in BOOLEAN

Init ==
  /\ clock = 0
  /\ up = TRUE
  /\ epoch = 0
  /\ jobs = {}
  /\ file = Json({})
  /\ thread = [h \in Thread |-> Idle]
  /\ calls = 0
  /\ runs = [t \in Task |-> 0]
  /\ accepted = {}
  /\ cancelled = {}
  /\ restored = {}
  /\ missed = {}
  /\ clean = TRUE

Readable == file.form = "json"

-----------------------------------------------------------------------------
(* fire_at lies more than two seconds ahead: the test of _register_job.  Rows *)
(* that _restore_persisted_jobs lets through must pass it too.                *)
Ahead(t) == FireAt[t] > clock + 1

(* A call that schedules, or that removes, this id has not been answered yet.  *)
(* Of two such calls at once neither may rely on its answer: the histories      *)
(* count neither.                                                               *)
Appending(id) ==
  \E h \in Thread : thread[h].pc # "idle" /\ thread[h].op = "append" /\ thread[h].id = id

Removing(id) ==
  \E h \in Thread : thread[h].pc # "idle" /\ thread[h].op # "append" /\ thread[h].id = id

Retracted(id) ==
  [h \in Thread |-> IF thread[h].op = "cancel" /\ thread[h].id = id
                      THEN [thread[h] EXCEPT !.op = "remove"]
                      ELSE thread[h]]

(* schedule_task, as far as add_job(replace_existing=True); _persist_job is next. *)
Schedule(c, t) ==
  /\ up
  /\ thread[c].pc = "idle"
  /\ calls < MaxCalls
  /\ calls' = calls + 1
  /\ Ahead(t)
  /\ jobs' = jobs \cup {t}
  /\ thread' = [Retracted(<<epoch, t>>) EXCEPT ![c] =
       [pc |-> "read", op |-> "append", id |-> <<epoch, t>>, seen |-> {}]]
  /\ accepted' = IF Removing(<<epoch, t>>) THEN accepted ELSE accepted \cup {t}
  /\ cancelled' = {id \in cancelled : id[2] # t}
  /\ UNCHANGED <<clock, up, epoch, file, runs, restored, missed, clean>>

(* Does remove_job find a job of this id?  Only one made by this process. *)
Found(id) == id[1] = epoch /\ id[2] \in jobs

(* Mutant: the row of a job that was found stays. *)
BugCancel(c, id) ==
  /\ up
  /\ thread[c].pc = "idle"
  /\ calls < MaxCalls
  /\ calls' = calls + 1
  /\ id[1] <= epoch
  /\ jobs' = IF Found(id) THEN jobs \ {id[2]} ELSE jobs
  /\ cancelled' = IF Found(id) /\ ~Appending(id) THEN cancelled \cup {id} ELSE cancelled
  /\ accepted' = accepted \ {id[2]}
  /\ UNCHANGED <<clock, up, epoch, file, thread, runs, restored, missed, clean>>

(* cancel_task as far as remove_job; _remove_persisted_job is next, whether  *)
(* the job was found or not.  Any id may be asked for: list_pending_tasks    *)
(* shows those of the rows, also of rows that earlier processes wrote.       *)
Cancel(c, id) ==
  /\ up
  /\ thread[c].pc = "idle"
  /\ calls < MaxCalls
  /\ calls' = calls + 1
  /\ id[1] <= epoch
  /\ jobs' = IF Found(id) THEN jobs \ {id[2]} ELSE jobs
  /\ thread' = [thread EXCEPT ![c] =
       [pc |-> "read", id |-> id, seen |-> {},
        op |-> IF Found(id) /\ ~Appending(id) THEN "cancel" ELSE "remove"]]
  /\ accepted' = accepted \ {id[2]}
  /\ UNCHANGED <<clock, up, epoch, file, runs, cancelled, restored, missed, clean>>

-----------------------------------------------------------------------------
(* The call or the job thread is over; cancel_task answers. *)
Finish(h) ==
  /\ thread' = [thread EXCEPT ![h] = Idle]
  /\ cancelled' = IF thread[h].op = "cancel"
                    THEN cancelled \cup {thread[h].id}
                    ELSE cancelled

(* read_text and json.loads of _persist_job and _remove_persisted_job. *)
ReadFile(h) ==
  /\ thread[h].pc = "read"
  /\ Readable
  /\ thread' = [thread EXCEPT ![h].pc = "truncate", ![h].seen = file.rows]
  /\ UNCHANGED <<clock, up, epoch, jobs, file, calls, history>>

(* Both swallow the exception of a file that does not parse: nothing is written. *)
SkipFile(h) ==
  /\ thread[h].pc = "read"
  /\ ~Readable
  /\ Finish(h)
  /\ clean' = FALSE
  /\ UNCHANGED <<clock, up, epoch, jobs, file, calls, runs, accepted, restored, missed>>

(* write_text opens the file, ... *)
Truncate(h) ==
  /\ thread[h].pc = "truncate"
  /\ file' = Empty
  /\ thread' = [thread EXCEPT ![h].pc = "write"]
  /\ clean' = (clean /\ file = Json(thread[h].seen))
  /\ UNCHANGED <<clock, up, epoch, jobs, calls, runs, accepted, cancelled, restored, missed>>

(* Mutant: the row is written without its id. *)
BugRows(h) ==
  IF thread[h].op = "append"
    THEN thread[h].seen \cup {NoId}
    ELSE thread[h].seen \ {thread[h].id}

Rows(h) ==
  IF thread[h].op = "append"
    THEN thread[h].seen \cup {thread[h].id}
    ELSE thread[h].seen \ {thread[h].id}

(* ... and writes from its start: what another thread has written meanwhile   *)
(* is overwritten, and where that was longer its tail stays behind.           *)
WriteFile(h) ==
  /\ thread[h].pc = "write"
  /\ file' \in {Json(Rows(h))} \cup (IF file = Empty THEN {} ELSE {Garbled})
  /\ Finish(h)
  /\ UNCHANGED <<clock, up, epoch, jobs, calls, runs, accepted, restored, missed, clean>>

-----------------------------------------------------------------------------
(* APScheduler hands a job that is due to a thread of its pool and forgets it; *)
(* _execute_deferred_job runs the agent there.                                 *)
Fire(t) ==
  /\ up
  /\ t \in jobs
  /\ thread[t].pc = "idle"
  /\ FireAt[t] <= clock /\ clock <= FireAt[t] + Grace
  /\ jobs' = jobs \ {t}
  /\ thread' = [thread EXCEPT ![t] =
       [pc |-> "run", op |-> "remove", id |-> <<epoch, t>>, seen |-> {}]]
  /\ runs' = [runs EXCEPT ![t] = @ + 1]
  /\ UNCHANGED <<clock, up, epoch, file, calls, accepted, cancelled, restored, missed, clean>>

(* Mutant: it is kept and never run. *)
BugMisfire(t) ==
  /\ up
  /\ t \in jobs
  /\ clock > FireAt[t] + Grace
  /\ UNCHANGED vars

(* A job that is found later than that (the host was suspended) is dropped. *)
Misfire(t) ==
  /\ up
  /\ t \in jobs
  /\ clock > FireAt[t] + Grace
  /\ jobs' = jobs \ {t}
  /\ missed' = missed \cup {t}
  /\ UNCHANGED <<clock, up, epoch, file, thread, calls, runs, accepted, cancelled, restored, clean>>

(* The run has ended or failed: the finally block of _execute_deferred_job. *)
EndRun(t) ==
  /\ thread[t].pc = "run"
  /\ thread' = [thread EXCEPT ![t].pc = "read"]
  /\ UNCHANGED <<clock, up, epoch, jobs, file, calls, history>>

Tick ==
  /\ clock < MaxClock
  /\ clock' = clock + 1
  /\ UNCHANGED <<up, epoch, jobs, file, thread, calls, history>>

(* The process ends, at any point.  A schedule that has not been answered is *)
(* not accepted any more, and a file open for writing stays empty.           *)
Crash ==
  /\ up
  /\ epoch < MaxEpoch
  /\ up' = FALSE
  /\ jobs' = {}
  /\ thread' = [h \in Thread |-> Idle]
  /\ accepted' = {t \in accepted : ~Appending(<<epoch, t>>)}
  /\ clean' = (clean /\ Readable)
  /\ UNCHANGED <<clock, epoch, file, calls, runs, cancelled, restored, missed>>

(* Mutant: rows are told from one another by the id they would get now. *)
BugRestored == {t \in Task : Ahead(t) /\ <<epoch + 1, t>> \in file.rows}

(* Mutant: what is due already is restored too. *)
BugRestoredDue == {t \in Task : \E e \in 0..MaxEpoch : <<e, t>> \in file.rows}

(* The tasks _restore_persisted_jobs registers: rows past due are passed over, *)
(* and a file that does not parse restores nothing.                            *)
Restored ==
  {t \in Task : Ahead(t) /\ \E e \in 0..MaxEpoch : <<e, t>> \in file.rows}

(* ensure_deferred_scheduler_started: the restored jobs get ids of this       *)
(* process, their rows keep the ids they have.                                *)
Start ==
  /\ ~up
  /\ up' = TRUE
  /\ epoch' = epoch + 1
  /\ jobs' = Restored
  /\ restored' = restored \cup (Restored \ {id[2] : id \in cancelled})
  /\ missed' = missed \cup {t \in accepted : runs[t] = 0 /\ ~Ahead(t)}
  /\ UNCHANGED <<clock, file, thread, calls, runs, accepted, cancelled, clean>>

-----------------------------------------------------------------------------
Next ==
  \/ \E c \in Caller, t \in Task : Schedule(c, t)
  \/ \E c \in Caller, id \in Id : Cancel(c, id)
  \/ \E h \in Thread : ReadFile(h) \/ SkipFile(h) \/ Truncate(h) \/ WriteFile(h)
  \/ \E t \in Task : Fire(t) \/ Misfire(t) \/ EndRun(t)
  \/ Tick
  \/ Crash
  \/ Start

Spec == Init /\ [][Next]_vars

(* The clock goes on and a scheduler that runs starts what is due; nothing is *)
(* assumed of callers, of the length of a run, or of a restart.               *)
FairSpec ==
  /\ Spec
  /\ WF_vars(Tick)
  /\ \A t \in Task : WF_vars(Fire(t)) /\ WF_vars(Misfire(t))

-----------------------------------------------------------------------------
(* A task is started at most once, through all restarts, repeated schedules  *)
(* and rows that nobody removed.                                             *)
SingleRun == \A t \in Task : runs[t] <= 1

(* A task that was scheduled, and that nobody asked to cancel, is in the      *)
(* scheduler of whichever process runs, until it has been started or its time *)
(* has passed without one; unless a change of the file was lost or cut off.   *)
ScheduleSurvives ==
  up /\ clean => \A t \in accepted : t \in jobs \/ runs[t] > 0 \/ t \in missed

(* A task whose cancellation was answered ok is not started, unless it is      *)
(* scheduled again: not by this process and, as long as no change of the file  *)
(* was lost or cut off, not by a later one.  That is all the code gives: a     *)
(* task that was restored before it was cancelled has a row with the id an     *)
(* earlier process made, cancel_task removes the row of the id it is called    *)
(* with, and the next process restores the task once more.                     *)
CancelHolds ==
  \A id \in cancelled :
    id[1] = epoch \/ (clean /\ id[2] \notin restored)
      => id[2] \notin jobs /\ runs[id[2]] = 0

(* A scheduled task is run in the end, unless somebody asks to cancel it, its *)
(* time passes without a scheduler, or the process ends.                      *)
Fires ==
  \A t \in Task : t \in jobs ~> (runs[t] > 0 \/ t \in missed \/ t \notin accepted \/ ~up)
=============================================================================
