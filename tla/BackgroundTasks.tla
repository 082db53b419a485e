-------------------------- MODULE BackgroundTasks --------------------------
(***************************************************************************)
(* The background task runtime of an L3 node:                              *)
(* l3_node/primitives/agent_tasks/background_task_service.py and its       *)
(* SQLite mirror background_task_sqlite.py.                                *)
(*                                                                         *)
(* core:submit_background_task puts a job in a bounded asyncio queue that  *)
(* a few worker coroutines drain.  Each task has a JSON record on disk,    *)
(* each queued task a row of bg_pending, and the tasks that a restart      *)
(* finds unfinished are listed in zombie_tasks.json.  The memory of the    *)
(* process (queue, registry, workers) is lost when it ends; the files and  *)
(* the table stay.                                                         *)
(*                                                                         *)
(* Everything runs in one event loop, so the code between two awaits is    *)
(* not interleaved with other coroutines, but the process can die between  *)
(* any two of its writes.  An action that starts such a section changes    *)
(* the memory and puts the section's writes in todo; Write performs them   *)
(* in order, no other section starts before the last, and Crash may come   *)
(* after any of them.  A record is written with write_text, which empties  *)
(* the file before it fills it.  A write succeeds unless the process dies. *)
(***************************************************************************)
EXTENDS Naturals, Sequences

CONSTANTS Task,       \* task ids
          Worker,     \* bg-worker-<i>: max_concurrent of them
          MaxQueued,  \* max_queued
          NoTask

ASSUME MaxQueuedAssumption == MaxQueued \in Nat \ {0}
ASSUME NoTaskAssumption == NoTask \notin Task

Terminal == {"completed", "failed", "interrupted", "cancelled"}
Status == {"none", "queued", "running"} \cup Terminal

VARIABLES
  phase,    \* what the process is doing
  reg,      \* _registry: the status of each task
  queue,    \* _queue
  worker,   \* the worker coroutines: where they are, with which task
  todo,     \* the writes left of the section that runs
  disk,     \* <task_id>.json: its status, "torn" when it does not parse
  pending,  \* the rows of bg_pending
  zombies,  \* zombie_tasks.json
  reply,    \* history: what the submitter of each task was told
  starts,   \* history: how often the agent was run on each task
  shown     \* history: the tasks a consuming check has listed

memory == <<reg, queue, worker, todo>>
stored == <<disk, pending, zombies>>
history == <<reply, starts, shown>>
vars == <<phase, memory, stored, history>>

Phase == {"down", "reconciling", "recovering", "serving", "stopping",
          "cancelling"}
WorkerPc == {"off", "idle", "started", "running", "announcing", "ending"}

WriteOp ==
  [kind: {"empty", "record", "pend", "unpend", "zombie", "answer"},
   task: Task, status: Status \cup {"rejected"}]

TypeOK ==
  /\ phase \in Phase
  /\ reg \in [Task -> Status]
  /\ queue \in Seq(Task)
  /\ worker \in [Worker -> [pc: WorkerPc, task: Task \cup {NoTask}]]
  /\ todo \in Seq(WriteOp)
  /\ disk \in [Task -> Status \cup {"torn"}]
  /\ pending \in SUBSET Task
  /\ zombies \in SUBSET Task
  /\ reply \in [Task -> {"none", "queued", "rejected"}]
  /\ starts \in [Task -> Nat]
  /\ shown \in SUBSET Task

Off == [pc |-> "off", task |-> NoTask]
Free == [pc |-> "idle", task |-> NoTask]

Init ==
  /\ phase = "down"
  /\ reg = [t \in Task |-> "none"]
  /\ queue = <<>>
  /\ worker = [w \in Worker |-> Off]
  /\ todo = <<>>
  /\ disk = [t \in Task |-> "none"]
  /\ pending = {}
  /\ zombies = {}
  /\ reply = [t \in Task |-> "none"]
  /\ starts = [t \in Task |-> 0]
  /\ shown = {}

-----------------------------------------------------------------------------
Op(k, t, s) == [kind |-> k, task |-> t, status |-> s]

(* _persist_record is Empty, then Record. *)
Empty(t) == Op("empty", t, "none")
Record(t, s) == Op("record", t, s)
Pend(t) == Op("pend", t, "queued")
Unpend(t) == Op("unpend", t, "none")
(* _append_zombie_task_record, through a temporary file and os.replace *)
Zombie(t) == Op("zombie", t, "interrupted")
(* the JSON that submit_background_task_sync returns *)
Answer(t, s) == Op("answer", t, s)

(* The loop is between two sections. *)
Between(p) == phase = p /\ todo = <<>>

Queued(t) == \E i \in DOMAIN queue : queue[i] = t

(* The next write of the running section. *)
Write ==
  /\ todo # <<>>
  /\ todo' = Tail(todo)
  /\ LET t == Head(todo).task
         s == Head(todo).status
     IN CASE Head(todo).kind = "empty" ->
               /\ disk' = [disk EXCEPT ![t] = "torn"]
               /\ UNCHANGED <<pending, zombies, reply>>
          [] Head(todo).kind = "record" ->
               /\ disk' = [disk EXCEPT ![t] = s]
               /\ UNCHANGED <<pending, zombies, reply>>
          [] Head(todo).kind = "pend" ->
               /\ pending' = pending \cup {t}
               /\ UNCHANGED <<disk, zombies, reply>>
          [] Head(todo).kind = "unpend" ->
               /\ pending' = pending \ {t}
               /\ UNCHANGED <<disk, zombies, reply>>
          [] Head(todo).kind = "zombie" ->
               /\ zombies' = zombies \cup {t}
               /\ UNCHANGED <<disk, pending, reply>>
          [] Head(todo).kind = "answer" ->
               /\ reply' = [reply EXCEPT ![t] = s]
               /\ UNCHANGED stored
  /\ UNCHANGED <<phase, reg, queue, worker, starts, shown>>

-----------------------------------------------------------------------------
(* Mutant: a full queue leaves the row of the rejected task behind. *)
BugSubmitKeepsRow(t) ==
  /\ Between("serving") \/ Between("cancelling")
  /\ reg[t] = "none" /\ disk[t] = "none" /\ reply[t] = "none"
  /\ t \notin pending
  /\ reg' = [reg EXCEPT ![t] = "queued"]
  /\ \/ /\ Len(queue) < MaxQueued
        /\ queue' = Append(queue, t)
        /\ todo' = <<Empty(t), Record(t, "queued"), Pend(t),
                     Answer(t, "queued")>>
     \/ /\ Len(queue) >= MaxQueued
        /\ todo' = <<Empty(t), Record(t, "queued"), Pend(t),
                     Answer(t, "rejected")>>
        /\ UNCHANGED queue
  /\ UNCHANGED <<phase, worker, stored, history>>

(* submit_background_task_sync with a new task id: registry and record     *)
(* first, then the row, then put_nowait.  When the queue is full the row   *)
(* is taken back; registry and record keep saying "queued".                *)
Submit(t) ==
  /\ Between("serving") \/ Between("cancelling")
  /\ reg[t] = "none" /\ disk[t] = "none" /\ reply[t] = "none"
  /\ t \notin pending
  /\ reg' = [reg EXCEPT ![t] = "queued"]
  /\ \/ /\ Len(queue) < MaxQueued
        /\ queue' = Append(queue, t)
        /\ todo' = <<Empty(t), Record(t, "queued"), Pend(t),
                     Answer(t, "queued")>>
     \/ /\ Len(queue) >= MaxQueued
        /\ todo' = <<Empty(t), Record(t, "queued"), Pend(t), Unpend(t),
                     Answer(t, "rejected")>>
        /\ UNCHANGED queue
  /\ UNCHANGED <<phase, worker, stored, history>>

(* Mutant: the worker does not delete the row of the job it takes. *)
BugTakeKeepsRow(w) ==
  /\ Between("serving")
  /\ worker[w].pc = "idle"
  /\ queue # <<>>
  /\ LET t == Head(queue)
     IN /\ worker' = [worker EXCEPT ![w] = [pc |-> "started", task |-> t]]
        /\ reg' = [reg EXCEPT ![t] = "running"]
        /\ todo' = <<Empty(t), Record(t, "running")>>
  /\ queue' = Tail(queue)
  /\ UNCHANGED <<phase, stored, history>>

(* _worker_loop gets a job, deletes its row, and _run_job records          *)
(* "running"; its first await is the "started" event.                      *)
Take(w) ==
  /\ Between("serving")
  /\ worker[w].pc = "idle"
  /\ queue # <<>>
  /\ LET t == Head(queue)
     IN /\ worker' = [worker EXCEPT ![w] = [pc |-> "started", task |-> t]]
        /\ reg' = [reg EXCEPT ![t] = "running"]
        /\ todo' = <<Unpend(t), Empty(t), Record(t, "running")>>
  /\ queue' = Tail(queue)
  /\ UNCHANGED <<phase, stored, history>>

(* run_agent (or the PMO path) is called on the task. *)
Begin(w) ==
  /\ Between("serving")
  /\ worker[w].pc = "started"
  /\ worker' = [worker EXCEPT ![w].pc = "running"]
  /\ starts' = [starts EXCEPT ![worker[w].task] = @ + 1]
  /\ UNCHANGED <<phase, reg, queue, todo, stored, reply, shown>>

(* The status of w's task in registry and record. *)
Settle(w, s, pc) ==
  /\ reg' = [reg EXCEPT ![worker[w].task] = s]
  /\ todo' = <<Empty(worker[w].task), Record(worker[w].task, s)>>
  /\ worker' = [worker EXCEPT ![w].pc = pc]

(* The agent returned; what follows (events, progress.md, Lark) awaits     *)
(* inside the try block.                                                   *)
Complete(w) ==
  /\ Between("serving")
  /\ worker[w].pc = "running"
  /\ Settle(w, "completed", "announcing")
  /\ UNCHANGED <<phase, queue, stored, history>>

(* Mutant: an error in what follows a completed job is caught with it. *)
BugFailAfterComplete(w) ==
  /\ Between("serving")
  /\ worker[w].pc \in {"started", "running", "announcing"}
  /\ Settle(w, "failed", "ending")
  /\ UNCHANGED <<phase, queue, stored, history>>

(* The agent raised, or there is no engine to run it with. *)
FailJob(w) ==
  /\ Between("serving")
  /\ worker[w].pc \in {"started", "running"}
  /\ Settle(w, "failed", "ending")
  /\ UNCHANGED <<phase, queue, stored, history>>

(* Mutant: the worker loop does not survive a failed job. *)
BugDoneNotAfterFailure(w) ==
  /\ Between("serving")
  /\ worker[w].pc = "announcing"
  /\ worker' = [worker EXCEPT ![w] = Free]
  /\ UNCHANGED <<phase, reg, queue, todo, stored, history>>

Done(w) ==
  /\ Between("serving")
  /\ worker[w].pc \in {"announcing", "ending"}
  /\ worker' = [worker EXCEPT ![w] = Free]
  /\ UNCHANGED <<phase, reg, queue, todo, stored, history>>

(* check_interrupted_tasks_sync with consume: the list is read, shown and  *)
(* emptied under one lock.                                                 *)
Consume ==
  /\ Between("serving")
  /\ zombies # {}
  /\ shown' = shown \cup zombies
  /\ zombies' = {}
  /\ UNCHANGED <<phase, memory, disk, pending, reply, starts>>

-----------------------------------------------------------------------------
(* Mutant: records that do not parse get into the registry. *)
BugStartLoadsTorn ==
  /\ phase = "down"
  /\ phase' = "reconciling"
  /\ worker' = [w \in Worker |-> Free]
  /\ reg' = disk
  /\ UNCHANGED <<queue, todo, stored, history>>

(* start_background_task_runtime: queue and workers are made (they run     *)
(* only at the first await, after the recovery) and the registry is read   *)
(* from the records that parse.                                            *)
Start ==
  /\ phase = "down"
  /\ phase' = "reconciling"
  /\ worker' = [w \in Worker |-> Free]
  /\ reg' = [t \in Task |-> IF disk[t] = "torn" THEN "none" ELSE disk[t]]
  /\ UNCHANGED <<queue, todo, stored, history>>

(* reconcile_stale_background_tasks_on_startup, one record *)
Reconcile(t) ==
  /\ Between("reconciling")
  /\ disk[t] \in {"queued", "running"}
  /\ reg' = [reg EXCEPT ![t] = "interrupted"]
  /\ todo' = <<Empty(t), Record(t, "interrupted"), Zombie(t)>>
  /\ UNCHANGED <<phase, queue, worker, stored, history>>

(* Mutant: only the records that say "running" are reconciled. *)
BugReconciledQueued ==
  /\ Between("reconciling")
  /\ \A t \in Task : disk[t] # "running"
  /\ phase' = "recovering"
  /\ UNCHANGED <<memory, stored, history>>

Reconciled ==
  /\ Between("reconciling")
  /\ \A t \in Task : disk[t] \notin {"queued", "running"}
  /\ phase' = "recovering"
  /\ UNCHANGED <<memory, stored, history>>

(* _recover_sqlite_pending_queue: the row of a task whose registry entry   *)
(* is terminal is deleted ...                                              *)
DropRow(t) ==
  /\ Between("recovering")
  /\ t \in pending
  /\ reg[t] \in Terminal
  /\ pending' = pending \ {t}
  /\ UNCHANGED <<phase, memory, disk, zombies, history>>

(* ... and any other is queued again, as long as there is room.  The order *)
(* of the rows (created_at) is left open.                                  *)
Requeuable(t) == t \in pending /\ reg[t] \notin Terminal /\ ~Queued(t)

RequeueRow(t) ==
  /\ Between("recovering")
  /\ Requeuable(t)
  /\ Len(queue) < MaxQueued
  /\ queue' = Append(queue, t)
  /\ UNCHANGED <<phase, reg, worker, todo, stored, history>>

Serve ==
  /\ Between("recovering")
  /\ \/ \A t \in pending : reg[t] \notin Terminal /\ Queued(t)
     \/ Len(queue) >= MaxQueued /\ \E t \in Task : Requeuable(t)
  /\ phase' = "serving"
  /\ UNCHANGED <<memory, stored, history>>

-----------------------------------------------------------------------------
(* graceful_shutdown_background_tasks: the queue is flushed to bg_pending, *)
(* ...                                                                     *)
Flush ==
  /\ Between("serving")
  /\ phase' = "stopping"
  /\ queue' = <<>>
  /\ todo' = [i \in DOMAIN queue |-> Pend(queue[i])]
  /\ UNCHANGED <<reg, worker, stored, history>>

(* ... each running task is recorded as interrupted and listed, ...        *)
Interrupt(t) ==
  /\ Between("stopping")
  /\ reg[t] = "running"
  /\ reg' = [reg EXCEPT ![t] = "interrupted"]
  /\ todo' = <<Empty(t), Record(t, "interrupted"), Zombie(t)>>
  /\ UNCHANGED <<phase, queue, worker, stored, history>>

(* ... and the workers are cancelled and awaited.                          *)
CancelWorkers ==
  /\ Between("stopping")
  /\ \A t \in Task : reg[t] # "running"
  /\ phase' = "cancelling"
  /\ UNCHANGED <<memory, stored, history>>

(* CancelledError at the await where w is.  Inside the try block of        *)
(* _run_job it records "cancelled"; in the queue, before the block and     *)
(* after a failure it only ends the worker.                                *)
Cancel(w) ==
  /\ Between("cancelling")
  /\ worker[w].pc # "off"
  /\ IF worker[w].pc \in {"running", "announcing"}
       THEN Settle(w, "cancelled", "off")
       ELSE /\ worker' = [worker EXCEPT ![w] = Off]
            /\ UNCHANGED <<reg, todo>>
  /\ UNCHANGED <<phase, queue, stored, history>>

(* The memory goes with the process. *)
Halt ==
  /\ phase' = "down"
  /\ reg' = [t \in Task |-> "none"]
  /\ queue' = <<>>
  /\ worker' = [w \in Worker |-> Off]
  /\ todo' = <<>>
  /\ UNCHANGED <<stored, history>>

(* The process ends once the workers have, or the 4 s are over. *)
Exit == Between("cancelling") /\ Halt

Crash == phase # "down" /\ Halt

WorkerStep(w) ==
  Take(w) \/ Begin(w) \/ Complete(w) \/ FailJob(w) \/ Done(w) \/ Cancel(w)

Startup ==
  \/ Reconciled \/ Serve
  \/ \E t \in Task : Reconcile(t) \/ DropRow(t) \/ RequeueRow(t)

Shutdown == CancelWorkers \/ Exit \/ \E t \in Task : Interrupt(t)

Next ==
  \/ Write \/ Consume \/ Start \/ Startup \/ Flush \/ Shutdown \/ Crash
  \/ \E t \in Task : Submit(t)
  \/ \E w \in Worker : WorkerStep(w)

Spec == Init /\ [][Next]_vars

(* A section runs to its end; every coroutine that can go on does: the     *)
(* agent is bounded by max_iterations and its calls by their timeouts.     *)
FairSpec ==
  /\ Spec
  /\ WF_vars(Write) /\ WF_vars(Startup) /\ WF_vars(Shutdown)
  /\ \A w \in Worker : WF_vars(WorkerStep(w))

-----------------------------------------------------------------------------
Holds(w, t) == worker[w].task = t /\ worker[w].pc \notin {"off", "idle"}

(***************************************************************************)
(* The agent is run at most once on a task, whenever the process crashes   *)
(* or is stopped and however often it starts again: the row is gone from   *)
(* bg_pending before the agent starts, and what a restart finds running is *)
(* never queued again.                                                     *)
(***************************************************************************)
AtMostOnce == \A t \in Task : starts[t] <= 1

(***************************************************************************)
(* A task whose submitter was told "rejected" (resource_exhausted) is      *)
(* never run, not even after a restart.                                    *)
(***************************************************************************)
RejectedNeverRuns ==
  \A t \in Task : reply[t] = "rejected" =>
    starts[t] = 0 /\ ~Queued(t) /\ \A w \in Worker : ~Holds(w, t)

(***************************************************************************)
(* While the node serves, no record is stuck: one that says "running" has  *)
(* exactly one worker, one that says "queued" is in the queue (or belongs  *)
(* to a rejected task).  This is what the reconciliation at startup is     *)
(* for.                                                                    *)
(***************************************************************************)
NoStuckRecord ==
  Between("serving") =>
    \A t \in Task :
      /\ disk[t] = "running" =>
           \E w \in Worker :
             Holds(w, t) /\ \A v \in Worker : Holds(v, t) => v = w
      /\ disk[t] = "queued" => Queued(t) \/ reply[t] = "rejected"

(***************************************************************************)
(* While the node serves, the record of a task that has ended is never     *)
(* rewritten: the answer of a completed task stays.                        *)
(***************************************************************************)
TerminalKept ==
  [][ \A t \in Task : phase = "serving" /\ disk[t] \in Terminal
                        => disk'[t] = disk[t] ]_vars

(***************************************************************************)
(* A task in the queue or with a worker leaves it: it is run to an end,    *)
(* flushed by a shutdown or lost with the process, never left waiting.     *)
(***************************************************************************)
InFlight(t) == Queued(t) \/ \E w \in Worker : Holds(w, t)

Settles == \A t \in Task : InFlight(t) ~> ~InFlight(t)

(***************************************************************************)
(* What background_task_sqlite.py says the table is for (enqueue mirror,   *)
(* cold-start recovery, shutdown flush): the recovery does not throw away  *)
(* the row of an accepted task that was never run.                         *)
(***************************************************************************)
ColdStartRecovers ==
  [][ \A t \in Task : phase = "recovering" /\ t \in pending
                        /\ reply[t] = "queued" /\ starts[t] = 0
                        => t \in pending' ]_vars

(***************************************************************************)
(* What the docstring of check_interrupted_tasks_sync says: the list is    *)
(* of tasks a crash or power failure left unfinished.  A task that was     *)
(* turned away is not one of them.                                         *)
(***************************************************************************)
ZombiesWereAccepted == \A t \in zombies : reply[t] # "rejected"
=============================================================================
