--------------------------- MODULE SessionQueue ---------------------------
(***************************************************************************)
(* The instruction queue of one session of an L3 node:                     *)
(* l3_node/session_instruction_queue.py.                                   *)
(*                                                                         *)
(* Instructions of a session_key go to a bounded asyncio queue that a      *)
(* worker coroutine drains; in PARALLEL mode they get tasks of their own   *)
(* as long as fewer than MaxParallel run.  A worker that has waited 120 s  *)
(* for work ends, and the next enqueue starts another one.  The session    *)
(* object is only weakly referenced by the registry: once no coroutine of  *)
(* it is left it may go, and the next submission makes a new one.          *)
(*                                                                         *)
(* Everything runs in one event loop and enqueue has no await, so an       *)
(* action is the code from one await to the next.  execute_fn is the       *)
(* caller's: it returns, raises, is cancelled or is timed out.             *)
(***************************************************************************)
EXTENDS Naturals, Sequences, FiniteSets

CONSTANTS Instruction,  \* instruction ids (uuid4)
          Loop,         \* incarnations of the worker coroutine
          MaxDepth,     \* JACHIN_SIQ_MAX_QUEUE_DEPTH
          MaxParallel,  \* JACHIN_SIQ_MAX_PARALLEL
          NoLoop, NoInstruction

ASSUME DepthAssumption == MaxDepth \in Nat \ {0}
ASSUME ParallelAssumption == MaxParallel \in Nat \ {0}
ASSUME NoneAssumption == NoLoop \notin Loop /\ NoInstruction \notin Instruction

VARIABLES
  mode,      \* JACHIN_SIQ_MODE
  queue,     \* _queue
  task,      \* _worker_task
  loop,      \* the worker coroutines: where they are, with which instruction
  active,    \* _active_parallel
  parallel,  \* the instructions that have a task of their own
  told,      \* history: the answer to each submission
  accepted,  \* history: the instructions answered "queued", in order
  begun,     \* history: those a worker has begun to execute, in order
  missed     \* history: the last worker ended and left instructions behind

session == <<queue, task, loop, active, parallel>>
history == <<told, accepted, begun, missed>>
vars == <<mode, session, history>>

LoopPc == {"off", "waiting", "leaving", "busy"}

TypeOK ==
  /\ mode \in {"SERIAL", "PARALLEL"}
  /\ queue \in Seq(Instruction) /\ Len(queue) <= MaxDepth
  /\ task \in Loop \cup {NoLoop}
  /\ loop \in [Loop -> [pc: LoopPc, inst: Instruction \cup {NoInstruction}]]
  /\ active \in 0..MaxParallel
  /\ parallel \in SUBSET Instruction
  /\ told \in [Instruction -> {"none", "queued", "parallel", "rejected"}]
  /\ accepted \in Seq(Instruction)
  /\ begun \in Seq(Instruction)
  /\ missed \in BOOLEAN

Off == [pc |-> "off", inst |-> NoInstruction]
Waiting == [pc |-> "waiting", inst |-> NoInstruction]
Leaving == [pc |-> "leaving", inst |-> NoInstruction]

Init ==
  /\ mode \in {"SERIAL", "PARALLEL"}
  /\ queue = <<>>
  /\ task = NoLoop
  /\ loop = [l \in Loop |-> Off]
  /\ active = 0
  /\ parallel = {}
  /\ told = [i \in Instruction |-> "none"]
  /\ accepted = <<>>
  /\ begun = <<>>
  /\ missed = FALSE

-----------------------------------------------------------------------------
(* Mutant: a worker is started for every instruction. *)
BugStartAlways ==
  \E l \in Loop :
    /\ loop[l].pc = "off"
    /\ loop' = [loop EXCEPT ![l] = Waiting]
    /\ task' = l
    /\ missed' = FALSE

(* start_worker: nothing to do while _worker_task is not done(). *)
StartWorker ==
  IF task # NoLoop /\ loop[task].pc # "off"
    THEN UNCHANGED <<task, loop, missed>>
    ELSE \E l \in Loop :
           /\ loop[l].pc = "off"
           /\ loop' = [loop EXCEPT ![l] = Waiting]
           /\ task' = l
           /\ missed' = FALSE

(* Mutant: one task too many. *)
BugRoom == mode = "PARALLEL" /\ active <= MaxParallel

Room == mode = "PARALLEL" /\ active < MaxParallel

(* enqueue: a task of its own, ... *)
SubmitParallel(i) ==
  /\ told[i] = "none"
  /\ Room
  /\ active' = active + 1
  /\ parallel' = parallel \cup {i}
  /\ told' = [told EXCEPT ![i] = "parallel"]
  /\ UNCHANGED <<mode, queue, task, loop, accepted, begun, missed>>

(* ... or a place in the queue, ... *)
SubmitQueued(i) ==
  /\ told[i] = "none"
  /\ ~Room
  /\ Len(queue) < MaxDepth
  /\ queue' = Append(queue, i)
  /\ StartWorker
  /\ told' = [told EXCEPT ![i] = "queued"]
  /\ accepted' = Append(accepted, i)
  /\ UNCHANGED <<mode, active, parallel, begun>>

(* ... or, when the queue is full, neither. *)
SubmitRejected(i) ==
  /\ told[i] = "none"
  /\ ~Room
  /\ Len(queue) = MaxDepth
  /\ told' = [told EXCEPT ![i] = "rejected"]
  /\ UNCHANGED <<mode, session, accepted, begun, missed>>

(* The finally block of _run_parallel, however execute_fn ended. *)
EndParallel(i) ==
  /\ i \in parallel
  /\ parallel' = parallel \ {i}
  /\ active' = IF active = 0 THEN 0 ELSE active - 1
  /\ UNCHANGED <<mode, queue, task, loop, history>>

-----------------------------------------------------------------------------
(* Mutant: the newest instruction is taken first. *)
BugTakeNewest(l) ==
  /\ loop[l].pc = "waiting"
  /\ queue # <<>>
  /\ loop' = [loop EXCEPT ![l] = [pc |-> "busy", inst |-> queue[Len(queue)]]]
  /\ begun' = Append(begun, queue[Len(queue)])
  /\ queue' = SubSeq(queue, 1, Len(queue) - 1)
  /\ UNCHANGED <<mode, task, active, parallel, told, accepted, missed>>

(* queue.get() returns and execute_fn is called.                           *)
Take(l) ==
  /\ loop[l].pc = "waiting"
  /\ queue # <<>>
  /\ loop' = [loop EXCEPT ![l] = [pc |-> "busy", inst |-> Head(queue)]]
  /\ begun' = Append(begun, Head(queue))
  /\ queue' = Tail(queue)
  /\ UNCHANGED <<mode, task, active, parallel, told, accepted, missed>>

(* The timer of wait_for(get(), 120) fires and the worker will be resumed  *)
(* with a TimeoutError.  The queue is empty then, since get() takes at     *)
(* once what is there; what is put from now on stays, as the get() is      *)
(* cancelled.  What is put in the very turn of the event loop in which the *)
(* timer fires stays as well from Python 3.12 on, whichever comes first:   *)
(* the same state.                                                         *)
IdleTimeout(l) ==
  /\ loop[l].pc = "waiting"
  /\ queue = <<>>
  /\ loop' = [loop EXCEPT ![l] = Leaving]
  /\ UNCHANGED <<mode, queue, task, active, parallel, history>>

(* The worker coroutine returns; its task is done(). *)
End(l) ==
  /\ loop' = [loop EXCEPT ![l] = Off]
  /\ missed' = (queue # <<>>)
  /\ UNCHANGED <<mode, queue, task, active, parallel, told, accepted, begun>>

(* It is resumed, whatever the queue holds by now. *)
Leave(l) == loop[l].pc = "leaving" /\ End(l)

(* Mutant: an exception of execute_fn ends the worker. *)
BugFinishEnds(l) ==
  /\ loop[l].pc = "busy"
  /\ loop' = [loop EXCEPT ![l] = Off]
  /\ UNCHANGED <<mode, queue, task, active, parallel, history>>

(* execute_fn returned, raised, or was cancelled by its timeout. *)
Finish(l) ==
  /\ loop[l].pc = "busy"
  /\ loop' = [loop EXCEPT ![l] = Waiting]
  /\ UNCHANGED <<mode, queue, task, active, parallel, history>>

(* execute_fn raised CancelledError, as a voice turn that is cancelled     *)
(* does (ws_server.py): the worker returns.                                *)
Cancelled(l) == loop[l].pc = "busy" /\ End(l)

(* No coroutine refers to the session object any more. *)
Collect ==
  /\ task # NoLoop
  /\ \A l \in Loop : loop[l].pc = "off"
  /\ parallel = {}
  /\ queue' = <<>>
  /\ task' = NoLoop
  /\ missed' = FALSE
  /\ UNCHANGED <<mode, loop, active, parallel, told, accepted, begun>>

Submit(i) == SubmitParallel(i) \/ SubmitQueued(i) \/ SubmitRejected(i)

LoopStep(l) == Take(l) \/ Leave(l) \/ Finish(l) \/ Cancelled(l)

Next ==
  \/ \E i \in Instruction : Submit(i) \/ EndParallel(i)
  \/ \E l \in Loop : LoopStep(l) \/ IdleTimeout(l)
  \/ Collect

Spec == Init /\ [][Next]_vars

(* A worker that can go on does; an instruction ends because of its        *)
(* timeout.                                                                *)
FairSpec == Spec /\ \A l \in Loop : WF_vars(LoopStep(l))

-----------------------------------------------------------------------------
Queued(i) == \E k \in DOMAIN queue : queue[k] = i

Busy == {l \in Loop : loop[l].pc = "busy"}

(***************************************************************************)
(* SERIAL is "in order": workers execute instructions in the order in      *)
(* which these were answered "queued", and none twice, also across workers *)
(* that end and session objects that are replaced.                         *)
(***************************************************************************)
Fifo ==
  \A j, k \in DOMAIN begun : j < k =>
    \E m, n \in DOMAIN accepted :
      m < n /\ accepted[m] = begun[j] /\ accepted[n] = begun[k]

(***************************************************************************)
(* In SERIAL mode one instruction of a session is executed at a time.  In  *)
(* PARALLEL mode at most one more than JACHIN_SIQ_MAX_PARALLEL: the worker *)
(* goes on beside the parallel tasks.                                      *)
(***************************************************************************)
Concurrency ==
  Cardinality(Busy) + Cardinality(parallel)
    <= IF mode = "SERIAL" THEN 1 ELSE MaxParallel + 1

(***************************************************************************)
(* Instructions wait in the queue without a worker only when the last      *)
(* worker ended with them there and none has been submitted since.         *)
(***************************************************************************)
Served == queue # <<>> => missed \/ \E l \in Loop : loop[l].pc # "off"

(***************************************************************************)
(* An instruction answered "queued" does not wait for ever behind others   *)
(* that hang or fail, unless the worker has ended and left it there.       *)
(***************************************************************************)
Drains == \A i \in Instruction : Queued(i) ~> ~Queued(i) \/ missed

(***************************************************************************)
(* What the docstring of get_or_create_session says: idle sessions are     *)
(* collected.  A session object never goes with instructions in its queue. *)
(***************************************************************************)
CollectedIdle == [][ task # NoLoop /\ task' = NoLoop => queue = <<>> ]_vars
=============================================================================
