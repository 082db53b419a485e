# Jachin system: a TLA+ model

TLA+ specifications of parts of the Jachin system, the TLC configurations that
model-check them on small instances, and theorems about them with proofs that
TLAPS checks.  Everything is translated from the code; paths are relative to the
root of the repository.  The tables that tie definitions to lines, runs to
properties and hazards to code are in `PROJECT.json`.

## 1. Inventory

Jachin is a three-layer agent system.  **L1** (`cloud/nexus`, Next.js with
Drizzle and Postgres) is the cloud: pairing of devices, the mailbox of the
agents, store, organisations, telemetry.  **L2** (`core/`, Python) runs on a site and
places work on nodes.  **L3** (`l3_node/`, Python) is the node where agents run:
one asyncio event loop, SQLite files and JSON files under the user's directory,
and an HTTP server.  A desktop client (Tauri) supervises an L3 node.

| component | state | operations | hard behaviour | what makes it correct |
|---|---|---|---|---|
| **DAG lock** `l3_node/task_engine/dag_coordinator.py` | SQLite table `dag_locks` (owner, expiry, token); `_LOCK` of each process | `claim_dag`, `release_dag`, `refresh_dag_lock` | several processes on one file, SELECT and write not in one transaction, clock read before the lock, expiry, lost answers | one live holder; only the holder releases; a dead holder blocks for at most one TTL |
| **Background tasks** `l3_node/primitives/agent_tasks/background_task_*.py` | asyncio queue, registry, workers; `<task_id>.json`, table `bg_pending`, `zombie_tasks.json` | submit, worker loop, startup reconciliation and recovery, graceful shutdown, check of interrupted tasks | a crash between any two writes, full queue, cancellation at any await, order of the two startup steps | at most one run of each task; a rejected task never runs; no record stuck; ended records stay; no task left waiting |
| Node registry `dag_coordinator.py` | tables of nodes with heartbeats | register, heartbeat, find idle peer | stale entries, polling of peers | a handoff goes to a node that is alive |
| TaskDAG, resume, handoff `task_dag.py`, `dag_node_sync.py`, `dag_resume.py`, `dag_handoff.py` | `active.json`, hook log, the DAG lock | mark node, save, probe and apply resume, export, import, auto handoff | unlocked load/change/save, one temporary file name, an import that succeeds after the sender's timeout | no finished node runs again; one node works on a DAG; no mark is lost |
| Guardrails, replan `dag_guardrails.py`, `dag_replan.py` | budgets in `active.json` | count cost and time, pause, replan | read-change-write races | a budget once spent stops the DAG |
| Deferred scheduler `deferred_task_scheduler.py` | APScheduler jobs, persisted list | register, fire, cancel, restore | scheduler threads against callers, unlocked list, job ids that differ after a restart | each job fires at most once, and a cancelled one does not |
| Session instruction queue `session_instruction_queue.py` | a queue and a worker per session | enqueue, parallel run, worker with idle timeout | enqueue against the worker's leaving, instructions that hang or are cancelled, a session object only weakly referenced | instructions in order, bounded concurrency, a queue that drains, no queue without a worker |
| Hook pipeline, log, replay `l3_node/engine/` | append-only SQLite log | append, query, replay | order of events, replay of side effects | a replay does what the log says |
| Global task registry | memory, Redis or remote mirror | register, update, list | mirrors that lag | no decision on a stale mirror |
| Pending confirmations `cognitive_kernel/pending_confirmation.py`, `direct_mainline.py` | one file per session with the order that waits for the user | ask, answer, fill a slot, cancel, run, clear | turns of one session side by side, expiry, a fallback to another session's file, a crash while a file is written | a reply answers the question of its session, once; a question is not lost |
| Cognitive kernel `l3_node/cognitive_kernel/` | work orders, sessions | plan, dispatch, verify, recover | dependencies, retry bounds | dependencies first, recovery ends |
| Agent core `agent_core.py` | messages and tools of a run | the loop around the model | cancellation | ends within `max_iterations` |
| IM channels and WebSocket turns `im_channels/`, `lark_session.py`, `ws_siq_bridge.py` | messages in flight, chat locks, history file | intake, run in executor threads, save history | threads that outlive a timeout, one unlocked file for all chats, a connection that waits for an event | no turn of a chat is lost; nobody waits in vain; the count is right |
| Codex manager, voice, HTTP server | network and process handles | spawn, transcribe, serve | I/O | |
| Sensory bus, session actors, daemon `core/event_bus.py`, `session_manager.py`, `daemon.py` | table `omni_input_queue`, actors of each process, the daemon's memory of messages | append, select and claim, run, mark done; poll the mailbox, report results | several consumers on one table, a process that ends with claimed rows, lost polls and reports, a bounded memory | a row runs at most once a process, sessions in order, a message is marked only when answered and not forgotten |
| other L2 `core/` | nodes, approvals, tokens, quotas, plugins | place, approve, sign, limit | a wait for an approval with a timeout | an approval is used once |
| L1 pairing, web bridge | Postgres rows with codes | request, confirm, poll, redeem | two confirmations, a code consumed by a failed insert | a code activates one device |
| L1 agent mailbox | message rows | heartbeat hands out, result acknowledges | delivery at least once | a message is processed |
| L1 store, organisations, fleet, telemetry | Postgres rows | one or two statements a request | | |
| Work ledger `l3_node/work_ledger*.py` | session files, index, pointer to the active session, evidence | start, end, note, checkpoint, outputs | handlers and checkpoint threads on the same files | the active session and the index are not forgotten; what is closed stays closed |
| Missions, intents, capability routing; memory growth; MCP registry and local MCP servers; shell jobs; periodic jobs | tables, records, child processes | classify, recall, call tools | heuristics and I/O | |
| Desktop client, SDKs, skills, scripts | user interface, libraries | | | |

**Interactions.**  `dag_handoff.auto_handoff_to_peer` picks a peer from the node registry,
sends it the package over HTTP, and then releases the DAG lock with the token
it finds in the table; the HTTP endpoints `dag-claim` of a node let other nodes use
its coordinator, so that several nodes' calls run in one process.  Agents submit
background tasks through the tool `core:submit_background_task`; workers call
`run_agent`; the deferred scheduler runs agents in threads of its own.
Resume reads the hook log and writes `active.json`, which node sync, the planner,
guardrails and handoff also write.  Lark and WebSocket messages become
instructions of a session queue, whose threads run the agent; the cognitive
kernel, inside such a turn, asks for confirmations.  A Telegram message goes from
the cloud's webhook into the mailbox, from there by a heartbeat of the L2 daemon
onto the sensory bus, and its result back.

## 2. Plan

In this order: what can lose or repeat work first.

1. **LeaseLock, DagLock** (done): the abstract lease and the lock that implements
   it.  Theorems: types, exclusion, bounded lease, refinement.
2. **BackgroundTasks** (done): the runtime with its crashes.  Theorems: types,
   each task is run at most once, rejected tasks never run, no record is stuck, ended
   records stay.
3. **SessionQueue** (done): enqueue, worker with idle timeout, parallel mode,
   collection of the session; liveness.  Theorems: types, order, concurrency,
   no queue without a worker.
4. **DagHandoff, DagBoard** (done): `active.json` with all its writers, the handoff
   between two nodes, and the board it implements.  Theorems: types, a sub-agent has
   ended under the id of every completed step, a handoff told as done was saved, the refinement.
5. **DeferredScheduler** (done): persisted list, scheduler threads, restart.
   Theorems: types and all three safety invariants.
6. **ChatTurns** (done): the three ways by which messages reach SessionQueue or the
   pool, and the history file; it extends SessionQueue.  Theorems: it implements
   SessionQueue; types, the order of histories, the count of messages, who waits.
7. **OmniBus, OmniMailbox** (done): the bus of L2 and, composed with it, the cloud's
   mailbox and the daemon.  Theorems: types and every safety property.
8. **PendingConfirmations** (done): the questions of the kernel.  Theorems: types and
   the three other invariants.
9. **WorkOrders** (left): dispatch and recovery of the cognitive kernel; the
   dependency order against a reference definition.
10. **WorkLedger** (left): session files, index and pointer under handlers and
    checkpoint threads.
11. **Pairing** (left): the L1 routes as statements that interleave.

Each module keeps parameters as CONSTANTS with named assumptions, one action
per operation or section, no RECURSIVE operator; proofs go to `<Module>_proofs`.

## 3. The modules

### LeaseLock

What the coordinator promises its callers about one DAG: at most one holder, who
changes only if there is none, if it renews its own lease, or if the lease of the
previous holder has run out; a lease of at most `Ttl`; only the holder gives up.

### DagLock

One row of `dag_locks` (every statement names its `dag_id`, so rows are independent).

| model | code |
|---|---|
| `row` | the row (owner, expiry, token), `NoRow` when there is none |
| `mutex[p]` | `_LOCK` of process `p` |
| `call[n]` | the call node `n` has in flight: where it is, its `now`, its token and the row its SELECT returned |
| `lease[n]` | what the last successful answer lets node `n` believe |
| `clock` | `time.time()`, bounded by `MaxTime` |
| `lapsed` | history: a claimant has read an expired row of another node |

`CallClaim`, `CallRelease` and `CallRefresh` start a call and read the clock, which the
code does before it waits for `_LOCK`.  `ClaimSelect` and `ReleaseSelect` are the
SELECTs, `ClaimInsert`, `ClaimRenew`, `ClaimPreempt`, `ReleaseDelete` and
`RefreshUpdate` the writes with exactly the WHERE clauses of the code.  Python's
`sqlite3` opens a transaction only at the first write, so calls of other
processes commit between the two; calls of one process do not, because of
`_LOCK`.  `Fail` is an exception or the death of the process before the commit,
`Forget` an answer that is lost or a node that restarts.
`CallHandoffRelease` is the end of `auto_handoff_to_peer`.

`ProcOf` gives the deployment: the code supports both, a database file shared by
processes on one machine and one coordinator behind HTTP.  A node makes one
call at a time.

### BackgroundTasks

| model | code |
|---|---|
| `reg` | `_registry` (status) |
| `queue` | `_queue`, an `asyncio.Queue(maxsize=max_queued)` |
| `worker[w]` | worker coroutine: at `get()`, before the agent (`started`), in the agent (`running`), in the awaits after completion (`announcing`), after a failure (`ending`) |
| `disk[t]` | `<task_id>.json`; `torn` when it does not parse |
| `pending` | table `bg_pending` |
| `zombies` | `zombie_tasks.json` |
| `phase` | down, the steps of `start_background_task_runtime`, serving, the steps of `graceful_shutdown_background_tasks` |
| `todo` | the writes that the section of code between two awaits has still to make |
| `reply`, `starts`, `shown` | history: answer to the submitter, runs of the agent, tasks listed to a user |

Everything runs in one event loop, so a section between two awaits is not
interleaved with another; but the process can die between any two of its writes.
An action therefore changes the memory and queues the section's writes in `todo`,
`Write` performs them one by one, no section begins before `todo` is empty, and
`Crash` is enabled after each.  `write_text` truncates before it writes, which is
`Empty` followed by `Record`; `zombie_tasks.json` is replaced atomically.

Task ids are fresh (`uuid4`): the guard of `Submit` says the id is unknown to the
registry, the records, the table and the history.  A write of the file system or of
SQLite succeeds unless the process dies; the `except` blocks that log and go on
are not modelled.  Events, `progress.md`, the task index and Lark messages are
left out: nothing reads them back.  The order in which the recovery reads rows
(by `created_at`) is left open.

### SessionQueue

| model | code |
|---|---|
| `mode` | `JACHIN_SIQ_MODE` |
| `queue` | `_queue`, an `asyncio.Queue(maxsize=MaxDepth)` |
| `loop[l]`, `task` | the worker coroutines (`off` is `done()`, `waiting` at `get()`, `leaving` when its timer has fired, `busy` in `execute_fn`) and `_worker_task` |
| `active`, `parallel` | `_active_parallel` and the tasks of `_run_parallel` |
| `told`, `accepted`, `begun`, `missed` | history: answers, the order of acceptance and of execution, and that the last worker ended with a queue that was not empty |

One event loop runs everything and `enqueue` has no await, so a submission is one
action: `SubmitParallel`, `SubmitQueued` (which calls `StartWorker`) or
`SubmitRejected`.  The worker's `wait_for(get(), 120)` is `IdleTimeout`, when the
timer fires, and `Leave`, when the coroutine is resumed with the error.  The timer
fires on an empty queue only: `get()` takes at once what is there.  A
submission may come between the two: it finds a worker that is not `done()`, starts
none, and its instruction stays when the worker returns (`missed`).  Up to Python 3.11
`wait_for` still returns what was put just before the timer fired; from 3.12 on that
stays too, which leads to the same state as the two in the other order.
`Finish` is an instruction that returned, raised or timed out; `Cancelled` one
that raised `CancelledError`, at which the worker returns.  `Collect` is the
garbage collector: the registry holds the session weakly, its coroutines are what
keeps it.  `reply_fn` is left out because no caller passes one.  The callers are the
subject of ChatTurns.

### ChatTurns

Extends SessionQueue: its state, and that of the callers around it.

| model | code |
|---|---|
| `channel` | how messages come: `siq` and `pool` (Lark, with and without `JACHIN_IM_SIQ_ENABLE`), `ws` (with `JACHIN_WS_SIQ_ENABLE`) |
| `inbox` | messages on their way from Lark's thread to the event loop (`run_coroutine_threadsafe`) |
| `count` | `_im_chat_inflight` of the chat |
| `fn[l]`, `by[i]` | the `execute_fn` a worker was started with, and the one that executed an instruction (`ws`) |
| `turn[t]` | where a turn is (in the agent, reading, opening, writing the history), and what it has read |
| `store` | `l3_lark_sessions.json`, the histories of all chats |
| `caller[i]` | the coroutine of a connection: waiting for the event of its message, woken, gone |
| `loaded`, `saved`, `failed`, `collected`, `outlived`, `crossed` | history |

A submission is SessionQueue's action together with the caller's part.  A turn of
Lark runs in a thread: `Load` reads the history, the agent runs, `ReadStore`,
`OpenStore` (which empties the file) and `WriteStore` save it.  A timeout of the
instruction lets the queue go on and the thread too (`outlived`).  One turn of
another chat, `Visitor`, writes the same file.  In PARALLEL mode each
instruction has a key of its own in the file.  A worker keeps the `execute_fn` of the
message that started it; those of two connections differ, those of two Lark
messages only by the user id.  Left out: trimming of histories, excerpts of
messages that had to wait, interceptors before the agent, and the histories of
WebSocket turns.

### DeferredScheduler

| model | code |
|---|---|
| `clock` | `_now_sh()`, in ticks of the two seconds of `_register_job` |
| `up`, `epoch` | the process, and which one it is: Python salts `hash(intent)`, so ids differ from one to the next |
| `jobs` | APScheduler's job store |
| `file` | `deferred_scheduled_tasks.json`: a list, empty, or no JSON |
| `thread[h]` | what a caller or a job's thread does to the file, and what it has read |
| `calls` | bound on calls |
| `runs`, `accepted`, `cancelled`, `restored`, `missed`, `clean` | history |

`Schedule` and `Cancel` change the job store and then, like `EndRun`, go through
`ReadFile` (or `SkipFile`, when the file does not parse), `Truncate` and `WriteFile`;
threads interleave between them.  A write into a file that another thread has
written meanwhile may leave it garbled.  `Start` restores rows that are not due; a
restored job gets an id of the new process and its row keeps the old one, so
`Cancel` by either id misses the other half.  `restored` names the tasks this has happened
to, and `CancelHolds` says of them no more than that this process does not
start them.
When a call to schedule and a call to cancel one id overlap, the histories count
neither.  Left out: the parsing of instants, and two texts whose 16-bit hashes
collide.

### DagBoard, DagHandoff

DagBoard is what `active.json` promises: a status per step, changed as a whole by a
mark, a resume, a package that comes in or a plan, until an update was lost
(`Lose`, which needs two overlapping updates or a planner that is cut off).  A resume opens
unfinished steps only; completed ones are opened again by nothing but a package, and a package
lists what was unfinished on the board where it was made (`Offer`): all of it, or as
many steps as the limit allows, as long as that board is intact.

| model | code |
|---|---|
| `active[n]`, `tmp[n]` | `active.json` and `active.json.tmp` of node `n` |
| `thread[h]` | the operation of a thread: where it is, what it read, the steps it changes, and the file its descriptor (`fd`) points to |
| `package[p]`, `wire[p]`, `told[p]` | a handoff: its package, where the request or the answer is, what the sender knows |
| `ResumeLimit`, `Probed` | `JACHIN_DAG_RESUME_LIMIT`: a probe, and so a resume or a package, lists the first unfinished steps up to the limit |
| `calls`, `crashes` | bounds |
| `ran`, `landed`, `clean` | history; `ran` holds ids, as everything in the code goes by them |

`MarkNode` is node sync, `ProbeResume` and `ReloadResume` the two loads of
`apply_dag_resume`, `ReadPlan` the planner, `ReadImport` an import; `OpenTmp`, `WriteTmp`,
`Rename` and `RenameFails` are `save_active_task_dag_dict`, `OpenActive` and
`WriteActive` the planner's direct write.  `Handoff`, `Import`, `Answer`, `Timeout` are
`auto_handoff_to_peer` and the endpoint of the peer; a request or an answer that is
lost stays where it is.  Agents that the deferred scheduler runs have
a thread of their own (`jobA`), everything else of a node is one event loop.
The release of the lock at the end of a handoff is DagLock's `CallHandoffRelease`.
A `Step` is the id of a node.  Plans number their nodes from "1" (`dag_planner.py:156`),
and a new plan keeps the status an old step had under the same id (lines 248-251), so
what is listed as completed need not be the step that was run (section 5).
Left out: the copy in `task_plan.md`, the choice of the peer, and the order of nodes in the
file (which steps a limited probe lists is left open).

### OmniBus, OmniMailbox

OmniBus is the table with its consumers, `core/daemon.py`, `core/nexus_daemon/daemon.py`,
`core/cli.py` and `core/voice_cli.py`; OmniMailbox extends it with the cloud's
mailbox and the daemon.

| model | code |
|---|---|
| `rows` | `omni_input_queue`, by id: session, what it is about, status |
| `up` | processes that run |
| `selected[p]` | the row the dispatcher's SELECT returned |
| `actor[p][k]` | the actor of a session: its inbox, the row it works on, and whether its idle timer has fired (`ending`) or ended it (`reaped`); it stays in `SessionManager._actors` |
| `mail` | `agent_message_queue` |
| `reply` | the answer to a heartbeat |
| `emitted` | `_emitted_message_ids` |
| `faults`, `emits` | bounds |
| `starts`, `dropped`, `answered`, `lost` | history |

`Select` and `Claim` are the dispatcher's SELECT and UPDATE, between which another
process may claim the row; `Start`, `Finish` and `Publish` the actor.  `IdleTimeout` is the
timer of its `wait_for(get())`, which fires on an empty inbox, and `Reap` the end of its
coroutine; as in SessionQueue a row may come between the two, and is in `dropped` like one
that comes later.  `Heartbeat`, `HeartbeatFails` and `Receive` are a poll, `Webhook` the cloud,
`Report` the report of a result, which may fail.  A process may end anywhere.
The daemon's WebSocket has no route on the server and is left out.

### PendingConfirmations

| model | code |
|---|---|
| `clock` | `time.time()` against `expires_at` |
| `store[k]` | the file of session `k`: none, torn, or the order with what it lacks |
| `turn[s]` | a turn under way: `pc`, its session, whether the text confirms, the order in hand and the session it came from, files it has read as expired |
| `planned`, `turns`, `crashes` | orders planned, and bounds |
| `asked`, `until`, `answered`, `lost`, `erased`, `revived`, and `open`, `closed` of a turn | history |

A turn loads the pending order (`Cancel`, `SlotReply`, `Confirm`, in the order of
`direct_mainline.py`), takes up a plan (`Plan`), asks (`Truncate`, `Write`), runs
(`Dispatch`, `Succeed`, `Fail`) and clears (`Clear`, `Drop` for expired files).  IM
turns run in threads, WebSocket turns on the event loop, so two turns interleave
between these steps.  A load, its own file and the fallback scan, is one
instant; a write is a truncation and the rest.  A removal by key takes whatever the file
holds by then (`Content`): a question of another order that goes with it, or that two writers
tear, is `erased`.  A question saved once more by a turn that had the order in hand while
another one answered it is `revived`.  How a text is recognised, what a
tool answers and which files a directory listing returns first are left open.
Left out: an `unlink` that fails, session keys that become the same file name, the
other callers of the load, which only remove expired files, and plans of several
orders, whose questions are all asked before the first order runs.

## 4. The runs

| run | instance | states the question |
|---|---|---|
| `daglock_one_process` | 3 nodes, 1 process, 4 tokens, `Ttl` 2, clock to 5 | exclusion, a live lease is the row, refinement of LeaseLock |
| `daglock_own_processes` | 2 nodes, 2 processes, 3 tokens, `Ttl` 2, clock to 3 | what survives without a common `_LOCK`: exclusion until a lease lapses, bounded leases |
| `daglock_cas` | 2 nodes, 2 processes, 4 tokens, `Ttl` 2, clock to 4 | *violation*: a live lock is taken over: a claimant has read the owner's expired row, the owner's late refresh commits, the claimant overwrites it |
| `background` | 2 tasks, 2 workers, queue of 1 | at most one run, rejected tasks never run, no stuck record, ended records stay, tasks move on |
| `background_cold_start` | 2 tasks, 1 worker, queue of 1 | *violation*: recovery deletes the rows it should queue again |
| `background_rejected` | 2 tasks, 1 worker, queue of 1 | *violation*: a rejected task is listed as interrupted by a crash |
| `session_queue` | ChatTurns: 3 messages, queue of 2, 1 parallel task, 2 workers, 2 connections, each channel | order, concurrency, the queue drains; histories in order, the count of messages in flight, who waits in vain |
| `session_queue_collected` | SessionQueue: 3 instructions | *violation*: a session is collected with an instruction in its queue: the one before it raised `CancelledError`, and the worker returned |
| `deferred_scheduler` | 2 tasks due at 2 and 3, 2 callers, 3 calls, clock to 3, 2 restarts | one start of a task, a schedule survives, what a cancellation gives, what is scheduled runs |
| `dag_handoff` | 2 nodes, 2 steps, a limit of 1 on what a probe lists, 3 threads, 3 operations, 1 handoff, 1 crash | a completed id was run, ok means imported, refinement of DagBoard |
| `omni_mailbox` | 2 processes, 3 messages, 1 session, 2 rows, 1 fault | at most once, order, claimed rows are held, marks are earned, nothing is forgotten, delivery |
| `pending_confirmations` | 2 sessions, 3 orders, 4 turns of which 2 at once, 2 gaps, clock to 2, 1 crash | a question is kept unless it is erased, a reply answers the question that is open in its session, an answered order is not taken up again |

**Bounds.**  DagLock: `Ttl` 2 lets a call be delayed by less than, by exactly and
by more than a lease, and `MaxTime` leaves room for a lease, its expiry and a
second one.  Three nodes are a holder, a preempting claimant and a
late caller (without a common `_LOCK` two suffice for the exclusion until a lapse and for
the violation; that two claimants overwrite one another takes a third and is not run); tokens are needed by live calls and leases and the row only, and
four let a node rotate its own while others wait.  Tokens (and nodes, when
one process serves them all) are symmetric.  BackgroundTasks: a queue of one is full
with the first task, so both answers occur; two workers can hold the two tasks at
once; the number of crashes and restarts is not bounded, and each id is submitted
at most once by construction of ids, so the state space is finite.
SessionQueueCollected and ChatTurns: with three messages one is executed, one
or two wait, and a queue of two is full while the worker has not taken the first;
a new worker is started only when the old one is done, so two incarnations take
turns for ever.  DeferredScheduler: two tasks and two callers suffice for lost updates
and for a call against a job's thread; three calls are a schedule, a second
one and a cancellation; `Grace` 0 makes a misfire possible within the clock, and one task is due
before and one after a restart; with two restarts a restored task, whose row has an old id, can be
cancelled and restored once more.  DagHandoff: with two steps and a limit of one a probe,
and so a package, leaves a step out; three operations overlap on one node or
meet on two, two of them beside a handoff; the second thread exists at
one node only, since a node's file is touched by its own threads.  OmniMailbox: `Limit`
and `Remember` 2 with three messages make the heartbeat and the memory full, `Keep` 1
makes it forget (10, 100 and 50 in the code); two rows are one before and
one after a claim or a fault.  PendingConfirmations: `Ttl` 1 lets a question live,
lapse at the next tick and be asked again; four turns are two questions and two
answers, in any overlap of two; three orders are two of one session, of which a turn may
erase the other's, and one of another session that a stray reply may reach.  In addition the safety properties proved in
section 6 hold for all values of the constants.

Deadlock is checked in the runs of DagLock and BackgroundTasks: a node can always
make or abandon a call, and a process that is down can start.  It is not in the
others, which may rest when all messages, calls or turns are done, or when a
bound is reached.

**Fairness.**  BackgroundTasks' `FairSpec` is weak fairness of the writes,
of startup, of shutdown and of each worker: a section of code runs to its end, and
the event loop resumes every coroutine that can go on; an agent run is bounded
by `max_iterations` and by the timeouts of its calls.  Submissions, stops and
crashes are not fair: they may never happen, or happen always.  ChatTurns'
`FairTurns` is weak fairness of `Worker(l)`: the event loop resumes a worker that can
go on, and `wait_for` ends every instruction after `JACHIN_SIQ_INSTRUCTION_TIMEOUT_SEC`.
Nothing is assumed of the idle timer, of parallel tasks, threads or submissions.
DeferredScheduler: the clock goes on and APScheduler starts or drops what is due;
nothing of callers, of the length of a run or of a restart.
OmniMailbox: the daemon polls, its dispatcher and its actors go on, and a report
ends after its 10 s; nothing of agents or other processes.  DagLock,
DagHandoff and PendingConfirmations state no liveness and assume none.  That a handoff is
answered or given up within 30 s is the HTTP client's timer and nothing else.

## 5. Findings

Four disagreements between the code and what the repository says of it, each
with a run that shows it (the texts are quoted in `PROJECT.json`):

1. The lock is described as compare-and-swap, but the preempting UPDATE compares
   nothing (`dag_coordinator.py:338`): with a process per node a claimant reads an expired
   row, the owner's late refresh commits (it does not compare the expiry), and the
   claimant overwrites a lock that is live.  Both are told they hold it.
2. At startup the reconciliation makes every queued task `interrupted` before the
   recovery reads the pending rows, so the recovery deletes them
   (`background_task_service.py:663`): a queued task is not recovered.
3. A task rejected by a full queue keeps a record that says `queued`
   (`background_task_service.py:870`), and the next startup lists it as a task
   that a crash left unfinished.
4. A worker whose instruction raises `CancelledError` returns without a look at its
   queue (`session_instruction_queue.py:233-235`), so a session that is not idle can be
   collected together with an instruction that was answered `queued`.  (A worker whose idle timer
   fires just before an enqueue leaves one behind in the same way, lines 211-215.)

With one process (1) cannot happen: that is proved.

Observations met while translating, without a run of their own.  Where they
touch a property, the property says what remains true.

*Lock.*  `release_dag` compares the token in the SELECT, not in the DELETE
(`dag_coordinator.py:378`; its docstring, line 363: "token 不匹配时拒绝"): with a process
per node a late release removes a lock that has changed hands; with one
process it does not (`OneProcessRelease`).

*Session queue and turns.*  The worker executes beside the parallel tasks, so one
instruction more than `JACHIN_SIQ_MAX_PARALLEL` may run.  A worker keeps its first
`execute_fn` (`session_instruction_queue.py:126`): the second message of a WebSocket
session within 120 s is answered to the first message's waiter and its own waits
for the timeout and ten seconds; group chats run under the user who
started the worker.  A message that a full queue rejects, that is dropped, or that
goes with its session leaves `_im_chat_inflight` too high for ever (`Leaked`).  After a
timeout the thread goes on beside the next turn.  All chats share one history
file, so overlapping turns lose each other's.  `/clear` leaves the saved
history, because an empty list is not saved.  The HTTP path calls `_invoke_agent` with
an argument (`http_server.py:2671`) that its definition (line 2555) does not take.

*Deferred tasks.*  Once the file is garbled nothing is persisted any more: every
change is skipped.  `cancel_task` with a row id of an earlier process removes the row
and answers that it found nothing, and the restored job still fires.  With the id
the job has now, it removes the job and answers "已取消任务", but the row keeps the old id
(line 284, 132): the next restart restores the task and it fires.

*DAG files.*  Two plans may both pass the check that an existing `active.json` is not
overwritten (`dag_planner.py:128`).  Two threads that save at once may garble the file in
spite of the atomic replacement (`task_dag.py:78`).  An import answers ok
when its save failed (`dag_handoff.py:268`); it merges by step id only, whatever the
DAG, and starts nothing.  The sender keeps its pending steps after a handoff, and
after a timeout both nodes may have them.  `completed_node_ids` is always
empty (`dag_resume.py:129` asks the log for a name under which it records nothing).
Plans number their nodes "1", "2", ... (`dag_planner.py:156`) and a new plan takes over the status the
old file has under the same id (lines 248-251): a step nobody has run may be listed as
completed.  Between a resume's two loads a step may be completed; it is set back to
`pending`.  A package lists at most `JACHIN_DAG_RESUME_LIMIT` (20) steps; a plan may have 32.

*Bus and mailbox.*  An UPDATE that claims nothing still hands the row over
(`event_bus.py:223`), so two processes may run it.  Rows left `processing` are
never taken up, although `.cursor/rules/043-omni-sensory-bus.mdc:12` says that a
restart loses no event.  An actor that has timed out stays registered: its session is
dead for that process, and a row that comes between the timer and the actor's end waits
there as well (`session_manager.py:43-50`).  Telegram events carry no session id, so they run side by
side.  The daemon forgets an arbitrary part of what it remembers (`daemon.py:154`), and
emits a reply once more as a whole when one message of it is new
(`daemon.py:149`).  A result that another consumer produced, or whose report failed, is
never reported; ten such messages block the mailbox until the daemon restarts.

*Confirmations.*  A cancellation during a run is answered
"已取消上一个待确认任务，不会执行。" (`direct_mainline.py:102`), and the order runs.  A second
"yes" during a run, or after a failed one, runs it again.  The clearing after a run goes
by the session key and may remove a newer question, as may a turn that read an expired one
(`pending_confirmation.py:239`).  The user's "yes" to such a question goes to another
session's order, if just one is live (`pending_confirmation.py:151`).  A crash between a run and the
removal of its question leaves the question, and a later "yes" runs the order again.  Almost any text is taken
for a missing slot, which then counts as the confirmation of the order; a slot reply may
bring back a question that was cancelled meanwhile.  When the session's own question has
lapsed, the next "yes" goes to another session's, if that is the only live one; a
torn file of its own hides the others.

## 6. The proofs

The eight `_proofs` modules hold for any sets of nodes, processes, tokens, tasks, workers,
instructions, threads, steps, messages, sessions and orders, any times to live and
capacities, and any bounds.  Their assumptions are the named `ASSUME`s of the modules:
functions have their domains, times and bounds are natural numbers
(`Ttl` of the lock and the bounds of the queues positive), kinds of ids are
disjoint, and markers such as `NoNode` or `NoTask` are not ids (`ChatAssumption`: the keys of
two chats differ and are no instruction's; `NoFile # Torn`: a file that is not there is not one
that does not parse; `LimitAssumption`: the limit of a probe is positive).  `IdAssumption`, that there are finitely many instruction ids, is
needed by `TurnTypes` only, since a cardinality is a number only for a finite set; ids are
`uuid4`s.

* **`TypeCorrect`, `TypesCorrect`, `QueueTypes`, `SchedulerTypes`, `HandoffTypes`,
  `MailboxTypes`, `ConfirmationTypes`, `TurnTypes`**: the type invariants.  That of
  PendingConfirmations needs `HeldInv`: a turn that acts on an order has one in hand.
* **`ExclusionBeforeLapse`** (any deployment): two nodes hold live leases only after
  a claimant has read the expired row of another.  Inductive invariant
  `UnlapsedInv`: while `lapsed` is false, only the owner in the row has a lease, and
  whoever is about to renew or to delete the row still owns it; a node that
  releases has given its lease up first; the INSERT is protected by the primary key.
* **`LeaseIsBounded`** (any deployment): the clock value a call carries is never in
  the future (`TimeInv`), hence no expiry is more than `Ttl` ahead.
* **`OneProcessExclusion`, `OneProcessBacked`, `OneProcessTakeover`,
  `OneProcessRelease`, `OneProcessRefinement`** (all calls in one process).  Inductive invariant `SerialInv`:
  a call between SELECT and write holds the only `_LOCK` and has seen the row as it
  is; a live lease is the row (`Backed`).  From it every step on the row is
  either a write the abstract lease allows or a removal by the owner
  (`SerialRowStep`), which gives the three action properties.
* **`RunAtMostOnce`** (BackgroundTasks).  `AtMostOnce` alone is not inductive: it says
  nothing of where a second run could come from.  `OnceInv` adds where a task
  that has not been run can be (in the queue, in `bg_pending`, in a write
  to the table still in `todo`, or with one worker that has not begun), that it is
  in one of those places for the workers, that a worker whose task still has
  its row is about to delete it, and that a task which is anywhere has a record, or
  is about to get one, so its id is not given out again.  `OnceInductive` has
  one lemma per action.
* **`RejectedIsFinal`, `NoRecordIsStuck`, `EndedRecordsKept`** (BackgroundTasks).  The writes of
  a section are made one by one and a crash may cut them off, so what the records
  say is not what the memory says.  `Settled(t, s)` is what the record of `t` will say when
  the section is over, and `RecordInv` has four parts: in which order the writes of a
  section follow one another (`SectionInv`); a task that is turned away is nowhere and loses its
  row before its submitter is told (`RejectInv`); what the startup has established by each of its
  phases (`StartInv`); and, while the node serves, that settled records agree with
  the queue and the workers (`ServeInv`).

* **`QueueServed`, `QueueConcurrency`, `QueueFifo`** (SessionQueue).  `Served` is
  inductive.  `Concurrency` needs `QueueInv`: the only worker that is not done is
  `_worker_task`, and the counter is the number of parallel tasks.  `Fifo` needs `Ordered`:
  what has begun was accepted before everything that is queued, and the queue
  is in the order of acceptance.

* **`TurnsRunTheQueue`, `TurnsFifo`, `TurnsConcurrency`** (ChatTurns).  Every step of the turns is a step of
  SessionQueue or leaves its variables alone (`QueueStep`), so the composition implements
  the component and what is proved of the queue holds of it.
* **`TurnsAreCounted`, `WaitsAreAccounted`** (ChatTurns).  `PlaceInv` says where a message is at
  each point of its turn: on its way, queued, gone with its session, with a worker or
  in a task.  From it the count is the number of turns that are neither to come nor over
  (`CountInv`), which are those under way and those that leaked, without overlap; and a connection waits
  as `WaitInv` says, which follows the `execute_fn` a worker keeps.
* **`HistoryIsInOrder`** (ChatTurns).  `ThreadInv`: until a thread outlives its instruction, only
  what is executed has a thread, and without a queue only the holder of the chat's lock.
  `StoreInv`: while threads save one after the other, the file is whole unless the one that
  saves has opened it.  `Contents` is what the file holds or will hold again, the list the saving
  thread has read; `HistoryInv` says that it holds every saved turn, and in SERIAL mode those alone in the order
  of loading, and that what a turn has read is still the history of its chat.
  `HistoryInOrder` speaks of positions in the list (`Follows`) and not of `SelectSeq`, of which the
  provers know nothing.

* **`SingleRunHolds`, `SurvivesRestarts`, `CancelHoldsAlways`** (DeferredScheduler).
  `SingleRun` rests on `Started`: a task that was started has no job and its time has come,
  so no schedule and no restore takes it again.  The other two need `FileInv`: while
  no change was lost, one thread at a time has the file open, and what it read is what
  it replaces; `ThreadInv` and `CancelInv` say which ids threads work on, and `Backed`
  that an accepted task has a row, or is about to get one, that nobody removes.  `CancelHolds`
  leaves out, of later processes, the tasks that were restored (`restored`): there the code gives nothing.
* **`CompletedRan`, `ReportedWasImported`** (DagHandoff).  `RanInv` carries "completed
  means that a sub-agent has ended under that id" through every place a list can be: both files and what each
  thread has read.  It is about ids, as the code is; that the step of the present plan was run
  does not follow and is not true (section 5).  `OkInv` follows a package from the import to the answer: it
  answers after its rename, or after a failure that soils the file.
* **`FilesAreABoard`** (DagHandoff): the refinement of DagBoard.  `BoardInv`: while no update
  of a node's file was lost, the file is absent or JSON, or one planner has emptied it and is
  about to write what it read (`OnBoard`); and each thread works on a list it could
  read, with arguments that fit it (`Sound`): a mark's step is listed, a resume's are unfinished
  there, an import's are those of a package.  A package lists what a probe gave, `Probed`, which is the
  board's `Offer` with the same limit.  Then a rename, or a planner's write, is one
  step of the board on the list that was read (`ResultEdits`), which is the one listed; every
  other step is a stutter, makes a package, or soils the file.
* **`QuestionsAreKept`, `RepliesAnswerOpenQuestion`, `AnsweredOrdersStayAnswered`**
  (PendingConfirmations), from one invariant, `SafeInv`.  `OrderInv`: an order is in the file or the
  hands of the session that asked, and a new plan brings one nobody has seen.  `WaitInv`: an open
  question is in its session's file, or the file is torn and the turn that fills a slot of it is about to write it
  (`Kept`); and what a turn writes into a file that is gone is no open question (`WriterInv`).  `AnswerInv`: an answered
  order is in a file (`AnsweredFile`), or in the hand of a turn that began later (`AnsweredHeld`), only when
  it was `revived`.  The three theorems say no more than the formulas: a question that was `erased` is
  excepted from the first and is not open in the second, and a run that was not verified, or that
  a crash cut off before the question was removed, is no answer in the third.
* **OmniMailbox**, layer by layer: `TableInv` (rows that are referred to exist),
  `OrderInv` (pending rows come after what a process has selected, that after what waits
  at its actors, that after what was started: `RowsStartOnce`, `SessionsInOrder`), `WorkInv` (what
  has ended was answered: `MarkedWasAnswered`), `ClaimInv` (a selection belongs to a process that runs, and
  a claimed row is with an actor that is alive unless it is in `dropped`: `ClaimedRowsHeld`), `KeepInv` (a row of a message has a session of its own, whose
  actor is never reaped: `MessagesKept`).

Only model-checked: the liveness properties `Settles`, `Drains`, `Fires`
and `Delivered`, which the prover cannot reach (they rest on fairness, hence
on ENABLED), and the runs that show a violation.  Every safety invariant, action property
and refinement that a passing run checks is also a theorem.

## 7. Not modelled

The components without a module in section 1 and the reasons are listed under
`components` in `PROJECT.json`: those of the plan come later; the voice pipeline,
the agent loop and the Codex manager are I/O or heuristics with little
shared state; SDKs, skills and scripts are not part of the running system.

Of the cognitive kernel only the questions to the user are modelled.  Of the HTTP
server, its way through the session queue is not: a call there always fails (section
5).  The pairing routes of L1 were read: they SELECT a row and UPDATE it without
a condition on the status, so two confirmations race, and the UPDATE for an expired
code may set an active agent offline, which its next heartbeat undoes.

The work ledger was read: a checkpoint in a thread (`work_ledger_http.py:449`) empties and
rewrites the session file and the index while handlers read them; `_load_index`
takes an index that does not parse for an empty one and the next save makes
that permanent (`work_ledger.py:213`), and `get_active_session` removes the pointer to the
active session when its file does not parse (line 279).  It is of the same kind as the files of
DeferredScheduler and PendingConfirmations and comes next.

Some of the hazards in `PROJECT.json` have no property that would catch them, and their
notes say why.  Most are what the code does today: updates of unlocked files that are lost (the
scheduler's list, the histories, `active.json`), the second run of a row by another
process, an actor that has ended, a question erased or an order run twice by overlapping turns, the
worker's first `execute_fn`, the count of a rejected message, the status of an old step under a new
plan's id.  The properties nearby name these cases in a history variable and say that nothing
else goes wrong; they do not promise that these do not happen.  Two are of BackgroundTasks: a
second crash between the
`interrupted` record and `zombie_tasks.json` (`background_task_service.py:416`), of which no
text promises anything, and `put_nowait` from a thread that is not the event loop's
(line 869), where the moment at which a worker wakes depends on asyncio's
internals.

## 8. Running the checks

    tlc -workers 2 -config MCDagLockShared.cfg MCDagLock.tla        # also ...Own, ...Cas
    tlc -workers 2 -config BackgroundTasks.cfg BackgroundTasks.tla  # also ...ColdStart, ...Rejected
    tlc -workers 2 -config ChatTurns.cfg MCChatTurns.tla
    tlc -workers 2 -config SessionQueueCollected.cfg SessionQueue.tla
    tlc -workers 2 -config DeferredScheduler.cfg MCDeferredScheduler.tla
    tlc -workers 2 -config DagHandoff.cfg MCDagHandoff.tla
    tlc -workers 2 -config OmniMailbox.cfg MCOmniMailbox.tla
    tlc -workers 2 -config PendingConfirmations.cfg MCPendingConfirmations.tla
    for m in *_proofs.tla; do tlapm $m; done

`PROJECT.json` lists for each property a mutant: a plausible bug (an operator named
`Bug...` next to the definition it replaces) that violates it.
