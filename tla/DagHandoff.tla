----------------------------- MODULE DagHandoff -----------------------------
(***************************************************************************)
(* The file workspace/task_dags/active.json of the L3 nodes, everything    *)
(* that writes it, and the transfer of a DAG to another node:              *)
(* l3_node/task_engine/{task_dag, dag_node_sync, dag_planner, dag_resume,  *)
(* dag_handoff}.py.                                                        *)
(*                                                                         *)
(* The file lists steps with a status.  Every operation reads it, changes  *)
(* what it has read, and writes it back, without a lock.  On one event     *)
(* loop nothing comes between, but agents that the deferred scheduler      *)
(* starts run in a thread of their own.  All savers use one temporary      *)
(* file, which they open (that empties it), write and rename; a planner    *)
(* writes active.json itself.  A thread holds on to the file it has opened *)
(* when that is renamed or replaced: its descriptor says where a write     *)
(* goes.                                                                   *)
(*                                                                         *)
(* Status is what the code writes: "running" and "skipped" are only read.  *)
(* The set of completed nodes of a package is always empty:                *)
(* probe_dag_resume asks the hook log for HOOK_ON_TASK_NODE_DONE, and the  *)
(* log has the events as on_task_node_done.  The copy of the file in       *)
(* task_plan.md (JACHIN_TASK_PLAN_DAG_SYNC, off by default) is left out.   *)
(*                                                                         *)
(* A Step is the id of a node, which is all the operations go by.  Plans   *)
(* number their nodes "1", "2", ..., so the steps of two plans share their *)
(* ids: what a status says under an id may be about a step of an earlier   *)
(* plan.  The order of the nodes in the file is left out; where the code   *)
(* takes the first of them, it takes any.                                  *)
(***************************************************************************)
EXTENDS Naturals, FiniteSets

CONSTANTS Node, Step,
          Thread,       \* threads of all nodes
          NodeOf,       \* the node of a thread
          Agent,        \* the threads in which agents run
          Server,       \* of each node, the thread that serves HTTP
          ResumeLimit,  \* JACHIN_DAG_RESUME_LIMIT: the most steps a probe lists
          MaxCalls,     \* bound: operations on the files
          MaxPackages,  \* bound: handoffs
          MaxCrashes    \* bound: restarts of nodes

Package == 1..MaxPackages
NoPackage == 0

ASSUME ThreadAssumption ==
  /\ NodeOf \in [Thread -> Node]
  /\ Agent \subseteq Thread
  /\ Server \subseteq Thread
ASSUME LimitAssumption == ResumeLimit \in Nat \ {0}
ASSUME BoundAssumption ==
  MaxCalls \in Nat /\ MaxPackages \in Nat /\ MaxCrashes \in Nat

VARIABLES
  active,    \* active.json of each node
  tmp,       \* active.json.tmp of each node
  thread,    \* the operation each thread is in
  package,   \* the packages that were made: sender, addressee and steps
  wire,      \* where the import request of a package, or its answer, is
  told,      \* what auto_handoff_to_peer knows of it
  calls, crashes,
  ran,       \* history: the ids whose sub-agent has ended without an error
  landed,    \* history: the packages whose import was saved
  clean      \* history: no update of the node's file was lost or cut off

files == <<active, tmp>>
transfer == <<package, wire, told>>
history == <<ran, landed, clean>>
vars == <<files, thread, transfer, calls, crashes, history>>

Status == {"none", "pending", "failed", "completed"}
NoSteps == [s \in Step |-> "none"]

(* A file: not there; opened and not written yet; JSON; or no JSON, since two *)
(* threads have written the same file.                                        *)
File(form, list) == [form |-> form, list |-> list]
Absent == File("absent", NoSteps)
Empty == File("empty", NoSteps)
Garbled == File("garbled", NoSteps)
FileType == [form: {"absent", "empty", "json", "garbled"}, list: [Step -> Status]]
Readable(f) == f.form = "json"

Idle == [pc |-> "idle", op |-> "mark", seen |-> Absent, steps |-> {},
         status |-> "pending", package |-> NoPackage, fd |-> "tmp"]

ThreadType ==
  [pc: {"idle", "reload", "open", "write", "rename"},
   op: {"mark", "resume", "import", "plan"},
   seen: FileType, steps: SUBSET Step, status: Status,
   package: Package \cup {NoPackage},
   fd: {"tmp", "active", "gone"}]

TypeOK ==
  /\ active \in [Node -> FileType]
  /\ tmp \in [Node -> FileType]
  /\ thread \in [Thread -> ThreadType]
  /\ package \in [Package -> [from: Node, to: Node, steps: SUBSET Step]]
  /\ wire \in [Package -> {"unused", "request", "importing", "answer", "over"}]
  /\ told \in [Package -> {"nothing", "waiting", "ok", "failed"}]
  /\ calls \in 0..MaxCalls
  /\ crashes \in 0..MaxCrashes
  /\ ran \in SUBSET Step
  /\ landed \in SUBSET Package
  /\ clean \in [Node -> BOOLEAN]

(* A process of one node has left a DAG, the others none. *)
Planned == File("json", [s \in Step |-> "pending"])

NoRequest ==
  LET n == CHOOSE n \in Node : TRUE IN [from |-> n, to |-> n, steps |-> {}]

Init ==
  /\ \E m \in Node : active = [n \in Node |-> IF n = m THEN Planned ELSE Absent]
  /\ tmp = [n \in Node |-> Absent]
  /\ thread = [h \in Thread |-> Idle]
  /\ package = [p \in Package |-> NoRequest]
  /\ wire = [p \in Package |-> "unused"]
  /\ told = [p \in Package |-> "nothing"]
  /\ calls = 0
  /\ crashes = 0
  /\ ran = {}
  /\ landed = {}
  /\ clean = [n \in Node |-> TRUE]

Unfinished(list) == {s \in Step : list[s] \in {"pending", "failed"}}

-----------------------------------------------------------------------------
(* Beginning an operation: what it reads, and its arguments. *)
Begin(h, pc, op, S, status, p) ==
  /\ calls < MaxCalls
  /\ calls' = calls + 1
  /\ thread[h].pc = "idle"
  /\ thread' = [thread EXCEPT ![h] =
       [pc |-> pc, op |-> op, seen |-> active[NodeOf[h]], steps |-> S,
        status |-> status, package |-> p, fd |-> "tmp"]]

Soil(n, bad) == clean' = [clean EXCEPT ![n] = @ /\ ~bad]

(* Mutant: a status that nothing reads. *)
BugStatus(ok) == IF ok THEN "ended" ELSE "failed"

(* Mutant: a sub-agent that raises is marked completed. *)
BugOutcome(ok) == "completed"

(* sync_from_task_node_ctx: without an error a step is completed. *)
Outcome(ok) == IF ok THEN "completed" ELSE "failed"

(* A sub-agent has ended: mark_dag_node_status, as far as it reads.  A step   *)
(* that is not listed, and a file that is not there or does not parse, are    *)
(* left alone: nothing happens.                                               *)
MarkNode(h, s) ==
  \E ok \in BOOLEAN :
    /\ active[NodeOf[h]].list[s] # "none"
    /\ ran' = IF ok THEN ran \cup {s} ELSE ran
    /\ Begin(h, "open", "mark", {s}, Outcome(ok), NoPackage)
    /\ UNCHANGED <<files, transfer, crashes, landed, clean>>

(* Mutant: a probe lists the finished steps with the others. *)
BugProbed(list) == {{s \in Step : list[s] # "none"}}

(* What probe_dag_resume may list: the unfinished steps, the first of them    *)
(* where there are more than the limit.                                       *)
Probed(list) ==
  {S \in SUBSET Unfinished(list) :
     \/ S = Unfinished(list) /\ Cardinality(S) <= ResumeLimit
     \/ Cardinality(S) = ResumeLimit}

(* apply_dag_resume: the probe, ... *)
ProbeResume(h, S) ==
  /\ h \in Server
  /\ S # {} /\ S \in Probed(active[NodeOf[h]].list)
  /\ Begin(h, "reload", "resume", S, "pending", NoPackage)
  /\ UNCHANGED <<files, transfer, crashes, history>>

(* ... and the second load, the one that is changed and saved.               *)
ReloadResume(h) ==
  LET n == NodeOf[h] IN
  /\ thread[h].pc = "reload"
  /\ thread' = [thread EXCEPT ![h] =
       IF Readable(active[n]) THEN [@ EXCEPT !.pc = "open", !.seen = active[n]] ELSE Idle]
  /\ Soil(n, thread[h].seen # active[n])
  /\ UNCHANGED <<files, transfer, calls, crashes, ran, landed>>

(* The model has answered: plan_task_dag, as far as _write_active_json reads  *)
(* the statuses to keep.  What went before, the look for an active.json       *)
(* (should_auto_plan wants none, a replan wants one) and the request to the   *)
(* model, leaves the files alone, and an await lies between it and this.      *)
ReadPlan(h, S) ==
  /\ S # {}
  /\ Begin(h, "open", "plan", S, "pending", NoPackage)
  /\ Soil(NodeOf[h], active[NodeOf[h]].form \in {"empty", "garbled"})
  /\ UNCHANGED <<files, transfer, crashes, ran, landed>>

(* import_dag_handoff as far as it reads; a file that does not parse is       *)
(* taken for none.                                                            *)
ReadImport(h, S, p) ==
  /\ h \in Server
  /\ Begin(h, "open", "import", S, "pending", p)
  /\ Soil(NodeOf[h], active[NodeOf[h]].form \in {"empty", "garbled"})
  /\ UNCHANGED <<files, crashes, ran, landed>>

-----------------------------------------------------------------------------
(* What an operation writes. *)
Result(h) ==
  LET list == thread[h].seen.list
      S == thread[h].steps
  IN CASE thread[h].op = "mark" -> [s \in Step |-> IF s \in S THEN thread[h].status ELSE list[s]]
       [] thread[h].op = "resume" ->
            [s \in Step |-> IF s \in S /\ list[s] # "none" THEN "pending" ELSE list[s]]
       [] thread[h].op = "import" -> [s \in Step |-> IF s \in S THEN "pending" ELSE list[s]]
       [] thread[h].op = "plan" ->
            [s \in Step |-> IF s \notin S THEN "none"
                            ELSE IF list[s] = "none" THEN "pending"
                            ELSE list[s]]

(* The opening of write_text: a saver's of the temporary file, a planner's of *)
(* active.json.                                                               *)
OpenTmp(h) ==
  LET n == NodeOf[h] IN
  /\ thread[h].pc = "open"
  /\ thread[h].op # "plan"
  /\ tmp' = [tmp EXCEPT ![n] = Empty]
  /\ thread' = [thread EXCEPT ![h].pc = "write"]
  /\ UNCHANGED <<active, transfer, calls, crashes, history>>

OpenActive(h) ==
  LET n == NodeOf[h] IN
  /\ thread[h].pc = "open"
  /\ thread[h].op = "plan"
  /\ active' = [active EXCEPT ![n] = Empty]
  /\ thread' = [thread EXCEPT ![h].pc = "write", ![h].fd = "active"]
  /\ Soil(n, active[n] # thread[h].seen)
  /\ UNCHANGED <<tmp, transfer, calls, crashes, ran, landed>>

(* A write into a file f: where another thread has written meanwhile, the     *)
(* tail of what it wrote may stay behind.                                     *)
Written(h, f) ==
  {File("json", Result(h))} \cup (IF f = Empty THEN {} ELSE {Garbled})

(* A saver's write. *)
WriteTmp(h) ==
  LET n == NodeOf[h] IN
  /\ thread[h].pc = "write"
  /\ thread[h].op # "plan"
  /\ thread' = [thread EXCEPT ![h].pc = "rename"]
  /\ CASE thread[h].fd = "tmp" ->
            /\ \E f \in Written(h, tmp[n]) : tmp' = [tmp EXCEPT ![n] = f]
            /\ UNCHANGED <<active, clean>>
       [] thread[h].fd = "active" ->
            /\ \E f \in Written(h, active[n]) : active' = [active EXCEPT ![n] = f]
            /\ Soil(n, TRUE)
            /\ UNCHANGED tmp
       [] thread[h].fd = "gone" -> UNCHANGED <<files, clean>>
  /\ UNCHANGED <<transfer, calls, crashes, ran, landed>>

(* A planner's, which ends it. *)
WriteActive(h) ==
  LET n == NodeOf[h] IN
  /\ thread[h].pc = "write"
  /\ thread[h].op = "plan"
  /\ thread' = [thread EXCEPT ![h] = Idle]
  /\ CASE thread[h].fd = "active" ->
            /\ \E f \in Written(h, active[n]) : active' = [active EXCEPT ![n] = f]
            /\ Soil(n, active[n] # Empty)
       [] thread[h].fd # "active" -> UNCHANGED active /\ Soil(n, TRUE)
  /\ UNCHANGED <<tmp, transfer, calls, crashes, ran, landed>>

(* An import answers ok whatever became of its save. *)
Reply(p) == IF p = NoPackage THEN wire ELSE [wire EXCEPT ![p] = "answer"]

(* The descriptors of a node's other threads when its temporary file becomes  *)
(* active.json.                                                               *)
Moved(n) ==
  [h \in Thread |->
     IF NodeOf[h] = n /\ thread[h].pc = "write"
       THEN [thread[h] EXCEPT !.fd = IF @ = "tmp" THEN "active" ELSE "gone"]
       ELSE thread[h]]

(* tmp.replace, and the end of the operation. *)
Rename(h) ==
  LET n == NodeOf[h] IN
  /\ thread[h].pc = "rename"
  /\ tmp[n] # Absent
  /\ active' = [active EXCEPT ![n] = tmp[n]]
  /\ tmp' = [tmp EXCEPT ![n] = Absent]
  /\ thread' = [Moved(n) EXCEPT ![h] = Idle]
  /\ wire' = Reply(thread[h].package)
  /\ landed' = landed \cup ({thread[h].package} \cap Package)
  /\ Soil(n, tmp[n] # File("json", Result(h)) \/ active[n] # thread[h].seen)
  /\ UNCHANGED <<package, told, calls, crashes, ran>>

(* Another thread has renamed it (FileNotFoundError), or has one of the two   *)
(* files open, which Windows does not replace (PermissionError): an OSError,  *)
(* and save_active_task_dag_dict returns False.                               *)
RenameFails(h) ==
  /\ thread[h].pc = "rename"
  /\ \/ tmp[NodeOf[h]] = Absent
     \/ \E g \in Thread : NodeOf[g] = NodeOf[h] /\ thread[g].pc = "write"
  /\ thread' = [thread EXCEPT ![h] = Idle]
  /\ wire' = Reply(thread[h].package)
  /\ Soil(NodeOf[h], TRUE)
  /\ UNCHANGED <<files, package, told, calls, crashes, ran, landed>>

-----------------------------------------------------------------------------
(* auto_handoff_to_peer up to its request: the package lists what a probe     *)
(* finds; the node's own file stays as it is.                                 *)
Handoff(h, p, q, S) ==
  LET n == NodeOf[h] IN
  /\ h \in Server
  /\ thread[h].pc = "idle"
  /\ q # n
  /\ wire[p] = "unused" /\ \A r \in Package : r < p => wire[r] # "unused"
  /\ S # {} /\ S \in Probed(active[n].list)
  /\ package' = [package EXCEPT ![p] = [from |-> n, to |-> q, steps |-> S]]
  /\ wire' = [wire EXCEPT ![p] = "request"]
  /\ told' = [told EXCEPT ![p] = "waiting"]
  /\ UNCHANGED <<files, thread, calls, crashes, history>>

(* Mutant: the peer answers as soon as it has the request. *)
BugImport(h, p) ==
  /\ wire[p] = "request"
  /\ NodeOf[h] = package[p].to
  /\ ReadImport(h, package[p].steps, NoPackage)
  /\ wire' = [wire EXCEPT ![p] = "answer"]
  /\ UNCHANGED <<package, told>>

(* The request reaches the peer. *)
Import(h, p) ==
  /\ wire[p] = "request"
  /\ NodeOf[h] = package[p].to
  /\ ReadImport(h, package[p].steps, p)
  /\ wire' = [wire EXCEPT ![p] = "importing"]
  /\ UNCHANGED <<package, told>>

(* A package that was exported to a file or a client is imported by hand, on  *)
(* any node and as often as one likes.                                        *)
ImportByHand(h, p) ==
  /\ wire[p] # "unused"
  /\ ReadImport(h, package[p].steps, NoPackage)
  /\ UNCHANGED transfer

(* The answer arrives while the sender waits for it.  An answer that is late, *)
(* or lost, and a request that is lost, stay where they are.                  *)
Answer(p) ==
  /\ wire[p] = "answer"
  /\ told[p] = "waiting"
  /\ wire' = [wire EXCEPT ![p] = "over"]
  /\ told' = [told EXCEPT ![p] = "ok"]
  /\ UNCHANGED <<files, thread, package, calls, crashes, history>>

(* The 30 seconds are over, or the connection is: the request may still be    *)
(* under way, or carried out.                                                 *)
Timeout(p) ==
  /\ told[p] = "waiting"
  /\ told' = [told EXCEPT ![p] = "failed"]
  /\ UNCHANGED <<files, thread, package, wire, calls, crashes, history>>

(* A node dies and starts again, at any point of an operation.  A planner     *)
(* that was writing leaves the file as it is.                                 *)
Crash(n) ==
  /\ crashes < MaxCrashes
  /\ crashes' = crashes + 1
  /\ thread' = [h \in Thread |-> IF NodeOf[h] = n THEN Idle ELSE thread[h]]
  /\ wire' = [p \in Package |->
       IF wire[p] = "importing" /\ package[p].to = n THEN "over" ELSE wire[p]]
  /\ told' = [p \in Package |->
       IF told[p] = "waiting" /\ package[p].from = n THEN "failed" ELSE told[p]]
  /\ Soil(n, active[n].form \in {"empty", "garbled"})
  /\ UNCHANGED <<files, package, calls, ran, landed>>

-----------------------------------------------------------------------------
Next ==
  \/ \E h \in Agent, s \in Step : MarkNode(h, s)
  \/ \E h \in Agent, S \in SUBSET Step : ReadPlan(h, S)
  \/ \E h \in Thread, S \in SUBSET Step : ProbeResume(h, S)
  \/ \E h \in Thread :
       \/ ReloadResume(h)
       \/ OpenTmp(h) \/ WriteTmp(h) \/ Rename(h) \/ RenameFails(h)
       \/ OpenActive(h) \/ WriteActive(h)
  \/ \E h \in Thread, p \in Package, q \in Node, S \in SUBSET Step : Handoff(h, p, q, S)
  \/ \E h \in Thread, p \in Package : Import(h, p) \/ ImportByHand(h, p)
  \/ \E p \in Package : Answer(p) \/ Timeout(p)
  \/ \E n \in Node : Crash(n)

Spec == Init /\ [][Next]_vars

-----------------------------------------------------------------------------
(* A status of completed is not made up by a race, a torn file, a plan, a     *)
(* resume or a handoff: under that id a sub-agent has ended without an error. *)
(* That need not be the step listed now: a plan keeps the status that the     *)
(* step of an earlier plan had under the same id (dag_planner.py:248-251).    *)
CompletedWasRun ==
  \A n \in Node, s \in Step : active[n].list[s] = "completed" => s \in ran

(* A handoff that is reported as done was written to the peer's file, unless  *)
(* an update of that file was lost.                                           *)
OkMeansImported ==
  \A p \in Package : told[p] = "ok" /\ clean[package[p].to] => p \in landed

(* What is on the board of a node: while a planner writes, the list it read. *)
Planners(n) ==
  {h \in Thread : NodeOf[h] = n /\ thread[h].op = "plan" /\ thread[h].pc = "write"}

Listed(n) ==
  IF Planners(n) = {} THEN active[n] ELSE thread[CHOOSE h \in Planners(n) : TRUE].seen

(* The packages that were made, as sets of steps. *)
Offers == {package[p].steps : p \in {r \in Package : wire[r] # "unused"}}

Board == INSTANCE DagBoard WITH
  board <- [n \in Node |-> Listed(n).list],
  intact <- clean,
  offered <- Offers

(* As long as no two updates of a node's file overlap, and no planner is cut  *)
(* off, each takes effect at once and as a whole: none is lost, none undoes   *)
(* another, and a completed step is opened again only by the import of a      *)
(* package, which lists no finished step of the node where it was made, and   *)
(* every unfinished one up to the limit.                                      *)
ImplementsBoard == Board!Spec
=============================================================================
