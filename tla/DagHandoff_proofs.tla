-------------------------- MODULE DagHandoff_proofs --------------------------
(***************************************************************************)
(* Proofs about DagHandoff: types; a status of completed goes back to a    *)
(* run; a handoff reported as done was saved; and the files implement the  *)
(* board of DagBoard, for any nodes, threads, steps, packages and limit.   *)
(***************************************************************************)
EXTENDS DagHandoff, TLAPS

-----------------------------------------------------------------------------
(* Types. *)
LEMMA FileTypes ==
  /\ \A form \in {"absent", "empty", "json", "garbled"}, list \in [Step -> Status] :
        File(form, list) \in FileType
  /\ NoSteps \in [Step -> Status]
  /\ Absent \in FileType /\ Empty \in FileType /\ Garbled \in FileType /\ Planned \in FileType
BY DEF File, FileType, NoSteps, Absent, Empty, Garbled, Planned, Status

LEMMA IdleType == Idle \in ThreadType
BY FileTypes DEF Idle, ThreadType, Status

LEMMA ProbedSteps ==
  ASSUME NEW list, NEW S \in Probed(list) PROVE S \subseteq Unfinished(list)
BY DEF Probed

LEMMA ResultType ==
  ASSUME TypeOK, NEW h \in Thread PROVE Result(h) \in [Step -> Status]
<1> DEFINE list == thread[h].seen.list
<1>1. thread[h] \in ThreadType
  BY DEF TypeOK
<1>2. /\ list \in [Step -> Status] /\ thread[h].status \in Status
      /\ thread[h].op \in {"mark", "resume", "import", "plan"}
  BY <1>1 DEF ThreadType, FileType
<1>3. "pending" \in Status /\ "none" \in Status
  BY DEF Status
<1>4. CASE thread[h].op = "mark"
  BY <1>2, <1>4 DEF Result
<1>5. CASE thread[h].op = "resume"
  BY <1>2, <1>3, <1>5 DEF Result
<1>6. CASE thread[h].op = "import"
  BY <1>2, <1>3, <1>6 DEF Result
<1>7. CASE thread[h].op = "plan"
  BY <1>2, <1>3, <1>7 DEF Result
<1> QED
  BY <1>2, <1>4, <1>5, <1>6, <1>7

LEMMA WrittenType ==
  ASSUME TypeOK, NEW h \in Thread, NEW f, NEW g \in Written(h, f)
  PROVE  g \in FileType
BY FileTypes, ResultType DEF Written

(* The operations that begin: only these change thread and calls. *)
LEMMA BeginType ==
  ASSUME TypeOK, NEW h \in Thread,
         NEW pc \in {"open", "reload"}, NEW op \in {"mark", "resume", "import", "plan"},
         NEW S \in SUBSET Step, NEW status \in Status, NEW p \in Package \cup {NoPackage},
         Begin(h, pc, op, S, status, p)
  PROVE  thread' \in [Thread -> ThreadType] /\ calls' \in 0..MaxCalls
<1>1. NodeOf[h] \in Node
  BY ThreadAssumption
<1>2. active[NodeOf[h]] \in FileType
  BY <1>1 DEF TypeOK
<1>3. [pc |-> pc, op |-> op, seen |-> active[NodeOf[h]], steps |-> S,
       status |-> status, package |-> p, fd |-> "tmp"] \in ThreadType
  BY <1>2 DEF ThreadType
<1>4. thread' \in [Thread -> ThreadType]
  BY <1>3 DEF Begin, TypeOK
<1>5. calls' \in 0..MaxCalls
  BY BoundAssumption DEF Begin, TypeOK
<1> QED
  BY <1>4, <1>5

LEMMA SoilType ==
  ASSUME TypeOK, NEW n \in Node, NEW bad, Soil(n, bad)
  PROVE  clean' \in [Node -> BOOLEAN]
BY DEF Soil, TypeOK

LEMMA ReadImportType ==
  ASSUME TypeOK, NEW h \in Thread, NEW S \in SUBSET Step, NEW p \in Package \cup {NoPackage},
         ReadImport(h, S, p)
  PROVE  /\ thread' \in [Thread -> ThreadType] /\ calls' \in 0..MaxCalls
         /\ clean' \in [Node -> BOOLEAN]
<1>1. NodeOf[h] \in Node
  BY ThreadAssumption
<1>2. clean' \in [Node -> BOOLEAN]
  BY <1>1, SoilType DEF ReadImport
<1>3. "pending" \in Status
  BY DEF Status
<1> QED
  BY <1>2, <1>3, BeginType DEF ReadImport

LEMMA TypesInit == Init => TypeOK
<1> SUFFICES ASSUME Init PROVE TypeOK
  OBVIOUS
<1>1. active \in [Node -> FileType] /\ tmp \in [Node -> FileType]
  BY FileTypes DEF Init
<1>2. thread \in [Thread -> ThreadType]
  BY IdleType DEF Init
<1>3. package \in [Package -> [from: Node, to: Node, steps: SUBSET Step]]
  BY DEF Init, NoRequest
<1>4. calls \in 0..MaxCalls /\ crashes \in 0..MaxCrashes
  BY BoundAssumption DEF Init
<1> QED
  BY <1>1, <1>2, <1>3, <1>4 DEF Init, TypeOK

LEMMA EditType ==
  ASSUME TypeOK, NEW h \in Thread
  PROVE  /\ thread[h] \in ThreadType
         /\ NodeOf[h] \in Node /\ active[NodeOf[h]] \in FileType /\ tmp[NodeOf[h]] \in FileType
BY ThreadAssumption DEF TypeOK

LEMMA PcType ==
  ASSUME TypeOK, NEW h \in Thread, NEW pc \in {"idle", "reload", "open", "write", "rename"}
  PROVE  [thread EXCEPT ![h].pc = pc] \in [Thread -> ThreadType]
<1>1. [thread[h] EXCEPT !.pc = pc] \in ThreadType
  BY EditType DEF ThreadType
<1> QED
  BY <1>1 DEF TypeOK

LEMMA MovedType ==
  ASSUME TypeOK, NEW n \in Node PROVE Moved(n) \in [Thread -> ThreadType]
<1> SUFFICES ASSUME NEW h \in Thread PROVE Moved(n)[h] \in ThreadType
  BY DEF Moved
<1>1. [thread[h] EXCEPT !.fd = IF @ = "tmp" THEN "active" ELSE "gone"] \in ThreadType
  BY EditType DEF ThreadType
<1> QED
  BY <1>1, EditType DEF Moved

LEMMA ReplyType ==
  ASSUME TypeOK, NEW p \in Package \cup {NoPackage}
  PROVE  Reply(p) \in [Package -> {"unused", "request", "importing", "answer", "over"}]
BY DEF TypeOK, Reply, NoPackage, Package

LEMMA TypesStep == TypeOK /\ [Next]_vars => TypeOK'
<1> SUFFICES ASSUME TypeOK, [Next]_vars PROVE TypeOK'
  OBVIOUS
<1>0. /\ "pending" \in Status /\ "completed" \in Status /\ "failed" \in Status
      /\ NoPackage \in Package \cup {NoPackage} /\ Agent \subseteq Thread
  BY ThreadAssumption DEF Status
<1>1. ASSUME NEW h \in Thread, NEW s \in Step, MarkNode(h, s) PROVE TypeOK'
  <2>1. PICK ok \in BOOLEAN :
          /\ ran' = IF ok THEN ran \cup {s} ELSE ran
          /\ Begin(h, "open", "mark", {s}, Outcome(ok), NoPackage)
    BY <1>1 DEF MarkNode
  <2>2. Outcome(ok) \in Status
    BY <1>0 DEF Outcome
  <2>3. thread' \in [Thread -> ThreadType] /\ calls' \in 0..MaxCalls
    BY <1>0, <2>1, <2>2, BeginType
  <2>4. ran' \in SUBSET Step
    BY <2>1 DEF TypeOK
  <2> QED
    BY <1>1, <2>3, <2>4 DEF MarkNode, files, transfer, TypeOK
<1>2. ASSUME NEW h \in Thread, NEW S \in SUBSET Step, ReadPlan(h, S) PROVE TypeOK'
  <2>1. thread' \in [Thread -> ThreadType] /\ calls' \in 0..MaxCalls
    BY <1>0, <1>2, BeginType DEF ReadPlan
  <2>2. clean' \in [Node -> BOOLEAN]
    BY <1>2, EditType, SoilType DEF ReadPlan
  <2> QED
    BY <1>2, <2>1, <2>2 DEF ReadPlan, files, transfer, TypeOK
<1>3. ASSUME NEW h \in Thread, NEW S \in SUBSET Step, ProbeResume(h, S) PROVE TypeOK'
  <2>1. thread' \in [Thread -> ThreadType] /\ calls' \in 0..MaxCalls
    BY <1>0, <1>3, BeginType DEF ProbeResume
  <2> QED
    BY <1>3, <2>1 DEF ProbeResume, files, transfer, history, TypeOK
<1>4. ASSUME NEW h \in Thread, ReloadResume(h) PROVE TypeOK'
  <2>1. [thread[h] EXCEPT !.pc = "open", !.seen = active[NodeOf[h]]] \in ThreadType
    BY EditType DEF ThreadType
  <2>2. thread' \in [Thread -> ThreadType]
    BY <1>4, <2>1, IdleType DEF ReloadResume, TypeOK
  <2>3. clean' \in [Node -> BOOLEAN]
    BY <1>4, EditType, SoilType DEF ReloadResume
  <2> QED
    BY <1>4, <2>2, <2>3 DEF ReloadResume, files, transfer, TypeOK
<1>5. ASSUME NEW h \in Thread, OpenTmp(h) PROVE TypeOK'
  <2>1. thread' \in [Thread -> ThreadType]
    BY <1>5, PcType DEF OpenTmp
  <2>2. tmp' \in [Node -> FileType]
    BY <1>5, FileTypes, EditType DEF OpenTmp, TypeOK
  <2> QED
    BY <1>5, <2>1, <2>2 DEF OpenTmp, transfer, history, TypeOK
<1>6. ASSUME NEW h \in Thread, OpenActive(h) PROVE TypeOK'
  <2>1. [thread[h] EXCEPT !.pc = "write", !.fd = "active"] \in ThreadType
    BY EditType DEF ThreadType
  <2>2. thread' \in [Thread -> ThreadType]
    BY <1>6, <2>1 DEF OpenActive, TypeOK
  <2>3. active' \in [Node -> FileType]
    BY <1>6, FileTypes, EditType DEF OpenActive, TypeOK
  <2>4. clean' \in [Node -> BOOLEAN]
    BY <1>6, EditType, SoilType DEF OpenActive
  <2> QED
    BY <1>6, <2>2, <2>3, <2>4 DEF OpenActive, transfer, TypeOK
<1>7. ASSUME NEW h \in Thread, WriteTmp(h) PROVE TypeOK'
  <2>1. thread' \in [Thread -> ThreadType]
    BY <1>7, PcType DEF WriteTmp
  <2>2. active' \in [Node -> FileType] /\ tmp' \in [Node -> FileType] /\ clean' \in [Node -> BOOLEAN]
    <3>1. CASE thread[h].fd = "tmp"
      BY <1>7, <3>1, WrittenType, EditType DEF WriteTmp, TypeOK
    <3>2. CASE thread[h].fd = "active"
      <4>1. PICK f \in Written(h, active[NodeOf[h]]) : active' = [active EXCEPT ![NodeOf[h]] = f]
        BY <1>7, <3>2 DEF WriteTmp
      <4>2. tmp' = tmp /\ Soil(NodeOf[h], TRUE)
        BY <1>7, <3>2 DEF WriteTmp
      <4>3. f \in FileType
        BY WrittenType
      <4>4. active' \in [Node -> FileType]
        BY <4>1, <4>3 DEF TypeOK
      <4>5. clean' \in [Node -> BOOLEAN]
        BY <4>2, EditType, SoilType
      <4> QED
        BY <4>2, <4>4, <4>5 DEF TypeOK
    <3>3. CASE thread[h].fd = "gone"
      BY <1>7, <3>3 DEF WriteTmp, TypeOK, files
    <3> QED
      BY <3>1, <3>2, <3>3, EditType DEF ThreadType
  <2> QED
    BY <1>7, <2>1, <2>2 DEF WriteTmp, transfer, TypeOK
<1>8. ASSUME NEW h \in Thread, WriteActive(h) PROVE TypeOK'
  <2>1. thread' \in [Thread -> ThreadType]
    BY <1>8, IdleType DEF WriteActive, TypeOK
  <2>2. active' \in [Node -> FileType]
    <3>1. CASE thread[h].fd = "active"
      BY <1>8, <3>1, WrittenType, EditType DEF WriteActive, TypeOK
    <3>2. CASE thread[h].fd # "active"
      BY <1>8, <3>2 DEF WriteActive, TypeOK
    <3> QED
      BY <3>1, <3>2
  <2>3. clean' \in [Node -> BOOLEAN]
    <3>1. Soil(NodeOf[h], active[NodeOf[h]] # Empty) \/ Soil(NodeOf[h], TRUE)
      BY <1>8 DEF WriteActive
    <3> QED
      BY <3>1, EditType, SoilType
  <2> QED
    BY <1>8, <2>1, <2>2, <2>3 DEF WriteActive, transfer, TypeOK
<1>9. ASSUME NEW h \in Thread, Rename(h) PROVE TypeOK'
  <2>1. thread' \in [Thread -> ThreadType]
    BY <1>9, MovedType, EditType, IdleType DEF Rename
  <2>2. active' \in [Node -> FileType] /\ tmp' \in [Node -> FileType]
    <3>1. active' = [active EXCEPT ![NodeOf[h]] = tmp[NodeOf[h]]]
      BY <1>9 DEF Rename
    <3>2. tmp' = [tmp EXCEPT ![NodeOf[h]] = Absent]
      BY <1>9 DEF Rename
    <3>3. active' \in [Node -> FileType]
      BY <3>1, EditType DEF TypeOK
    <3>4. tmp' \in [Node -> FileType]
      BY <3>2, FileTypes DEF TypeOK
    <3> QED
      BY <3>3, <3>4
  <2>3. clean' \in [Node -> BOOLEAN]
    BY <1>9, EditType, SoilType DEF Rename
  <2>4. thread[h].package \in Package \cup {NoPackage}
    BY EditType DEF ThreadType
  <2>5. wire' \in [Package -> {"unused", "request", "importing", "answer", "over"}]
    BY <1>9, <2>4, ReplyType DEF Rename
  <2>6. landed' \in SUBSET Package
    BY <1>9 DEF Rename, TypeOK
  <2> QED
    BY <1>9, <2>1, <2>2, <2>3, <2>5, <2>6 DEF Rename, TypeOK
<1>10. ASSUME NEW h \in Thread, RenameFails(h) PROVE TypeOK'
  <2>1. thread' \in [Thread -> ThreadType]
    BY <1>10, IdleType DEF RenameFails, TypeOK
  <2>2. thread[h].package \in Package \cup {NoPackage}
    BY EditType DEF ThreadType
  <2>3. wire' \in [Package -> {"unused", "request", "importing", "answer", "over"}]
    BY <1>10, <2>2, ReplyType DEF RenameFails
  <2>4. clean' \in [Node -> BOOLEAN]
    BY <1>10, EditType, SoilType DEF RenameFails
  <2> QED
    BY <1>10, <2>1, <2>3, <2>4 DEF RenameFails, files, TypeOK
<1>11. ASSUME NEW h \in Thread, NEW p \in Package, NEW q \in Node, NEW S \in SUBSET Step,
              Handoff(h, p, q, S)
       PROVE  TypeOK'
  <2>1. package' \in [Package -> [from: Node, to: Node, steps: SUBSET Step]]
    BY <1>11, EditType DEF Handoff, TypeOK
  <2> QED
    BY <1>11, <2>1 DEF Handoff, files, history, TypeOK
<1>12. ASSUME NEW h \in Thread, NEW p \in Package, Import(h, p) \/ ImportByHand(h, p) PROVE TypeOK'
  <2>1. package[p].steps \in SUBSET Step
    BY DEF TypeOK
  <2>2. ReadImport(h, package[p].steps, p) \/ ReadImport(h, package[p].steps, NoPackage)
    BY <1>12 DEF Import, ImportByHand
  <2>3. thread' \in [Thread -> ThreadType] /\ calls' \in 0..MaxCalls /\ clean' \in [Node -> BOOLEAN]
    BY <1>0, <2>1, <2>2, ReadImportType
  <2>4. UNCHANGED <<active, tmp, crashes, ran, landed>>
    BY <2>2 DEF ReadImport, files
  <2>5. /\ wire' \in [Package -> {"unused", "request", "importing", "answer", "over"}]
        /\ UNCHANGED <<package, told>>
    BY <1>12 DEF Import, ImportByHand, transfer, TypeOK
  <2> QED
    BY <2>3, <2>4, <2>5 DEF TypeOK
<1>13. ASSUME NEW p \in Package, Answer(p) \/ Timeout(p) PROVE TypeOK'
  BY <1>13 DEF Answer, Timeout, files, history, TypeOK
<1>14. ASSUME NEW n \in Node, Crash(n) PROVE TypeOK'
  <2>1. thread' \in [Thread -> ThreadType]
    BY <1>14, IdleType DEF Crash, TypeOK
  <2>2. clean' \in [Node -> BOOLEAN]
    BY <1>14, SoilType DEF Crash
  <2>3. crashes' \in 0..MaxCrashes
    BY <1>14, BoundAssumption DEF Crash, TypeOK
  <2>4. /\ wire' \in [Package -> {"unused", "request", "importing", "answer", "over"}]
        /\ told' \in [Package -> {"nothing", "waiting", "ok", "failed"}]
    BY <1>14 DEF Crash, TypeOK
  <2> QED
    BY <1>14, <2>1, <2>2, <2>3, <2>4 DEF Crash, files, TypeOK
<1>15. CASE UNCHANGED vars
  BY <1>15 DEF vars, files, transfer, history, TypeOK
<1> QED
  BY <1>0, <1>1, <1>2, <1>3, <1>4, <1>5, <1>6, <1>7, <1>8, <1>9, <1>10, <1>11, <1>12,
     <1>13, <1>14, <1>15 DEF Next

(* The variables keep their types. *)
THEOREM HandoffTypes == Spec => []TypeOK
BY TypesInit, TypesStep, PTL DEF Spec

-----------------------------------------------------------------------------
(* Completed steps were run: also in the temporary files, and in what threads *)
(* have read and are about to write.                                          *)
RanList(list) == \A s \in Step : list[s] = "completed" => s \in ran

RanThread(r) ==
  /\ RanList(r.seen.list)
  /\ (r.op = "mark" /\ r.status = "completed") => r.steps \subseteq ran

RanInv ==
  /\ \A n \in Node : RanList(active[n].list) /\ RanList(tmp[n].list)
  /\ \A h \in Thread : RanThread(thread[h])

LEMMA RanFiles ==
  /\ RanList(NoSteps) /\ RanList(Absent.list) /\ RanList(Empty.list) /\ RanList(Garbled.list)
  /\ RanList(Planned.list) /\ RanThread(Idle)
BY DEF RanList, RanThread, NoSteps, Absent, Empty, Garbled, Planned, File, Idle

LEMMA RanResult ==
  ASSUME TypeOK, NEW h \in Thread, RanThread(thread[h]) PROVE RanList(Result(h))
<1>1. thread[h].op \in {"mark", "resume", "import", "plan"}
  BY EditType DEF ThreadType
<1>2. CASE thread[h].op = "mark"
  BY <1>2 DEF Result, RanList, RanThread
<1>3. CASE thread[h].op = "resume"
  BY <1>3 DEF Result, RanList, RanThread
<1>4. CASE thread[h].op = "import"
  BY <1>4 DEF Result, RanList, RanThread
<1>5. CASE thread[h].op = "plan"
  BY <1>5 DEF Result, RanList, RanThread
<1> QED
  BY <1>1, <1>2, <1>3, <1>4, <1>5

LEMMA RanWritten ==
  ASSUME TypeOK, NEW h \in Thread, RanThread(thread[h]), NEW f, NEW g \in Written(h, f)
  PROVE  RanList(g.list)
BY RanResult, RanFiles DEF Written, File

LEMMA RanGrows ==
  ASSUME ran \subseteq ran'
  PROVE  /\ \A list : RanList(list) => RanList(list)'
         /\ \A r : RanThread(r) => RanThread(r)'
BY DEF RanList, RanThread

(* A step that changes files and threads into good ones keeps the invariant. *)
LEMMA RanKept ==
  ASSUME TypeOK, RanInv, ran \subseteq ran',
         \A n \in Node : /\ active'[n] = active[n] \/ RanList(active[n].list)'
                         /\ tmp'[n] = tmp[n] \/ RanList(tmp[n].list)',
         \A h \in Thread : \/ RanThread(thread[h])'
                           \/ /\ thread'[h].seen = thread[h].seen
                              /\ thread'[h].op = thread[h].op
                              /\ thread'[h].status = thread[h].status
                              /\ thread'[h].steps = thread[h].steps
  PROVE  RanInv'
<1>1. ASSUME NEW n \in Node PROVE RanList(active[n].list)' /\ RanList(tmp[n].list)'
  <2>1. RanList(active[n].list)'
    BY DEF RanInv, RanList
  <2>2. RanList(tmp[n].list)'
    BY DEF RanInv, RanList
  <2> QED
    BY <2>1, <2>2
<1>2. ASSUME NEW h \in Thread PROVE RanThread(thread[h])'
  <2>1. RanThread(thread[h])
    BY DEF RanInv
  <2> QED
    BY <2>1 DEF RanList, RanThread
<1> QED
  BY <1>1, <1>2 DEF RanInv

LEMMA RanBegin ==
  ASSUME TypeOK, RanInv, ran \subseteq ran', UNCHANGED <<active, tmp>>,
         NEW h \in Thread, NEW pc, NEW op, NEW S, NEW status, NEW p,
         Begin(h, pc, op, S, status, p),
         (op = "mark" /\ status = "completed") => S \subseteq ran'
  PROVE  RanInv'
<1>1. thread' = [thread EXCEPT ![h] =
         [pc |-> pc, op |-> op, seen |-> active[NodeOf[h]], steps |-> S,
          status |-> status, package |-> p, fd |-> "tmp"]]
  BY DEF Begin
<1>2. RanList(active[NodeOf[h]].list)'
  BY EditType DEF RanInv, RanList
<1>3. thread'[h] = [pc |-> pc, op |-> op, seen |-> active[NodeOf[h]], steps |-> S,
                    status |-> status, package |-> p, fd |-> "tmp"]
  BY <1>1 DEF TypeOK
<1>4. RanThread(thread[h])'
  BY <1>2, <1>3 DEF RanThread
<1>5. \A g \in Thread : g # h => thread'[g] = thread[g]
  BY <1>1 DEF TypeOK
<1> QED
  BY <1>4, <1>5, RanKept

LEMMA RanStep == TypeOK /\ RanInv /\ [Next]_vars => RanInv'
<1> SUFFICES ASSUME TypeOK, RanInv, [Next]_vars PROVE RanInv'
  OBVIOUS
<1>0. Agent \subseteq Thread /\ \A h \in Thread : RanThread(thread[h]) /\ NodeOf[h] \in Node
  BY ThreadAssumption DEF RanInv
<1>1. ASSUME NEW h \in Thread, NEW s \in Step, MarkNode(h, s) PROVE RanInv'
  <2>1. PICK ok \in BOOLEAN :
          /\ ran' = IF ok THEN ran \cup {s} ELSE ran
          /\ Begin(h, "open", "mark", {s}, Outcome(ok), NoPackage)
    BY <1>1 DEF MarkNode
  <2>2. Outcome(ok) = "completed" => {s} \subseteq ran'
    BY <2>1 DEF Outcome
  <2>3. ran \subseteq ran' /\ UNCHANGED <<active, tmp>>
    BY <1>1, <2>1 DEF MarkNode, files
  <2> QED
    BY <2>1, <2>2, <2>3, RanBegin
<1>2. ASSUME NEW h \in Thread, NEW S \in SUBSET Step, ReadPlan(h, S) PROVE RanInv'
  BY <1>2, RanBegin DEF ReadPlan, files
<1>3. ASSUME NEW h \in Thread, NEW S \in SUBSET Step, ProbeResume(h, S) PROVE RanInv'
  BY <1>3, RanBegin DEF ProbeResume, files, history
<1>4. ASSUME NEW h \in Thread, NEW p \in Package, Import(h, p) \/ ImportByHand(h, p) PROVE RanInv'
  <2>1. ReadImport(h, package[p].steps, p) \/ ReadImport(h, package[p].steps, NoPackage)
    BY <1>4 DEF Import, ImportByHand
  <2> QED
    BY <2>1, RanBegin DEF ReadImport, files
<1>5. ASSUME NEW h \in Thread, ReloadResume(h) PROVE RanInv'
  <2>1. /\ thread' = [thread EXCEPT ![h] =
              IF Readable(active[NodeOf[h]])
                THEN [@ EXCEPT !.pc = "open", !.seen = active[NodeOf[h]]] ELSE Idle]
        /\ UNCHANGED <<active, tmp, ran>>
    BY <1>5 DEF ReloadResume, files
  <2>2. \/ thread'[h] = Idle
        \/ /\ thread'[h].seen = active[NodeOf[h]] /\ thread'[h].op = thread[h].op
           /\ thread'[h].status = thread[h].status /\ thread'[h].steps = thread[h].steps
    BY <2>1, EditType DEF TypeOK, ThreadType
  <2>3. RanList(active[NodeOf[h]].list)'
    BY <1>0, <2>1 DEF RanInv, RanList
  <2>4. RanThread(thread[h])'
    <3>1. CASE thread'[h] = Idle
      <4>1. RanThread(Idle)'
        BY <2>1, RanFiles, RanGrows
      <4> QED
        BY <3>1, <4>1 DEF RanThread
    <3>2. CASE thread'[h] # Idle
      BY <1>0, <2>1, <2>2, <2>3, <3>2 DEF RanThread
    <3> QED
      BY <3>1, <3>2
  <2>5. \A g \in Thread : g # h => thread'[g] = thread[g]
    BY <2>1 DEF TypeOK
  <2> QED
    BY <2>1, <2>4, <2>5, RanKept
<1>6. ASSUME NEW h \in Thread, OpenTmp(h) PROVE RanInv'
  <2>1. ran' = ran /\ active' = active /\ tmp' = [tmp EXCEPT ![NodeOf[h]] = Empty]
    BY <1>6 DEF OpenTmp, history
  <2>2. \A n \in Node : tmp'[n] = tmp[n] \/ RanList(tmp[n].list)'
    BY <2>1, RanFiles, RanGrows DEF TypeOK, RanList
  <2>3. \A g \in Thread : /\ thread'[g].seen = thread[g].seen /\ thread'[g].op = thread[g].op
                          /\ thread'[g].status = thread[g].status
                          /\ thread'[g].steps = thread[g].steps
    BY <1>6 DEF OpenTmp, TypeOK, ThreadType
  <2> QED
    BY <2>1, <2>2, <2>3, RanKept
<1>7. ASSUME NEW h \in Thread, OpenActive(h) PROVE RanInv'
  <2>1. ran' = ran /\ tmp' = tmp /\ active' = [active EXCEPT ![NodeOf[h]] = Empty]
    BY <1>7 DEF OpenActive
  <2>2. \A n \in Node : active'[n] = active[n] \/ RanList(active[n].list)'
    BY <2>1, RanFiles, RanGrows DEF TypeOK, RanList
  <2>3. \A g \in Thread : /\ thread'[g].seen = thread[g].seen /\ thread'[g].op = thread[g].op
                          /\ thread'[g].status = thread[g].status
                          /\ thread'[g].steps = thread[g].steps
    BY <1>7 DEF OpenActive, TypeOK, ThreadType
  <2> QED
    BY <2>1, <2>2, <2>3, RanKept
<1>8. ASSUME NEW h \in Thread, WriteTmp(h) PROVE RanInv'
  <2>1. ran' = ran
    BY <1>8 DEF WriteTmp
  <2>2. \A n \in Node : /\ active'[n] = active[n] \/ RanList(active[n].list)'
                        /\ tmp'[n] = tmp[n] \/ RanList(tmp[n].list)'
    <3>1. CASE thread[h].fd = "tmp"
      <4>1. PICK f \in Written(h, tmp[NodeOf[h]]) : tmp' = [tmp EXCEPT ![NodeOf[h]] = f]
        BY <1>8, <3>1 DEF WriteTmp
      <4>2. active' = active
        BY <1>8, <3>1 DEF WriteTmp
      <4>3. RanList(f.list)
        BY <1>0, RanWritten
      <4> QED
        BY <2>1, <4>1, <4>2, <4>3 DEF RanList, TypeOK
    <3>2. CASE thread[h].fd = "active"
      <4>1. PICK f \in Written(h, active[NodeOf[h]]) : active' = [active EXCEPT ![NodeOf[h]] = f]
        BY <1>8, <3>2 DEF WriteTmp
      <4>2. tmp' = tmp
        BY <1>8, <3>2 DEF WriteTmp
      <4>3. RanList(f.list)
        BY <1>0, RanWritten
      <4> QED
        BY <2>1, <4>1, <4>2, <4>3 DEF RanList, TypeOK
    <3>3. CASE thread[h].fd = "gone"
      BY <1>8, <3>3 DEF WriteTmp, files
    <3> QED
      BY <3>1, <3>2, <3>3, EditType DEF ThreadType
  <2>3. \A g \in Thread : /\ thread'[g].seen = thread[g].seen /\ thread'[g].op = thread[g].op
                          /\ thread'[g].status = thread[g].status
                          /\ thread'[g].steps = thread[g].steps
    BY <1>8 DEF WriteTmp, TypeOK, ThreadType
  <2> QED
    BY <2>1, <2>2, <2>3, RanKept
<1>9. ASSUME NEW h \in Thread, WriteActive(h) PROVE RanInv'
  <2>1. ran' = ran /\ tmp' = tmp
    BY <1>9 DEF WriteActive
  <2>2. \A n \in Node : active'[n] = active[n] \/ RanList(active[n].list)'
    <3>1. CASE thread[h].fd = "active"
      <4>1. PICK f \in Written(h, active[NodeOf[h]]) : active' = [active EXCEPT ![NodeOf[h]] = f]
        BY <1>9, <3>1 DEF WriteActive
      <4>2. RanList(f.list)
        BY <1>0, RanWritten
      <4> QED
        BY <2>1, <4>1, <4>2 DEF RanList, TypeOK
    <3>2. CASE thread[h].fd # "active"
      BY <1>9, <3>2 DEF WriteActive
    <3> QED
      BY <3>1, <3>2
  <2>3. RanThread(Idle)'
    BY <2>1, RanFiles, RanGrows
  <2>4. \A g \in Thread : thread'[g] = thread[g] \/ thread'[g] = Idle
    BY <1>9 DEF WriteActive, TypeOK
  <2>5. \A g \in Thread : RanThread(thread[g])' \/ thread'[g] = thread[g]
    BY <2>3, <2>4 DEF RanThread
  <2> QED
    BY <2>1, <2>2, <2>5, RanKept
<1>10. ASSUME NEW h \in Thread, Rename(h) PROVE RanInv'
  <2>1. /\ ran' = ran
        /\ active' = [active EXCEPT ![NodeOf[h]] = tmp[NodeOf[h]]]
        /\ tmp' = [tmp EXCEPT ![NodeOf[h]] = Absent]
        /\ thread' = [Moved(NodeOf[h]) EXCEPT ![h] = Idle]
    BY <1>10 DEF Rename
  <2>2. RanList(tmp[NodeOf[h]].list) /\ RanList(Absent.list)
    BY <1>0, RanFiles DEF RanInv
  <2>3. \A n \in Node : active'[n] = active[n] \/ RanList(active[n].list)'
    BY <2>1, <2>2 DEF RanList, TypeOK
  <2>4. \A n \in Node : tmp'[n] = tmp[n] \/ RanList(tmp[n].list)'
    BY <2>1, <2>2 DEF RanList, TypeOK
  <2>5. RanThread(Idle)'
    BY <2>1, RanFiles, RanGrows
  <2>6. \A g \in Thread : \/ thread'[g] = Idle
                          \/ /\ thread'[g].seen = thread[g].seen /\ thread'[g].op = thread[g].op
                             /\ thread'[g].status = thread[g].status
                             /\ thread'[g].steps = thread[g].steps
    BY <2>1, EditType DEF Moved, ThreadType
  <2>7. \A g \in Thread : thread'[g] = Idle => RanThread(thread[g])'
    BY <2>5 DEF RanThread
  <2> QED
    BY <2>1, <2>3, <2>4, <2>6, <2>7, RanKept
<1>11. ASSUME NEW h \in Thread, RenameFails(h) PROVE RanInv'
  <2>1. ran' = ran /\ active' = active /\ tmp' = tmp
    BY <1>11 DEF RenameFails, files
  <2>2. RanThread(Idle)'
    BY <2>1, RanFiles, RanGrows
  <2>3. \A g \in Thread : thread'[g] = thread[g] \/ thread'[g] = Idle
    BY <1>11 DEF RenameFails, TypeOK
  <2>4. \A g \in Thread : RanThread(thread[g])' \/ thread'[g] = thread[g]
    BY <2>2, <2>3 DEF RanThread
  <2> QED
    BY <2>1, <2>4, RanKept
<1>12. ASSUME NEW n \in Node, Crash(n) PROVE RanInv'
  <2>1. ran' = ran /\ active' = active /\ tmp' = tmp
    BY <1>12 DEF Crash, files
  <2>2. RanThread(Idle)'
    BY <2>1, RanFiles, RanGrows
  <2>3. \A g \in Thread : thread'[g] = thread[g] \/ thread'[g] = Idle
    BY <1>12 DEF Crash, TypeOK
  <2>4. \A g \in Thread : RanThread(thread[g])' \/ thread'[g] = thread[g]
    BY <2>2, <2>3 DEF RanThread
  <2> QED
    BY <2>1, <2>4, RanKept
<1>13. ASSUME \/ \E h \in Thread, p \in Package, q \in Node, S \in SUBSET Step :
                     Handoff(h, p, q, S)
              \/ \E p \in Package : Answer(p) \/ Timeout(p)
              \/ UNCHANGED vars
       PROVE RanInv'
  <2>1. UNCHANGED <<active, tmp, thread, ran>>
    BY <1>13 DEF Handoff, Answer, Timeout, vars, files, history
  <2> QED
    BY <2>1, RanKept
<1> QED
  BY <1>0, <1>1, <1>2, <1>3, <1>4, <1>5, <1>6, <1>7, <1>8, <1>9, <1>10, <1>11, <1>12, <1>13
  DEF Next

(* No operation makes up a status of completed, whatever overlapped or was    *)
(* cut off: under that id a sub-agent has ended without an error, for the     *)
(* step listed now or for one of an earlier plan that had the id.             *)
THEOREM CompletedRan == Spec => []CompletedWasRun
<1>1. Init => RanInv
  BY RanFiles DEF Init, RanInv
<1>2. RanInv => CompletedWasRun
  BY DEF RanInv, RanList, CompletedWasRun
<1> QED
  BY <1>1, <1>2, TypesInit, TypesStep, RanStep, PTL DEF Spec

-----------------------------------------------------------------------------
(* A handoff that is reported as done.  An import answers after its rename    *)
(* has succeeded, or has failed and soiled the addressee's file.              *)
OkInv ==
  /\ \A p \in Package :
       /\ (wire[p] = "answer" \/ told[p] = "ok") /\ clean[package[p].to] => p \in landed
       /\ wire[p] = "unused" => told[p] = "nothing"
  /\ \A h \in Thread :
       thread[h].package \in Package =>
         /\ wire[thread[h].package] # "unused"
         /\ NodeOf[h] = package[thread[h].package].to

LEMMA SoilSpoils ==
  ASSUME TypeOK, NEW n \in Node, NEW bad, Soil(n, bad)
  PROVE  \A m \in Node : clean'[m] => clean[m]
BY DEF Soil, TypeOK

LEMMA SoilEnds ==
  ASSUME TypeOK, NEW n \in Node, Soil(n, TRUE) PROVE ~clean'[n]
BY DEF Soil, TypeOK

(* A step after which nothing new is answered or reported. *)
LEMMA OkKept ==
  ASSUME TypeOK, OkInv, UNCHANGED package,
         \A n \in Node : clean'[n] => clean[n],
         landed \subseteq landed',
         \A p \in Package :
           /\ wire'[p] = wire[p] \/ (wire[p] # "unused" /\ wire'[p] \notin {"unused", "answer"})
           /\ told'[p] = told[p] \/ (told[p] = "waiting" /\ told'[p] = "failed"),
         \A h \in Thread :
           \/ thread'[h].package = thread[h].package
           \/ thread'[h].package = NoPackage
           \/ /\ thread'[h].package \in Package
              /\ wire[thread'[h].package] # "unused"
              /\ NodeOf[h] = package[thread'[h].package].to
  PROVE  OkInv'
<1>1. ASSUME NEW p \in Package
      PROVE  /\ (wire'[p] = "answer" \/ told'[p] = "ok") /\ clean'[package[p].to] => p \in landed'
             /\ wire'[p] = "unused" => told'[p] = "nothing"
  <2>1. package[p].to \in Node
    BY DEF TypeOK
  <2>2. /\ (wire[p] = "answer" \/ told[p] = "ok") /\ clean[package[p].to] => p \in landed
        /\ wire[p] = "unused" => told[p] = "nothing"
    BY DEF OkInv
  <2> QED
    BY <2>1, <2>2
<1>2. ASSUME NEW h \in Thread, thread'[h].package \in Package
      PROVE  /\ wire'[thread'[h].package] # "unused"
             /\ NodeOf[h] = package[thread'[h].package].to
  <2>1. thread'[h].package # NoPackage
    BY <1>2 DEF Package, NoPackage
  <2>2. /\ wire[thread'[h].package] # "unused"
        /\ NodeOf[h] = package[thread'[h].package].to
    BY <1>2, <2>1 DEF OkInv
  <2> QED
    BY <1>2, <2>2
<1> QED
  BY <1>1, <1>2 DEF OkInv

LEMMA OkBegin ==
  ASSUME TypeOK, NEW h \in Thread, NEW pc, NEW op, NEW S, NEW status, NEW p,
         Begin(h, pc, op, S, status, p)
  PROVE  /\ thread'[h].package = p
         /\ \A g \in Thread : g # h => thread'[g] = thread[g]
BY DEF Begin, TypeOK

(* The end of an import, whose answer is then on its way. *)
LEMMA OkReply ==
  ASSUME TypeOK, OkInv, NEW h \in Thread, UNCHANGED <<package, told>>,
         wire' = Reply(thread[h].package),
         \A n \in Node : clean'[n] => clean[n],
         landed \subseteq landed',
         thread[h].package \in Package /\ clean'[NodeOf[h]] => thread[h].package \in landed',
         \A g \in Thread : thread'[g] = Idle \/ thread'[g].package = thread[g].package
  PROVE  OkInv'
<1> DEFINE p == thread[h].package
<1>1. p \in Package \cup {NoPackage} /\ NoPackage \notin Package
  BY EditType DEF ThreadType, Package, NoPackage
<1>2. \A g \in Thread : thread'[g].package = thread[g].package \/ thread'[g].package = NoPackage
  BY DEF Idle
<1>3. CASE p = NoPackage
  BY <1>2, <1>3, OkKept DEF Reply
<1>4. CASE p \in Package
  <2>1. wire' = [wire EXCEPT ![p] = "answer"] /\ p # NoPackage
    BY <1>1, <1>4 DEF Reply
  <2>2. wire[p] # "unused" /\ NodeOf[h] = package[p].to
    BY <1>4 DEF OkInv
  <2>3. ASSUME NEW r \in Package
        PROVE  /\ (wire'[r] = "answer" \/ told'[r] = "ok") /\ clean'[package[r].to] => r \in landed'
               /\ wire'[r] = "unused" => told'[r] = "nothing"
    <3>1. package[r].to \in Node
      BY DEF TypeOK
    <3>2. CASE r = p
      BY <1>4, <2>1, <2>2, <3>2 DEF TypeOK
    <3>3. CASE r # p
      <4>1. wire'[r] = wire[r]
        BY <2>1, <3>3 DEF TypeOK
      <4>2. /\ (wire[r] = "answer" \/ told[r] = "ok") /\ clean[package[r].to] => r \in landed
            /\ wire[r] = "unused" => told[r] = "nothing"
        BY DEF OkInv
      <4> QED
        BY <3>1, <4>1, <4>2
    <3> QED
      BY <3>2, <3>3
  <2>4. ASSUME NEW g \in Thread, thread'[g].package \in Package
        PROVE  /\ wire'[thread'[g].package] # "unused"
               /\ NodeOf[g] = package[thread'[g].package].to
    <3>1. thread'[g].package = thread[g].package
      BY <1>1, <1>2, <2>4
    <3>2. /\ wire[thread'[g].package] # "unused"
          /\ NodeOf[g] = package[thread'[g].package].to
      BY <2>4, <3>1 DEF OkInv
    <3> QED
      BY <2>1, <2>4, <3>2 DEF TypeOK
  <2> QED
    BY <2>3, <2>4 DEF OkInv
<1> QED
  BY <1>1, <1>3, <1>4

LEMMA OkStep == TypeOK /\ OkInv /\ [Next]_vars => OkInv'
<1> SUFFICES ASSUME TypeOK, OkInv, [Next]_vars PROVE OkInv'
  OBVIOUS
<1>0. Agent \subseteq Thread /\ \A h \in Thread : NodeOf[h] \in Node
  BY ThreadAssumption
<1>1. ASSUME NEW h \in Thread, NEW s \in Step, MarkNode(h, s) PROVE OkInv'
  <2>1. UNCHANGED <<package, wire, told, landed, clean>>
    BY <1>1 DEF MarkNode, transfer
  <2>2. PICK ok \in BOOLEAN : Begin(h, "open", "mark", {s}, Outcome(ok), NoPackage)
    BY <1>1 DEF MarkNode
  <2> QED
    BY <2>1, <2>2, OkBegin, OkKept
<1>2. ASSUME NEW h \in Thread, NEW S \in SUBSET Step, ReadPlan(h, S) PROVE OkInv'
  <2>1. UNCHANGED <<package, wire, told, landed>>
    BY <1>2 DEF ReadPlan, transfer
  <2>2. \A n \in Node : clean'[n] => clean[n]
    BY <1>0, <1>2, SoilSpoils DEF ReadPlan
  <2>3. Begin(h, "open", "plan", S, "pending", NoPackage)
    BY <1>2 DEF ReadPlan
  <2> QED
    BY <2>1, <2>2, <2>3, OkBegin, OkKept
<1>3. ASSUME NEW h \in Thread, NEW S \in SUBSET Step, ProbeResume(h, S) PROVE OkInv'
  <2>1. UNCHANGED <<package, wire, told, landed, clean>>
    BY <1>3 DEF ProbeResume, transfer, history
  <2>2. Begin(h, "reload", "resume", S, "pending", NoPackage)
    BY <1>3 DEF ProbeResume
  <2> QED
    BY <2>1, <2>2, OkBegin, OkKept
<1>4. ASSUME NEW h \in Thread, NEW p \in Package, Import(h, p) PROVE OkInv'
  <2>1. /\ wire[p] = "request" /\ NodeOf[h] = package[p].to
        /\ ReadImport(h, package[p].steps, p)
        /\ wire' = [wire EXCEPT ![p] = "importing"] /\ UNCHANGED <<package, told>>
    BY <1>4 DEF Import
  <2>2. \A n \in Node : clean'[n] => clean[n]
    BY <1>0, <2>1, SoilSpoils DEF ReadImport
  <2>3. landed' = landed /\ Begin(h, "open", "import", package[p].steps, "pending", p)
    BY <2>1 DEF ReadImport
  <2>4. \A r \in Package : \/ wire'[r] = wire[r]
                           \/ wire[r] # "unused" /\ wire'[r] \notin {"unused", "answer"}
    BY <2>1 DEF TypeOK
  <2> QED
    BY <2>1, <2>2, <2>3, <2>4, OkBegin, OkKept
<1>5. ASSUME NEW h \in Thread, NEW p \in Package, ImportByHand(h, p) PROVE OkInv'
  <2>1. ReadImport(h, package[p].steps, NoPackage) /\ UNCHANGED <<package, wire, told>>
    BY <1>5 DEF ImportByHand, transfer
  <2>2. \A n \in Node : clean'[n] => clean[n]
    BY <1>0, <2>1, SoilSpoils DEF ReadImport
  <2>3. landed' = landed /\ Begin(h, "open", "import", package[p].steps, "pending", NoPackage)
    BY <2>1 DEF ReadImport
  <2> QED
    BY <2>1, <2>2, <2>3, OkBegin, OkKept
<1>6. ASSUME NEW h \in Thread,
             ReloadResume(h) \/ OpenTmp(h) \/ OpenActive(h) \/ WriteTmp(h) \/ WriteActive(h)
      PROVE  OkInv'
  <2>1. UNCHANGED <<package, wire, told, landed>>
    BY <1>6 DEF ReloadResume, OpenTmp, OpenActive, WriteTmp, WriteActive, transfer, history
  <2>2. \A n \in Node : clean'[n] => clean[n]
    <3>1. CASE ReloadResume(h)
      BY <1>0, <3>1, SoilSpoils DEF ReloadResume
    <3>2. CASE OpenTmp(h)
      BY <3>2 DEF OpenTmp, history
    <3>3. CASE OpenActive(h)
      BY <1>0, <3>3, SoilSpoils DEF OpenActive
    <3>4. CASE WriteTmp(h)
      <4>1. thread[h].fd \in {"tmp", "active", "gone"}
        BY EditType DEF ThreadType
      <4>2. clean' = clean \/ Soil(NodeOf[h], TRUE)
        BY <3>4, <4>1 DEF WriteTmp
      <4> QED
        BY <1>0, <4>2, SoilSpoils
    <3>5. CASE WriteActive(h)
      <4>1. Soil(NodeOf[h], active[NodeOf[h]] # Empty) \/ Soil(NodeOf[h], TRUE)
        BY <3>5 DEF WriteActive
      <4> QED
        BY <1>0, <4>1, SoilSpoils
    <3> QED
      BY <1>6, <3>1, <3>2, <3>3, <3>4, <3>5
  <2>3. \A g \in Thread : thread'[g] = Idle \/ thread'[g].package = thread[g].package
    <3>1. CASE ReloadResume(h)
      BY <3>1, EditType DEF ReloadResume, TypeOK, ThreadType
    <3>2. CASE OpenTmp(h)
      BY <3>2, EditType DEF OpenTmp, TypeOK, ThreadType
    <3>3. CASE OpenActive(h)
      BY <3>3, EditType DEF OpenActive, TypeOK, ThreadType
    <3>4. CASE WriteTmp(h)
      BY <3>4, EditType DEF WriteTmp, TypeOK, ThreadType
    <3>5. CASE WriteActive(h)
      BY <3>5 DEF WriteActive, TypeOK
    <3> QED
      BY <1>6, <3>1, <3>2, <3>3, <3>4, <3>5
  <2> QED
    BY <2>1, <2>2, <2>3, OkKept DEF Idle
<1>7. ASSUME NEW h \in Thread, Rename(h) PROVE OkInv'
  <2>1. /\ thread' = [Moved(NodeOf[h]) EXCEPT ![h] = Idle]
        /\ wire' = Reply(thread[h].package)
        /\ landed' = landed \cup ({thread[h].package} \cap Package)
        /\ UNCHANGED <<package, told>>
    BY <1>7 DEF Rename
  <2>2. \A n \in Node : clean'[n] => clean[n]
    BY <1>0, <1>7, SoilSpoils DEF Rename
  <2>3. \A g \in Thread : thread'[g] = Idle \/ thread'[g].package = thread[g].package
    BY <2>1, EditType DEF Moved, ThreadType
  <2> QED
    BY <2>1, <2>2, <2>3, OkReply
<1>8. ASSUME NEW h \in Thread, RenameFails(h) PROVE OkInv'
  <2>1. /\ thread' = [thread EXCEPT ![h] = Idle]
        /\ wire' = Reply(thread[h].package)
        /\ UNCHANGED <<package, told, landed>>
    BY <1>8 DEF RenameFails
  <2>2. (\A n \in Node : clean'[n] => clean[n]) /\ ~clean'[NodeOf[h]]
    BY <1>0, <1>8, SoilSpoils, SoilEnds DEF RenameFails
  <2>3. \A g \in Thread : thread'[g] = Idle \/ thread'[g].package = thread[g].package
    BY <2>1 DEF TypeOK
  <2> QED
    BY <2>1, <2>2, <2>3, OkReply
<1>9. ASSUME NEW h \in Thread, NEW p \in Package, NEW q \in Node, NEW S \in SUBSET Step,
             Handoff(h, p, q, S)
      PROVE  OkInv'
  <2>1. /\ wire[p] = "unused" /\ UNCHANGED <<thread, landed, clean>>
        /\ wire' = [wire EXCEPT ![p] = "request"] /\ told' = [told EXCEPT ![p] = "waiting"]
        /\ \A r \in Package : r # p => package'[r] = package[r]
    BY <1>9 DEF Handoff, history, TypeOK
  <2>2. wire'[p] = "request" /\ told'[p] = "waiting"
    BY <2>1 DEF TypeOK
  <2>3. \A r \in Package : r # p => wire'[r] = wire[r] /\ told'[r] = told[r]
    BY <2>1 DEF TypeOK
  <2>4. \A g \in Thread : thread[g].package \in Package => thread[g].package # p
    BY <2>1 DEF OkInv
  <2> QED
    BY <2>1, <2>2, <2>3, <2>4 DEF OkInv
<1>10. ASSUME NEW p \in Package, Answer(p) PROVE OkInv'
  <2>1. /\ wire[p] = "answer" /\ UNCHANGED <<thread, package, landed, clean>>
        /\ wire' = [wire EXCEPT ![p] = "over"] /\ told' = [told EXCEPT ![p] = "ok"]
    BY <1>10 DEF Answer, history
  <2>2. wire'[p] = "over" /\ \A r \in Package : r # p => wire'[r] = wire[r] /\ told'[r] = told[r]
    BY <2>1 DEF TypeOK
  <2> QED
    BY <2>1, <2>2 DEF OkInv
<1>11. ASSUME NEW p \in Package, Timeout(p) PROVE OkInv'
  <2>1. UNCHANGED <<thread, package, wire, landed, clean>>
    BY <1>11 DEF Timeout, history
  <2>2. \A r \in Package : told'[r] = told[r] \/ (told[r] = "waiting" /\ told'[r] = "failed")
    BY <1>11 DEF Timeout, TypeOK
  <2> QED
    BY <2>1, <2>2, OkKept
<1>12. ASSUME NEW n \in Node, Crash(n) PROVE OkInv'
  <2>1. UNCHANGED <<package, landed>> /\ \A m \in Node : clean'[m] => clean[m]
    BY <1>12, SoilSpoils DEF Crash
  <2>2. \A r \in Package : told'[r] = told[r] \/ (told[r] = "waiting" /\ told'[r] = "failed")
    BY <1>12 DEF Crash
  <2>3. \A r \in Package : \/ wire'[r] = wire[r]
                           \/ wire[r] # "unused" /\ wire'[r] \notin {"unused", "answer"}
    BY <1>12 DEF Crash
  <2>4. \A g \in Thread : thread'[g] = Idle \/ thread'[g] = thread[g]
    BY <1>12 DEF Crash
  <2> QED
    BY <2>1, <2>2, <2>3, <2>4, OkKept DEF Idle
<1>13. CASE UNCHANGED vars
  BY <1>13, OkKept DEF vars, transfer, history
<1> QED
  BY <1>0, <1>1, <1>2, <1>3, <1>4, <1>5, <1>6, <1>7, <1>8, <1>9, <1>10, <1>11, <1>12, <1>13
  DEF Next

LEMMA OkInit == Init => OkInv
BY DEF Init, OkInv, Idle, NoPackage, Package

(* auto_handoff_to_peer reports no handoff as done whose steps are not in the *)
(* addressee's file, unless an update of that file was lost.                  *)
THEOREM ReportedWasImported == Spec => []OkMeansImported
<1>1. OkInv => OkMeansImported
  BY DEF OkInv, OkMeansImported
<1> QED
  BY OkInit, <1>1, TypesInit, TypesStep, OkStep, PTL DEF Spec

-----------------------------------------------------------------------------
(* The files implement the board.  While no update of a node's file was lost  *)
(* or cut off, the file is absent or JSON, or a single planner has emptied it *)
(* and is about to write; and every thread works on a list it could read,     *)
(* with arguments that fit that list.                                         *)
PlanWrites(r) == r.op = "plan" /\ r.pc = "write"

OnBoard(n) ==
  \/ Planners(n) = {} /\ (active[n] = Absent \/ Readable(active[n]))
  \/ active[n] = Empty /\ \E h \in Thread : Planners(n) = {h}

Sound(r, offers) ==
  /\ r.seen = Absent \/ Readable(r.seen)
  /\ r.pc = "reload" => r.op = "resume"
  /\ r.pc = "rename" => r.op # "plan"
  /\ r.op = "mark" /\ r.pc # "idle" =>
       \E s \in Step : /\ r.steps = {s} /\ r.seen.list[s] # "none"
                       /\ r.status \in {"failed", "completed"}
  /\ r.op = "resume" /\ r.pc # "idle" => r.steps \subseteq Unfinished(r.seen.list)
  /\ r.op = "import" /\ r.pc # "idle" => r.steps \in offers

BoardInv ==
  /\ \A n \in Node : clean[n] => OnBoard(n)
  /\ \A h \in Thread : clean[NodeOf[h]] => Sound(thread[h], Offers)

(* What an operation of the board makes of a list. *)
Opened(S, list) == [s \in Step |-> IF s \in S THEN "pending" ELSE list[s]]

Edited(old, new) ==
  \/ \E s \in Step, status \in {"failed", "completed"} :
       old[s] # "none" /\ new = [old EXCEPT ![s] = status]
  \/ \E S \in SUBSET Step : S \subseteq Unfinished(old) /\ new = Opened(S, old)
  \/ \E S \in Offers : new = Opened(S, old)
  \/ \E S \in SUBSET Step : new = [s \in Step |-> IF s \notin S THEN "none"
                                                 ELSE IF old[s] = "none" THEN "pending"
                                                 ELSE old[s]]

LEMMA PlannersAre ==
  \A n : Planners(n) = {h \in Thread : NodeOf[h] = n /\ PlanWrites(thread[h])}
BY DEF Planners, PlanWrites

ListedType == \A n \in Node : Listed(n).list \in [Step -> Status]

LEMMA ListedTypes == TypeOK => ListedType
<1> SUFFICES ASSUME TypeOK, NEW n \in Node PROVE Listed(n).list \in [Step -> Status]
  BY DEF ListedType
<1>1. CASE Planners(n) = {}
  BY <1>1 DEF Listed, TypeOK, FileType
<1>2. CASE Planners(n) # {}
  <2>1. PICK h \in Planners(n) : h = CHOOSE g \in Planners(n) : TRUE
    BY <1>2
  <2>2. h \in Thread
    BY DEF Planners
  <2>3. thread[h].seen \in FileType
    BY <2>2, EditType DEF ThreadType
  <2> QED
    BY <1>2, <2>1, <2>3 DEF Listed, FileType
<1> QED
  BY <1>1, <1>2

(* A node none of whose planners begins or ends to write. *)
LEMMA ListedKept ==
  ASSUME NEW n \in Node, active'[n] = active[n],
         \A h \in Thread : NodeOf[h] = n =>
           \/ thread'[h] = thread[h]
           \/ ~PlanWrites(thread[h]) /\ ~PlanWrites(thread'[h])
  PROVE  Listed(n)' = Listed(n) /\ Planners(n)' = Planners(n)
<1>1. Planners(n)' = Planners(n)
  BY DEF Planners, PlanWrites
<1>2. CASE Planners(n) = {}
  BY <1>1, <1>2 DEF Listed
<1>3. CASE Planners(n) # {}
  <2>1. PICK h \in Planners(n) : h = CHOOSE g \in Planners(n) : TRUE
    BY <1>3
  <2>2. thread'[h] = thread[h]
    BY <2>1 DEF Planners, PlanWrites
  <2>3. Listed(n) = thread[h].seen
    BY <1>3, <2>1 DEF Listed
  <2>4. Listed(n)' = thread'[h].seen
    BY <1>1, <1>3, <2>1 DEF Listed
  <2> QED
    BY <1>1, <2>2, <2>3, <2>4
<1> QED
  BY <1>2, <1>3

LEMMA ListedAlone ==
  ASSUME NEW n \in Node, NEW h, Planners(n) = {h} PROVE Listed(n) = thread[h].seen
<1>1. (CHOOSE g \in {h} : TRUE) = h
  OBVIOUS
<1> QED
  BY <1>1 DEF Listed

(* Packages are made, and stay. *)
LEMMA OfferTypes == ASSUME TypeOK PROVE Offers \subseteq SUBSET Step
BY DEF Offers, TypeOK

LEMMA OffersKept ==
  ASSUME UNCHANGED package,
         \A p \in Package : wire'[p] = "unused" <=> wire[p] = "unused"
  PROVE  Offers' = Offers
BY DEF Offers

(* The step of the board, from what becomes of the list of one node. *)
LEMMA BoardSteps ==
  ASSUME TypeOK, TypeOK', NEW n \in Node, Offers' = Offers,
         \A m \in Node \ {n} : Listed(m)' = Listed(m) /\ clean'[m] = clean[m],
         clean'[n] => clean[n],
         clean'[n] => \/ Listed(n)' = Listed(n)
                      \/ Edited(Listed(n).list, Listed(n)'.list)
  PROVE  [Board!Next]_(Board!vars)
<1> DEFINE board == [m \in Node |-> Listed(m).list]
           b == Listed(n)'.list
<1>1. board' = [board EXCEPT ![n] = b]
  OBVIOUS
<1>2. board[n] = Listed(n).list
  OBVIOUS
<1>3. CASE clean'[n]
  <2>1. clean' = clean /\ clean[n]
    BY <1>3 DEF TypeOK
  <2>2. CASE Listed(n)' = Listed(n)
    <3>1. UNCHANGED board
      BY <2>2
    <3> QED
      BY <2>1, <3>1 DEF Board!vars
  <2>3. ASSUME NEW s \in Step, NEW status \in {"failed", "completed"},
               board[n][s] # "none", b = [board[n] EXCEPT ![s] = status]
        PROVE  Board!Next
    <3>1. board' = [board EXCEPT ![n] = [board[n] EXCEPT ![s] = status]]
      BY <1>1, <2>3
    <3>2. Board!Mark(n, s, status)
      BY <2>1, <2>3, <3>1 DEF Board!Mark, Board!Put
    <3> QED
      BY <3>2 DEF Board!Next
  <2>4. ASSUME NEW S \in SUBSET Step, S \subseteq Unfinished(board[n]), b = Opened(S, board[n])
        PROVE  Board!Next
    <3>1. Board!Resume(n, S)
      BY <1>1, <2>1, <2>4 DEF Board!Resume, Board!Put, Board!Unfinished, Unfinished, Opened
    <3> QED
      BY <3>1 DEF Board!Next
  <2>5. ASSUME NEW S \in Offers, b = Opened(S, board[n]) PROVE Board!Next
    <3>1. Board!Take(n, S)
      BY <1>1, <2>1, <2>5 DEF Board!Take, Board!Put, Opened
    <3> QED
      BY <3>1, OfferTypes DEF Board!Next
  <2>6. ASSUME NEW S \in SUBSET Step,
               b = [s \in Step |-> IF s \notin S THEN "none"
                                   ELSE IF board[n][s] = "none" THEN "pending"
                                   ELSE board[n][s]]
        PROVE  Board!Next
    <3>1. Board!Replan(n, S)
      BY <1>1, <2>1, <2>6 DEF Board!Replan, Board!Put
    <3> QED
      BY <3>1 DEF Board!Next
  <2>7. CASE Edited(board[n], b)
    BY <2>3, <2>4, <2>5, <2>6, <2>7 DEF Edited
  <2> QED
    BY <1>2, <1>3, <2>2, <2>7
<1>4. CASE ~clean'[n]
  <2>1. clean' = [clean EXCEPT ![n] = FALSE]
    BY <1>4 DEF TypeOK
  <2>2. b \in [Step -> Status]
    <3>1. ListedType'
      BY ListedTypes, PTL
    <3> QED
      BY <3>1 DEF ListedType
  <2>3. Board!Lose(n)
    BY <1>1, <2>1, <2>2 DEF Board!Lose, Board!Status, Status
  <2> QED
    BY <2>3 DEF Board!Next
<1> QED
  BY <1>3, <1>4

(* A step at one node keeps the invariant and is one of the board's. *)
LEMMA BoardAtNode ==
  ASSUME TypeOK, TypeOK', BoardInv, NEW n \in Node, Offers' = Offers,
         \A m \in Node \ {n} : active'[m] = active[m] /\ clean'[m] = clean[m],
         \A h \in Thread : NodeOf[h] # n => thread'[h] = thread[h],
         clean'[n] => clean[n],
         clean'[n] => /\ OnBoard(n)'
                      /\ \A h \in Thread : NodeOf[h] = n => Sound(thread'[h], Offers)
                      /\ \/ Listed(n)' = Listed(n)
                         \/ Edited(Listed(n).list, Listed(n)'.list)
  PROVE  BoardInv' /\ [Board!Next]_(Board!vars)
<1>1. ASSUME NEW m \in Node \ {n} PROVE Listed(m)' = Listed(m) /\ Planners(m)' = Planners(m)
  <2>1. \A h \in Thread : NodeOf[h] = m => thread'[h] = thread[h]
    OBVIOUS
  <2> QED
    BY <2>1, ListedKept
<1>2. ASSUME NEW m \in Node, clean'[m] PROVE OnBoard(m)'
  <2>1. CASE m # n
    <3>1. OnBoard(m)
      BY <1>2, <2>1 DEF BoardInv
    <3> QED
      BY <1>1, <2>1, <3>1 DEF OnBoard, Readable
  <2> QED
    BY <1>2, <2>1
<1>3. ASSUME NEW h \in Thread, clean'[NodeOf[h]] PROVE Sound(thread[h], Offers)'
  <2>1. Sound(thread'[h], Offers)
    <3>1. CASE NodeOf[h] # n
      <4>1. clean[NodeOf[h]] /\ thread'[h] = thread[h]
        BY <1>3, <3>1, ThreadAssumption
      <4> QED
        BY <4>1 DEF BoardInv
    <3> QED
      BY <1>3, <3>1
  <2> QED
    BY <2>1 DEF Sound, Readable, Unfinished
<1>4. BoardInv'
  BY <1>2, <1>3 DEF BoardInv
<1> QED
  BY <1>1, <1>4, BoardSteps

LEMMA SoilAt ==
  ASSUME TypeOK, NEW n \in Node, NEW bad, Soil(n, bad)
  PROVE  /\ \A m \in Node \ {n} : clean'[m] = clean[m]
         /\ clean'[n] => clean[n] /\ ~bad
BY DEF Soil, TypeOK

LEMMA EmptyFiles ==
  /\ \A s \in Step : Absent.list[s] = "none" /\ Empty.list[s] = "none"
  /\ Absent.form = "absent" /\ Empty.form = "empty"
  /\ Absent # Empty /\ ~Readable(Empty) /\ ~Readable(Absent)
BY DEF Absent, Empty, File, NoSteps, Readable

(* A step at which no file changes and no planner begins or ends to write. *)
LEMMA BoardQuiet ==
  ASSUME TypeOK, TypeOK', BoardInv, NEW n \in Node, UNCHANGED active, Offers' = Offers,
         \A m \in Node \ {n} : clean'[m] = clean[m],
         clean'[n] => clean[n],
         \A h \in Thread :
           \/ thread'[h] = thread[h]
           \/ /\ NodeOf[h] = n
              /\ ~PlanWrites(thread[h]) /\ ~PlanWrites(thread'[h])
              /\ clean'[n] => Sound(thread'[h], Offers)
  PROVE  BoardInv' /\ [Board!Next]_(Board!vars)
<1>1. Listed(n)' = Listed(n) /\ Planners(n)' = Planners(n)
  BY ListedKept
<1>2. ASSUME clean'[n]
      PROVE  OnBoard(n)' /\ \A h \in Thread : NodeOf[h] = n => Sound(thread'[h], Offers)
  <2>1. OnBoard(n)
    BY <1>2 DEF BoardInv
  <2>2. OnBoard(n)'
    BY <1>1, <2>1 DEF OnBoard, Readable
  <2>3. ASSUME NEW h \in Thread, NodeOf[h] = n PROVE Sound(thread'[h], Offers)
    BY <1>2, <2>3 DEF BoardInv
  <2> QED
    BY <2>2, <2>3
<1> QED
  BY <1>1, <1>2, BoardAtNode

(* An operation that begins with what it may read. *)
LEMMA BoardBegin ==
  ASSUME TypeOK, TypeOK', BoardInv, NEW h \in Thread, UNCHANGED active, Offers' = Offers,
         NEW pc \in {"open", "reload"}, NEW op, NEW S, NEW status, NEW p,
         Begin(h, pc, op, S, status, p),
         \A m \in Node \ {NodeOf[h]} : clean'[m] = clean[m],
         clean'[NodeOf[h]] =>
           /\ clean[NodeOf[h]]
           /\ Sound([pc |-> pc, op |-> op, seen |-> active[NodeOf[h]], steps |-> S,
                     status |-> status, package |-> p, fd |-> "tmp"], Offers)
  PROVE  BoardInv' /\ [Board!Next]_(Board!vars)
<1> DEFINE r == [pc |-> pc, op |-> op, seen |-> active[NodeOf[h]], steps |-> S,
                 status |-> status, package |-> p, fd |-> "tmp"]
<1>1. NodeOf[h] \in Node
  BY EditType
<1>2. thread[h].pc = "idle" /\ thread'[h] = r /\ \A g \in Thread : g # h => thread'[g] = thread[g]
  BY DEF Begin, TypeOK
<1>3. ~PlanWrites(thread[h]) /\ ~PlanWrites(thread'[h])
  BY <1>2 DEF PlanWrites
<1> QED
  BY <1>1, <1>2, <1>3, BoardQuiet

(* What a thread reads of a file that is listed. *)
LEMMA ReadsBoard ==
  ASSUME BoardInv, NEW n \in Node, clean[n]
  PROVE  active[n] = Absent \/ active[n] = Empty \/ Readable(active[n])
BY DEF BoardInv, OnBoard

LEMMA BoardMark ==
  ASSUME TypeOK, TypeOK', BoardInv, NEW h \in Thread, NEW s \in Step, MarkNode(h, s)
  PROVE  BoardInv' /\ [Board!Next]_(Board!vars)
<1>1. PICK ok \in BOOLEAN :
        /\ active[NodeOf[h]].list[s] # "none"
        /\ Begin(h, "open", "mark", {s}, Outcome(ok), NoPackage)
  BY DEF MarkNode
<1>2. UNCHANGED <<active, package, wire, clean>>
  BY DEF MarkNode, files, transfer
<1>3. Offers' = Offers
  BY <1>2, OffersKept
<1>4. ASSUME clean[NodeOf[h]]
      PROVE  Sound([pc |-> "open", op |-> "mark", seen |-> active[NodeOf[h]], steps |-> {s},
                    status |-> Outcome(ok), package |-> NoPackage, fd |-> "tmp"], Offers)
  <2>1. Readable(active[NodeOf[h]])
    BY <1>1, <1>4, EditType, ReadsBoard, EmptyFiles
  <2>2. Outcome(ok) \in {"failed", "completed"}
    BY DEF Outcome
  <2> QED
    BY <1>1, <2>1, <2>2 DEF Sound
<1> QED
  BY <1>1, <1>2, <1>3, <1>4, BoardBegin

LEMMA BoardProbe ==
  ASSUME TypeOK, TypeOK', BoardInv, NEW h \in Thread, NEW S \in SUBSET Step, ProbeResume(h, S)
  PROVE  BoardInv' /\ [Board!Next]_(Board!vars)
<1> DEFINE n == NodeOf[h]
<1>1. S # {} /\ S \subseteq Unfinished(active[n].list)
      /\ Begin(h, "reload", "resume", S, "pending", NoPackage)
  BY ProbedSteps DEF ProbeResume
<1>2. UNCHANGED <<active, package, wire, clean>>
  BY DEF ProbeResume, files, transfer, history
<1>3. Offers' = Offers
  BY <1>2, OffersKept
<1>4. ASSUME clean[n]
      PROVE  Sound([pc |-> "reload", op |-> "resume", seen |-> active[n], steps |-> S,
                    status |-> "pending", package |-> NoPackage, fd |-> "tmp"], Offers)
  <2>1. PICK s \in Step : active[n].list[s] \in {"pending", "failed"}
    BY <1>1 DEF Unfinished
  <2>2. Readable(active[n])
    BY <1>4, <2>1, EditType, ReadsBoard, EmptyFiles
  <2> QED
    BY <1>1, <2>2 DEF Sound
<1> QED
  BY <1>1, <1>2, <1>3, <1>4, BoardBegin

LEMMA BoardPlan ==
  ASSUME TypeOK, TypeOK', BoardInv, NEW h \in Thread, NEW S \in SUBSET Step, ReadPlan(h, S)
  PROVE  BoardInv' /\ [Board!Next]_(Board!vars)
<1> DEFINE n == NodeOf[h]
<1>1. /\ Begin(h, "open", "plan", S, "pending", NoPackage)
      /\ Soil(n, active[n].form \in {"empty", "garbled"})
      /\ UNCHANGED <<active, package, wire>>
  BY DEF ReadPlan, files, transfer
<1>2. Offers' = Offers
  BY <1>1, OffersKept
<1>3. /\ \A m \in Node \ {n} : clean'[m] = clean[m]
      /\ clean'[n] => clean[n] /\ active[n].form \notin {"empty", "garbled"}
  BY <1>1, EditType, SoilAt
<1>4. ASSUME clean'[n]
      PROVE  Sound([pc |-> "open", op |-> "plan", seen |-> active[n], steps |-> S,
                    status |-> "pending", package |-> NoPackage, fd |-> "tmp"], Offers)
  <2>1. active[n] = Absent \/ Readable(active[n])
    BY <1>3, <1>4, EditType, ReadsBoard, EmptyFiles
  <2> QED
    BY <2>1 DEF Sound
<1> QED
  BY <1>1, <1>2, <1>3, <1>4, BoardBegin

LEMMA BoardImport ==
  ASSUME TypeOK, TypeOK', BoardInv, NEW h \in Thread, NEW p \in Package,
         Import(h, p) \/ ImportByHand(h, p)
  PROVE  BoardInv' /\ [Board!Next]_(Board!vars)
<1> DEFINE n == NodeOf[h]
           S == package[p].steps
<1>1. PICK q : /\ Begin(h, "open", "import", S, "pending", q)
               /\ Soil(n, active[n].form \in {"empty", "garbled"})
               /\ UNCHANGED active
  BY DEF Import, ImportByHand, ReadImport, files
<1>2. wire[p] # "unused"
  BY DEF Import, ImportByHand
<1>3. UNCHANGED package /\ \A r \in Package : wire'[r] = "unused" <=> wire[r] = "unused"
  BY DEF Import, ImportByHand, transfer, TypeOK
<1>4. Offers' = Offers
  BY <1>3, OffersKept
<1>5. /\ \A m \in Node \ {n} : clean'[m] = clean[m]
      /\ clean'[n] => clean[n] /\ active[n].form \notin {"empty", "garbled"}
  BY <1>1, EditType, SoilAt
<1>6. ASSUME clean'[n]
      PROVE  Sound([pc |-> "open", op |-> "import", seen |-> active[n], steps |-> S,
                    status |-> "pending", package |-> q, fd |-> "tmp"], Offers)
  <2>1. active[n] = Absent \/ Readable(active[n])
    BY <1>5, <1>6, EditType, ReadsBoard, EmptyFiles
  <2>2. S \in Offers
    BY <1>2 DEF Offers
  <2> QED
    BY <2>1, <2>2 DEF Sound
<1> QED
  BY <1>1, <1>4, <1>5, <1>6, BoardBegin

LEMMA SoundIdle == \A offers : Sound(Idle, offers)
BY DEF Sound, Idle

(* The second load of a resume, which gives what the probe has seen. *)
LEMMA BoardReload ==
  ASSUME TypeOK, TypeOK', BoardInv, NEW h \in Thread, ReloadResume(h)
  PROVE  BoardInv' /\ [Board!Next]_(Board!vars)
<1> DEFINE n == NodeOf[h]
<1>1. /\ thread[h].pc = "reload" /\ Soil(n, thread[h].seen # active[n])
      /\ thread' = [thread EXCEPT ![h] =
           IF Readable(active[n]) THEN [@ EXCEPT !.pc = "open", !.seen = active[n]] ELSE Idle]
      /\ UNCHANGED <<active, package, wire>>
  BY DEF ReloadResume, files, transfer
<1>2. n \in Node /\ thread[h] \in ThreadType /\ Offers' = Offers
  BY <1>1, EditType, OffersKept
<1>3. /\ \A m \in Node \ {n} : clean'[m] = clean[m]
      /\ clean'[n] => clean[n] /\ thread[h].seen = active[n]
  BY <1>1, <1>2, SoilAt
<1>4. \/ thread'[h] = Idle
      \/ /\ thread'[h].pc = "open" /\ thread'[h].seen = active[n] /\ Readable(active[n])
         /\ thread'[h].op = thread[h].op /\ thread'[h].status = thread[h].status
         /\ thread'[h].steps = thread[h].steps
  BY <1>1, <1>2 DEF TypeOK, ThreadType
<1>5. \A g \in Thread : g # h => thread'[g] = thread[g]
  BY <1>1 DEF TypeOK
<1>6. ~PlanWrites(thread[h]) /\ ~PlanWrites(thread'[h])
  BY <1>1, <1>4 DEF PlanWrites, Idle
<1>7. ASSUME clean'[n] PROVE Sound(thread'[h], Offers)
  <2>1. Sound(thread[h], Offers)
    BY <1>3, <1>7 DEF BoardInv
  <2>2. CASE thread'[h] = Idle
    BY <2>2, SoundIdle
  <2>3. CASE thread'[h] # Idle
    BY <1>1, <1>3, <1>4, <1>7, <2>1, <2>3 DEF Sound
  <2> QED
    BY <2>2, <2>3
<1> QED
  BY <1>1, <1>2, <1>3, <1>5, <1>6, <1>7, BoardQuiet

(* A saver opens and writes the temporary file; a write that goes to          *)
(* active.json instead loses an update.                                       *)
LEMMA BoardOpenTmp ==
  ASSUME TypeOK, TypeOK', BoardInv, NEW h \in Thread, OpenTmp(h)
  PROVE  BoardInv' /\ [Board!Next]_(Board!vars)
<1> DEFINE n == NodeOf[h]
<1>1. /\ thread[h].pc = "open" /\ thread[h].op # "plan"
      /\ thread' = [thread EXCEPT ![h].pc = "write"]
      /\ UNCHANGED <<active, package, wire, clean>>
  BY DEF OpenTmp, transfer, history
<1>2. n \in Node /\ thread[h] \in ThreadType /\ Offers' = Offers
  BY <1>1, EditType, OffersKept
<1>3. /\ thread'[h].pc = "write" /\ thread'[h].seen = thread[h].seen
      /\ thread'[h].op = thread[h].op /\ thread'[h].status = thread[h].status
      /\ thread'[h].steps = thread[h].steps
  BY <1>1, <1>2 DEF TypeOK, ThreadType
<1>4. \A g \in Thread : g # h => thread'[g] = thread[g]
  BY <1>1 DEF TypeOK
<1>5. ~PlanWrites(thread[h]) /\ ~PlanWrites(thread'[h])
  BY <1>1, <1>3 DEF PlanWrites
<1>6. clean'[n] => Sound(thread'[h], Offers)
  BY <1>1, <1>3 DEF BoardInv, Sound
<1> QED
  BY <1>1, <1>2, <1>4, <1>5, <1>6, BoardQuiet

LEMMA BoardWriteTmp ==
  ASSUME TypeOK, TypeOK', BoardInv, NEW h \in Thread, WriteTmp(h)
  PROVE  BoardInv' /\ [Board!Next]_(Board!vars)
<1> DEFINE n == NodeOf[h]
<1>1. /\ thread[h].pc = "write" /\ thread[h].op # "plan"
      /\ thread' = [thread EXCEPT ![h].pc = "rename"]
      /\ UNCHANGED <<package, wire>>
  BY DEF WriteTmp, transfer
<1>2. n \in Node /\ thread[h] \in ThreadType /\ Offers' = Offers
  BY <1>1, EditType, OffersKept
<1>3. /\ thread'[h].pc = "rename" /\ thread'[h].seen = thread[h].seen
      /\ thread'[h].op = thread[h].op /\ thread'[h].status = thread[h].status
      /\ thread'[h].steps = thread[h].steps
  BY <1>1, <1>2 DEF TypeOK, ThreadType
<1>4. \A g \in Thread : g # h => thread'[g] = thread[g]
  BY <1>1 DEF TypeOK
<1>5. CASE thread[h].fd = "active"
  <2>1. Soil(n, TRUE) /\ \E f : active' = [active EXCEPT ![n] = f]
    BY <1>5 DEF WriteTmp
  <2>2. ~clean'[n] /\ \A m \in Node \ {n} : clean'[m] = clean[m]
    BY <1>2, <2>1, SoilAt, SoilEnds
  <2>3. \A m \in Node \ {n} : active'[m] = active[m]
    BY <1>2, <2>1 DEF TypeOK
  <2> QED
    BY <1>2, <1>4, <2>2, <2>3, BoardAtNode
<1>6. CASE thread[h].fd # "active"
  <2>1. UNCHANGED <<active, clean>>
    BY <1>2, <1>6 DEF WriteTmp, ThreadType, files
  <2>2. ~PlanWrites(thread[h]) /\ ~PlanWrites(thread'[h])
    BY <1>1, <1>3 DEF PlanWrites
  <2>3. clean'[n] => Sound(thread'[h], Offers)
    BY <1>1, <1>3, <2>1 DEF BoardInv, Sound
  <2> QED
    BY <1>2, <1>4, <2>1, <2>2, <2>3, BoardQuiet
<1> QED
  BY <1>5, <1>6

(* What an operation writes is what the board does to the list it has read. *)
LEMMA ResultEdits ==
  ASSUME TypeOK, NEW h \in Thread, thread[h].pc # "idle", Sound(thread[h], Offers)
  PROVE  Edited(thread[h].seen.list, Result(h))
<1> DEFINE list == thread[h].seen.list
           S == thread[h].steps
           planned(T, old) == [s \in Step |-> IF s \notin T THEN "none"
                                              ELSE IF old[s] = "none" THEN "pending"
                                              ELSE old[s]]
<1>1. /\ list \in [Step -> Status] /\ S \in SUBSET Step
      /\ thread[h].op \in {"mark", "resume", "import", "plan"}
  BY EditType DEF ThreadType, FileType
<1>2. CASE thread[h].op = "mark"
  <2>1. PICK s \in Step : /\ S = {s} /\ list[s] # "none"
                          /\ thread[h].status \in {"failed", "completed"}
    BY <1>2 DEF Sound
  <2>2. Result(h) = [list EXCEPT ![s] = thread[h].status]
    BY <1>1, <1>2, <2>1 DEF Result
  <2> QED
    BY <2>1, <2>2 DEF Edited
<1>3. CASE thread[h].op = "resume"
  <2>1. S \subseteq Unfinished(list)
    BY <1>3 DEF Sound
  <2>2. Result(h) = Opened(S, list)
    BY <1>3, <2>1 DEF Result, Opened, Unfinished
  <2> QED
    BY <1>1, <2>1, <2>2 DEF Edited
<1>4. CASE thread[h].op = "import"
  <2>1. Result(h) = Opened(S, list)
    BY <1>4 DEF Result, Opened
  <2>2. S \in Offers
    BY <1>4 DEF Sound
  <2> QED
    BY <2>1, <2>2 DEF Edited
<1>5. CASE thread[h].op = "plan"
  <2>1. Result(h) = planned(S, list)
    BY <1>5 DEF Result
  <2>2. \E T \in SUBSET Step : Result(h) = planned(T, list)
    BY <1>1, <2>1
  <2> QED
    BY <2>2 DEF Edited
<1> QED
  BY <1>1, <1>2, <1>3, <1>4, <1>5

(* A planner empties the file: what it has read stays on the board. *)
LEMMA BoardOpenActive ==
  ASSUME TypeOK, TypeOK', BoardInv, NEW h \in Thread, OpenActive(h)
  PROVE  BoardInv' /\ [Board!Next]_(Board!vars)
<1> DEFINE n == NodeOf[h]
<1>1. /\ thread[h].pc = "open" /\ thread[h].op = "plan"
      /\ active' = [active EXCEPT ![n] = Empty]
      /\ thread' = [thread EXCEPT ![h].pc = "write", ![h].fd = "active"]
      /\ Soil(n, active[n] # thread[h].seen)
      /\ UNCHANGED <<package, wire>>
  BY DEF OpenActive, transfer
<1>2. n \in Node /\ thread[h] \in ThreadType /\ Offers' = Offers
  BY <1>1, EditType, OffersKept
<1>3. /\ \A m \in Node \ {n} : clean'[m] = clean[m]
      /\ clean'[n] => clean[n] /\ active[n] = thread[h].seen
  BY <1>1, <1>2, SoilAt
<1>4. /\ active'[n] = Empty
      /\ \A m \in Node \ {n} : active'[m] = active[m]
  BY <1>1, <1>2 DEF TypeOK
<1>5. /\ thread'[h].pc = "write" /\ thread'[h].seen = thread[h].seen
      /\ thread'[h].op = "plan"
  BY <1>1, <1>2 DEF TypeOK, ThreadType
<1>6. \A g \in Thread : g # h => thread'[g] = thread[g]
  BY <1>1 DEF TypeOK
<1>7. ASSUME clean'[n]
      PROVE  /\ OnBoard(n)' /\ Listed(n)' = Listed(n)
             /\ \A g \in Thread : NodeOf[g] = n => Sound(thread'[g], Offers)
  <2>1. Sound(thread[h], Offers) /\ OnBoard(n)
    BY <1>2, <1>3, <1>7 DEF BoardInv
  <2>2. Planners(n) = {}
    BY <1>3, <1>7, <2>1, EmptyFiles DEF Sound, OnBoard
  <2>3. \A g \in Thread : NodeOf[g] = n => ~PlanWrites(thread[g])
    BY <2>2, PlannersAre
  <2>4. Planners(n)' = {h}
    <3>1. Planners(n)' = {g \in Thread : NodeOf[g] = n /\ PlanWrites(thread'[g])}
      BY DEF Planners, PlanWrites
    <3>2. PlanWrites(thread'[h])
      BY <1>5 DEF PlanWrites
    <3> QED
      BY <1>6, <2>3, <3>1, <3>2
  <2>5. Listed(n) = active[n]
    BY <2>2 DEF Listed
  <2>6. Listed(n)' = thread'[h].seen
    <3>1. (CHOOSE g \in {h} : TRUE) = h
      OBVIOUS
    <3> QED
      BY <2>4, <3>1 DEF Listed
  <2>7. OnBoard(n)'
    BY <1>4, <2>4, EmptyFiles DEF OnBoard, Empty, File, NoSteps
  <2>8. ASSUME NEW g \in Thread, NodeOf[g] = n PROVE Sound(thread'[g], Offers)
    <3>1. CASE g = h
      BY <1>5, <2>1, <3>1 DEF Sound
    <3>2. CASE g # h
      BY <1>3, <1>6, <1>7, <2>8, <3>2 DEF BoardInv
    <3> QED
      BY <3>1, <3>2
  <2> QED
    BY <1>3, <1>5, <1>7, <2>5, <2>6, <2>7, <2>8
<1> QED
  BY <1>2, <1>3, <1>4, <1>6, <1>7, BoardAtNode

(* Its write puts the whole plan on the board. *)
LEMMA BoardWriteActive ==
  ASSUME TypeOK, TypeOK', BoardInv, NEW h \in Thread, WriteActive(h)
  PROVE  BoardInv' /\ [Board!Next]_(Board!vars)
<1> DEFINE n == NodeOf[h]
<1>1. /\ thread[h].pc = "write" /\ thread[h].op = "plan"
      /\ thread' = [thread EXCEPT ![h] = Idle]
      /\ UNCHANGED <<package, wire>>
  BY DEF WriteActive, transfer
<1>2. n \in Node /\ thread[h] \in ThreadType /\ Offers' = Offers
  BY <1>1, EditType, OffersKept
<1>3. \A m \in Node \ {n} : active'[m] = active[m]
  <2>1. active' = active \/ \E f : active' = [active EXCEPT ![n] = f]
    BY DEF WriteActive
  <2> QED
    BY <2>1 DEF TypeOK
<1>4. \A m \in Node \ {n} : clean'[m] = clean[m]
  <2>1. Soil(n, active[n] # Empty) \/ Soil(n, TRUE)
    BY DEF WriteActive
  <2> QED
    BY <1>2, <2>1, SoilAt
<1>5. clean'[n] => /\ clean[n] /\ active[n] = Empty
                   /\ active'[n] = File("json", Result(h))
  <2>1. CASE thread[h].fd = "active"
    <3>1. /\ Soil(n, active[n] # Empty)
          /\ \E f \in Written(h, active[n]) : active' = [active EXCEPT ![n] = f]
      BY <2>1 DEF WriteActive
    <3>2. clean'[n] => clean[n] /\ active[n] = Empty
      BY <1>2, <3>1, SoilAt
    <3>3. \A f \in Written(h, Empty) : f = File("json", Result(h))
      BY DEF Written
    <3> QED
      BY <1>2, <3>1, <3>2, <3>3 DEF TypeOK
  <2>2. CASE thread[h].fd # "active"
    <3>1. Soil(n, TRUE)
      BY <2>2 DEF WriteActive
    <3> QED
      BY <1>2, <3>1, SoilEnds
  <2> QED
    BY <2>1, <2>2
<1>6. thread'[h] = Idle /\ \A g \in Thread : g # h => thread'[g] = thread[g]
  BY <1>1 DEF TypeOK
<1>7. ASSUME clean'[n]
      PROVE  /\ OnBoard(n)' /\ Edited(Listed(n).list, Listed(n)'.list)
             /\ \A g \in Thread : NodeOf[g] = n => Sound(thread'[g], Offers)
  <2>1. OnBoard(n)
    BY <1>2, <1>5, <1>7 DEF BoardInv
  <2>2. PICK g \in Thread : Planners(n) = {g}
    BY <1>5, <1>7, <2>1, EmptyFiles DEF OnBoard
  <2>3. h \in Planners(n)
    BY <1>1 DEF Planners
  <2>4. Planners(n) = {h}
    BY <2>2, <2>3
  <2>5. Listed(n) = thread[h].seen
    BY <1>2, <2>4, ListedAlone
  <2>6. Planners(n)' = {}
    <3>1. Planners(n)' = {f \in Thread : NodeOf[f] = n /\ PlanWrites(thread'[f])}
      BY DEF Planners, PlanWrites
    <3>2. ~PlanWrites(Idle)
      BY DEF PlanWrites, Idle
    <3>3. \A f \in Thread : f # h => ~(NodeOf[f] = n /\ PlanWrites(thread[f]))
      BY <2>4, PlannersAre
    <3> QED
      BY <1>6, <3>1, <3>2, <3>3
  <2>7. Listed(n)' = File("json", Result(h))
    BY <1>5, <1>7, <2>6 DEF Listed
  <2>8. OnBoard(n)'
    BY <1>5, <1>7, <2>6 DEF OnBoard, Readable, File
  <2>9. Sound(thread[h], Offers)
    BY <1>5, <1>7 DEF BoardInv
  <2>10. Edited(Listed(n).list, Listed(n)'.list)
    BY <1>1, <2>5, <2>7, <2>9, ResultEdits DEF File
  <2>11. ASSUME NEW f \in Thread, NodeOf[f] = n PROVE Sound(thread'[f], Offers)
    BY <1>5, <1>6, <1>7, <2>11, SoundIdle DEF BoardInv
  <2> QED
    BY <2>8, <2>10, <2>11
<1> QED
  BY <1>2, <1>3, <1>4, <1>5, <1>6, <1>7, BoardAtNode

LEMMA ReplyOffers ==
  ASSUME TypeOK, OkInv, NEW h \in Thread, wire' = Reply(thread[h].package), UNCHANGED package
  PROVE  Offers' = Offers
<1>1. CASE thread[h].package = NoPackage
  BY <1>1, OffersKept DEF Reply
<1>2. CASE thread[h].package # NoPackage
  <2>1. thread[h].package \in Package
    BY <1>2, EditType DEF ThreadType
  <2>2. wire[thread[h].package] # "unused"
    BY <2>1 DEF OkInv
  <2>3. \A p \in Package : wire'[p] = "unused" <=> wire[p] = "unused"
    BY <1>2, <2>1, <2>2 DEF Reply, TypeOK
  <2> QED
    BY <2>3, OffersKept
<1> QED
  BY <1>1, <1>2

(* A rename puts what a saver made of the list it has read on the board. *)
LEMMA BoardRename ==
  ASSUME TypeOK, TypeOK', OkInv, BoardInv, NEW h \in Thread, Rename(h)
  PROVE  BoardInv' /\ [Board!Next]_(Board!vars)
<1> DEFINE n == NodeOf[h]
<1>1. /\ thread[h].pc = "rename"
      /\ active' = [active EXCEPT ![n] = tmp[n]]
      /\ thread' = [Moved(n) EXCEPT ![h] = Idle]
      /\ wire' = Reply(thread[h].package) /\ UNCHANGED package
      /\ Soil(n, tmp[n] # File("json", Result(h)) \/ active[n] # thread[h].seen)
  BY DEF Rename
<1>2. n \in Node /\ thread[h] \in ThreadType /\ Offers' = Offers
  BY <1>1, EditType, ReplyOffers
<1>3. /\ \A m \in Node \ {n} : clean'[m] = clean[m]
      /\ clean'[n] => clean[n] /\ tmp[n] = File("json", Result(h)) /\ active[n] = thread[h].seen
  BY <1>1, <1>2, SoilAt
<1>4. active'[n] = tmp[n] /\ \A m \in Node \ {n} : active'[m] = active[m]
  BY <1>1, <1>2 DEF TypeOK
<1>5. thread'[h] = Idle
  BY <1>1 DEF Moved
<1>6. \A g \in Thread : NodeOf[g] # n => thread'[g] = thread[g]
  BY <1>1 DEF Moved
<1>7. \A g \in Thread :
        g # h => /\ thread'[g].pc = thread[g].pc /\ thread'[g].op = thread[g].op
                 /\ thread'[g].seen = thread[g].seen /\ thread'[g].steps = thread[g].steps
                 /\ thread'[g].status = thread[g].status
  BY <1>1, EditType DEF Moved, ThreadType
<1>8. ASSUME clean'[n]
      PROVE  /\ OnBoard(n)' /\ Edited(Listed(n).list, Listed(n)'.list)
             /\ \A g \in Thread : NodeOf[g] = n => Sound(thread'[g], Offers)
  <2>1. OnBoard(n) /\ Sound(thread[h], Offers)
    BY <1>2, <1>3, <1>8 DEF BoardInv
  <2>2. Planners(n) = {}
    BY <1>3, <1>8, <2>1, EmptyFiles DEF Sound, OnBoard
  <2>3. Listed(n) = thread[h].seen
    BY <1>3, <1>8, <2>2 DEF Listed
  <2>4. Planners(n)' = {}
    <3>1. Planners(n)' = {g \in Thread : NodeOf[g] = n /\ PlanWrites(thread'[g])}
      BY DEF Planners, PlanWrites
    <3>2. \A g \in Thread : ~(NodeOf[g] = n /\ PlanWrites(thread[g]))
      BY <2>2, PlannersAre
    <3>3. ~PlanWrites(Idle)
      BY DEF PlanWrites, Idle
    <3> QED
      BY <1>5, <1>7, <3>1, <3>2, <3>3 DEF PlanWrites
  <2>5. Listed(n)' = File("json", Result(h))
    BY <1>3, <1>4, <1>8, <2>4 DEF Listed
  <2>6. OnBoard(n)'
    BY <1>3, <1>4, <1>8, <2>4 DEF OnBoard, Readable, File
  <2>7. Edited(Listed(n).list, Listed(n)'.list)
    BY <1>1, <2>1, <2>3, <2>5, ResultEdits DEF File
  <2>8. ASSUME NEW g \in Thread, NodeOf[g] = n PROVE Sound(thread'[g], Offers)
    <3>1. CASE g = h
      BY <1>5, <3>1, SoundIdle
    <3>2. CASE g # h
      <4>1. Sound(thread[g], Offers)
        BY <1>3, <1>8, <2>8 DEF BoardInv
      <4> QED
        BY <1>7, <3>2, <4>1 DEF Sound
    <3> QED
      BY <3>1, <3>2
  <2> QED
    BY <2>6, <2>7, <2>8
<1> QED
  BY <1>2, <1>3, <1>4, <1>6, <1>8, BoardAtNode

LEMMA BoardRenameFails ==
  ASSUME TypeOK, TypeOK', OkInv, BoardInv, NEW h \in Thread, RenameFails(h)
  PROVE  BoardInv' /\ [Board!Next]_(Board!vars)
<1>1. /\ thread' = [thread EXCEPT ![h] = Idle]
      /\ wire' = Reply(thread[h].package)
      /\ Soil(NodeOf[h], TRUE)
      /\ UNCHANGED <<active, package>>
  BY DEF RenameFails, files
<1>2. NodeOf[h] \in Node /\ Offers' = Offers
  BY <1>1, EditType, ReplyOffers
<1>3. ~clean'[NodeOf[h]] /\ \A m \in Node \ {NodeOf[h]} : clean'[m] = clean[m]
  BY <1>1, <1>2, SoilAt, SoilEnds
<1>4. \A g \in Thread : g # h => thread'[g] = thread[g]
  BY <1>1 DEF TypeOK
<1> QED
  BY <1>1, <1>2, <1>3, <1>4, BoardAtNode

(* A restart: no planner was writing, or the node's file is lost. *)
LEMMA BoardCrash ==
  ASSUME TypeOK, TypeOK', BoardInv, NEW n \in Node, Crash(n)
  PROVE  BoardInv' /\ [Board!Next]_(Board!vars)
<1>1. /\ thread' = [h \in Thread |-> IF NodeOf[h] = n THEN Idle ELSE thread[h]]
      /\ Soil(n, active[n].form \in {"empty", "garbled"})
      /\ UNCHANGED <<active, package>>
      /\ \A p \in Package : wire'[p] = "unused" <=> wire[p] = "unused"
  BY DEF Crash, files
<1>2. Offers' = Offers
  BY <1>1, OffersKept
<1>3. /\ \A m \in Node \ {n} : clean'[m] = clean[m]
      /\ clean'[n] => clean[n] /\ active[n].form \notin {"empty", "garbled"}
  BY <1>1, SoilAt
<1>4. \A h \in Thread : NodeOf[h] # n => thread'[h] = thread[h]
  BY <1>1
<1>5. ASSUME clean'[n]
      PROVE  /\ OnBoard(n)' /\ Listed(n)' = Listed(n)
             /\ \A h \in Thread : NodeOf[h] = n => Sound(thread'[h], Offers)
  <2>1. Planners(n) = {} /\ (active[n] = Absent \/ Readable(active[n]))
    BY <1>3, <1>5, EmptyFiles DEF BoardInv, OnBoard
  <2>2. Planners(n)' = {}
    <3>1. Planners(n)' = {g \in Thread : NodeOf[g] = n /\ PlanWrites(thread'[g])}
      BY DEF Planners, PlanWrites
    <3>2. ~PlanWrites(Idle)
      BY DEF PlanWrites, Idle
    <3> QED
      BY <1>1, <3>1, <3>2
  <2>3. Listed(n)' = Listed(n)
    BY <1>1, <2>1, <2>2 DEF Listed
  <2>4. OnBoard(n)'
    BY <1>1, <2>1, <2>2 DEF OnBoard, Readable
  <2>5. \A h \in Thread : NodeOf[h] = n => Sound(thread'[h], Offers)
    BY <1>1, SoundIdle
  <2> QED
    BY <2>3, <2>4, <2>5
<1> QED
  BY <1>1, <1>2, <1>3, <1>4, <1>5, BoardAtNode

(* A handoff makes a package of the steps that are unfinished on the board. *)
LEMMA BoardHandoff ==
  ASSUME TypeOK, BoardInv,
         NEW h \in Thread, NEW p \in Package, NEW q \in Node, NEW S \in SUBSET Step,
         Handoff(h, p, q, S)
  PROVE  BoardInv' /\ [Board!Next]_(Board!vars)
<1> DEFINE n == NodeOf[h]
           board == [m \in Node |-> Listed(m).list]
<1>1. /\ wire[p] = "unused" /\ S # {} /\ S \in Probed(active[n].list)
      /\ package' = [package EXCEPT ![p] = [from |-> n, to |-> q, steps |-> S]]
      /\ wire' = [wire EXCEPT ![p] = "request"]
      /\ UNCHANGED <<active, thread, clean>>
  BY DEF Handoff, files, history
<1>2. n \in Node
  BY EditType
<1>3. Offers' = Offers \cup {S}
  <2>1. package'[p].steps = S /\ wire'[p] = "request"
    BY <1>1 DEF TypeOK
  <2>2. \A r \in Package \ {p} : package'[r] = package[r] /\ wire'[r] = wire[r]
    BY <1>1 DEF TypeOK
  <2>3. Offers' = {package'[r].steps : r \in {s \in Package : wire'[s] # "unused"}}
    BY DEF Offers
  <2>4. \A x : x \in Offers' <=> x \in Offers \/ x = S
    BY <1>1, <2>1, <2>2, <2>3 DEF Offers
  <2> QED
    BY <2>4
<1>4. \A m \in Node : Planners(m)' = Planners(m) /\ Listed(m)' = Listed(m)
  BY <1>1, ListedKept
<1>5. BoardInv'
  <2>1. \A m \in Node : clean'[m] => OnBoard(m)'
    BY <1>1, <1>4 DEF BoardInv, OnBoard, Readable
  <2>2. ASSUME NEW g \in Thread, clean'[NodeOf[g]] PROVE Sound(thread[g], Offers)'
    <3>1. Sound(thread[g], Offers)
      BY <1>1, <2>2 DEF BoardInv
    <3> QED
      BY <1>1, <1>3, <3>1 DEF Sound, Readable, Unfinished
  <2> QED
    BY <2>1, <2>2 DEF BoardInv
<1>6. ASSUME clean[n]
      PROVE  /\ S \subseteq Unfinished(board[n])
             /\ S = Unfinished(board[n]) \/ Cardinality(S) = ResumeLimit
  <2>1. PICK s \in Step : active[n].list[s] \in {"pending", "failed"}
    BY <1>1, ProbedSteps DEF Unfinished
  <2>2. Planners(n) = {}
    BY <1>2, <1>6, <2>1, EmptyFiles DEF BoardInv, OnBoard
  <2> QED
    BY <1>1, <1>2, <2>2, ProbedSteps DEF Listed, Probed
<1>7. Board!Offer(n, S)
  <2>1. UNCHANGED [m \in Node |-> Listed(m).list]
    BY <1>4
  <2>2. Board!Unfinished([m \in Node |-> Listed(m).list][n]) = Unfinished(board[n])
    BY DEF Board!Unfinished, Unfinished
  <2>3. Board!Cardinality(S) = Cardinality(S)
    BY DEF Board!Cardinality, Cardinality
  <2> QED
    BY <1>1, <1>3, <1>6, <2>1, <2>2, <2>3 DEF Board!Offer
<1> QED
  BY <1>2, <1>5, <1>7 DEF Board!Next

LEMMA BoardStutters ==
  ASSUME BoardInv, UNCHANGED <<active, thread, clean>>, Offers' = Offers
  PROVE  BoardInv' /\ [Board!Next]_(Board!vars)
<1>1. \A m \in Node : Planners(m)' = Planners(m) /\ Listed(m)' = Listed(m)
  BY ListedKept
<1>2. BoardInv'
  <2>1. \A m \in Node : clean'[m] => OnBoard(m)'
    BY <1>1 DEF BoardInv, OnBoard, Readable
  <2>2. \A g \in Thread : clean'[NodeOf[g]] => Sound(thread[g], Offers)'
    BY DEF BoardInv, Sound, Readable, Unfinished
  <2> QED
    BY <2>1, <2>2 DEF BoardInv
<1>3. UNCHANGED (Board!vars)
  BY <1>1 DEF Board!vars
<1> QED
  BY <1>2, <1>3

LEMMA BoardStep ==
  TypeOK /\ TypeOK' /\ OkInv /\ BoardInv /\ [Next]_vars
    => BoardInv' /\ [Board!Next]_(Board!vars)
<1> SUFFICES ASSUME TypeOK, TypeOK', OkInv, BoardInv, [Next]_vars
             PROVE  BoardInv' /\ [Board!Next]_(Board!vars)
  OBVIOUS
<1>1. ASSUME \/ \E p \in Package : Answer(p) \/ Timeout(p)
             \/ UNCHANGED vars
      PROVE  BoardInv' /\ [Board!Next]_(Board!vars)
  <2>1. /\ UNCHANGED <<active, thread, clean, package>>
        /\ \A p \in Package : wire'[p] = "unused" <=> wire[p] = "unused"
    BY <1>1 DEF Answer, Timeout, vars, files, transfer, history, TypeOK
  <2>2. Offers' = Offers
    BY <2>1, OffersKept
  <2> QED
    BY <2>1, <2>2, BoardStutters
<1>2. CASE \E h \in Agent, s \in Step : MarkNode(h, s)
  BY <1>2, BoardMark, ThreadAssumption
<1>3. CASE \E h \in Agent, S \in SUBSET Step : ReadPlan(h, S)
  BY <1>3, BoardPlan, ThreadAssumption
<1>4. CASE \E h \in Thread : ReloadResume(h) \/ OpenTmp(h) \/ WriteTmp(h)
  BY <1>4, BoardReload, BoardOpenTmp, BoardWriteTmp
<1>5. CASE \E h \in Thread : Rename(h) \/ RenameFails(h) \/ OpenActive(h) \/ WriteActive(h)
  BY <1>5, BoardRename, BoardRenameFails, BoardOpenActive, BoardWriteActive
<1>6. CASE \E h \in Thread, p \in Package, q \in Node, S \in SUBSET Step : Handoff(h, p, q, S)
  BY <1>6, BoardHandoff
<1>7. CASE \E h \in Thread, p \in Package : Import(h, p) \/ ImportByHand(h, p)
  BY <1>7, BoardImport
<1>8. CASE \E n \in Node : Crash(n)
  BY <1>8, BoardCrash
<1>9. CASE \E h \in Thread, S \in SUBSET Step : ProbeResume(h, S)
  BY <1>9, BoardProbe
<1> QED
  BY <1>1, <1>2, <1>3, <1>4, <1>5, <1>6, <1>7, <1>8, <1>9 DEF Next

LEMMA BoardInit == Init => BoardInv /\ Board!Init
<1> SUFFICES ASSUME Init PROVE BoardInv /\ Board!Init
  OBVIOUS
<1>1. PICK m \in Node : active = [n \in Node |-> IF n = m THEN Planned ELSE Absent]
  BY DEF Init
<1>2. /\ \A n \in Node : Planners(n) = {}
      /\ clean = [n \in Node |-> TRUE] /\ Offers = {}
  BY DEF Init, Planners, Idle, Offers
<1>3. \A n \in Node : OnBoard(n)
  BY <1>1, <1>2 DEF OnBoard, Readable, Planned, File
<1>4. \A h \in Thread : Sound(thread[h], Offers)
  BY SoundIdle DEF Init
<1>5. \A n \in Node : \/ Listed(n).list = [s \in Step |-> "pending"]
                      \/ Listed(n).list = [s \in Step |-> "none"]
  BY <1>1, <1>2 DEF Listed, Planned, Absent, NoSteps, File
<1>6. Board!Init
  <2>1. \A n \in Node :
          Listed(n).list \in {[s \in Step |-> status] : status \in {"none", "pending"}}
    BY <1>5
  <2> QED
    BY <1>2, <2>1 DEF Board!Init
<1> QED
  BY <1>3, <1>4, <1>6 DEF BoardInv

(* Every behaviour of the files, with overlapping and torn updates, crashes   *)
(* and handoffs, is one of the board: until an update of a node's file is     *)
(* lost, each operation changes the listed steps at once and as a whole, a    *)
(* resume opens unfinished steps only, an import those of a package, and a    *)
(* package lists unfinished steps only: all of them, or as many as the limit. *)
THEOREM FilesAreABoard == Spec => ImplementsBoard
<1>1. TypeOK /\ OkInv /\ BoardInv /\ [Next]_vars
        => TypeOK' /\ OkInv' /\ BoardInv' /\ [Board!Next]_(Board!vars)
  <2>1. TypeOK /\ [Next]_vars => TypeOK'
    BY TypesStep
  <2>2. TypeOK /\ OkInv /\ [Next]_vars => OkInv'
    BY OkStep
  <2> QED
    BY <2>1, <2>2, BoardStep
<1> QED
  BY <1>1, TypesInit, OkInit, BoardInit, PTL DEF Spec, ImplementsBoard, Board!Spec
=============================================================================
