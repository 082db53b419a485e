------------------------ MODULE SessionQueue_proofs ------------------------
(***************************************************************************)
(* Proofs about SessionQueue: its types, that a queue has a worker unless  *)
(* the last one left it, the bound on what a session executes at once, and *)
(* the order of execution.                                                 *)
(***************************************************************************)
EXTENDS SessionQueue, FiniteSetTheorems, TLAPS

(* The only coroutine that is not done is _worker_task, so at most one     *)
(* instruction is with a worker; the counter counts the parallel tasks,    *)
(* and there are none in SERIAL mode.                                      *)
OneWorker == \A l \in Loop : loop[l].pc # "off" => l = task

Counted ==
  /\ IsFiniteSet(parallel) /\ Cardinality(parallel) = active
  /\ mode = "SERIAL" => active = 0
  /\ \A i \in parallel : told[i] = "parallel"

QueueInv == OneWorker /\ Counted

-----------------------------------------------------------------------------
LEMMA StepTypes == TypeOK /\ [Next]_vars => TypeOK'
<1> SUFFICES ASSUME TypeOK, [Next]_vars PROVE TypeOK'
  OBVIOUS
<1> USE DEF TypeOK, LoopPc
<1>1. ASSUME NEW i \in Instruction, SubmitParallel(i) PROVE TypeOK'
  BY <1>1, ParallelAssumption DEF SubmitParallel, Room
<1>2. ASSUME NEW i \in Instruction, SubmitQueued(i) PROVE TypeOK'
  <2>1. /\ task' \in Loop \cup {NoLoop}
        /\ loop' \in [Loop -> [pc: LoopPc, inst: Instruction \cup {NoInstruction}]]
        /\ missed' \in BOOLEAN
    <3>1. CASE UNCHANGED <<task, loop, missed>>
      BY <3>1
    <3>2. CASE \E l \in Loop : /\ loop' = [loop EXCEPT ![l] = Waiting]
                               /\ task' = l
                               /\ missed' = FALSE
      <4>1. PICK l \in Loop : /\ loop' = [loop EXCEPT ![l] = Waiting]
                              /\ task' = l
                              /\ missed' = FALSE
        BY <3>2
      <4>2. Waiting \in [pc: LoopPc, inst: Instruction \cup {NoInstruction}]
        BY DEF Waiting
      <4> QED
        BY <4>1, <4>2
    <3> QED
      BY <1>2, <3>1, <3>2, Zenon DEF SubmitQueued, StartWorker
  <2>2. queue' \in Seq(Instruction) /\ Len(queue') <= MaxDepth
    BY <1>2, DepthAssumption DEF SubmitQueued
  <2> QED
    BY <1>2, <2>1, <2>2 DEF SubmitQueued
<1>3. ASSUME NEW i \in Instruction, SubmitRejected(i) PROVE TypeOK'
  BY <1>3 DEF SubmitRejected, session
<1>4. ASSUME NEW i \in Instruction, EndParallel(i) PROVE TypeOK'
  BY <1>4, ParallelAssumption DEF EndParallel, history
<1>5. ASSUME NEW l \in Loop, Take(l) PROVE TypeOK'
  <2>1. Head(queue) \in Instruction /\ Tail(queue) \in Seq(Instruction)
        /\ Len(Tail(queue)) <= MaxDepth
    BY <1>5, DepthAssumption DEF Take
  <2> QED
    BY <1>5, <2>1 DEF Take
<1>6. ASSUME NEW l \in Loop, IdleTimeout(l) PROVE TypeOK'
  BY <1>6 DEF IdleTimeout, Leaving, history
<1>7. ASSUME NEW l \in Loop, End(l) PROVE TypeOK'
  BY <1>7 DEF End, Off
<1>8. ASSUME NEW l \in Loop, Finish(l) PROVE TypeOK'
  BY <1>8 DEF Finish, Waiting, history
<1>9. ASSUME Collect PROVE TypeOK'
  <2>1. queue' \in Seq(Instruction) /\ Len(queue') <= MaxDepth
    BY <1>9, DepthAssumption DEF Collect
  <2>2. missed' \in BOOLEAN
    BY <1>9 DEF Collect
  <2> QED
    BY <1>9, <2>1, <2>2 DEF Collect
<1>10. ASSUME UNCHANGED vars PROVE TypeOK'
  BY <1>10 DEF vars, session, history
<1> QED
  BY <1>1, <1>2, <1>3, <1>4, <1>5, <1>6, <1>7, <1>8, <1>9, <1>10
     DEF Next, Submit, LoopStep, Leave, Cancelled

LEMMA InitTypes == Init => TypeOK
<1>1. Off \in [pc: LoopPc, inst: Instruction \cup {NoInstruction}]
  BY DEF Off, LoopPc
<1>2. <<>> \in Seq(Instruction) /\ Len(<<>>) <= MaxDepth
  BY DepthAssumption
<1>3. 0 \in 0..MaxParallel
  BY ParallelAssumption
<1> SUFFICES ASSUME Init PROVE TypeOK
  OBVIOUS
<1>4. loop \in [Loop -> [pc: LoopPc, inst: Instruction \cup {NoInstruction}]]
  BY <1>1 DEF Init
<1>5. told \in [Instruction -> {"none", "queued", "parallel", "rejected"}]
  BY DEF Init
<1>6. /\ queue \in Seq(Instruction) /\ Len(queue) <= MaxDepth
      /\ accepted \in Seq(Instruction) /\ begun \in Seq(Instruction)
  BY <1>2 DEF Init
<1>7. mode \in {"SERIAL", "PARALLEL"} /\ task \in Loop \cup {NoLoop}
      /\ active \in 0..MaxParallel /\ parallel \in SUBSET Instruction
      /\ missed \in BOOLEAN
  BY <1>3 DEF Init
<1> QED
  BY <1>4, <1>5, <1>6, <1>7 DEF TypeOK

(* The variables of SessionQueue keep their types, for any instructions,   *)
(* workers, depth of the queue and number of parallel tasks.               *)
THEOREM QueueTypes == Spec => []TypeOK
  BY InitTypes, StepTypes, PTL DEF Spec

-----------------------------------------------------------------------------
(* Instructions wait without a worker only when the last worker ended and  *)
(* left them: an enqueue always leaves a worker behind.                    *)
THEOREM QueueServed == Spec => []Served
<1>1. Init => Served
  BY DEF Init, Served
<1>2. TypeOK /\ Served /\ [Next]_vars => Served'
  <2> SUFFICES ASSUME TypeOK, Served, [Next]_vars PROVE Served'
    OBVIOUS
  <2> USE DEF Served
  <2>1. ASSUME NEW i \in Instruction, Submit(i) PROVE Served'
    <3>1. CASE SubmitQueued(i)
      <4>1. CASE task # NoLoop /\ loop[task].pc # "off"
        BY <3>1, <4>1 DEF SubmitQueued, StartWorker, TypeOK
      <4>2. CASE ~(task # NoLoop /\ loop[task].pc # "off")
        <5>1. PICK l \in Loop : loop' = [loop EXCEPT ![l] = Waiting]
          BY <3>1, <4>2 DEF SubmitQueued, StartWorker
        <5>2. loop'[l].pc = "waiting"
          BY <5>1 DEF TypeOK, Waiting
        <5> QED
          BY <5>2
      <4> QED
        BY <4>1, <4>2
    <3>2. CASE SubmitParallel(i)
      BY <3>2 DEF SubmitParallel
    <3>3. CASE SubmitRejected(i)
      BY <3>3 DEF SubmitRejected, session
    <3> QED
      BY <2>1, <3>1, <3>2, <3>3 DEF Submit
  <2>2. ASSUME NEW i \in Instruction, EndParallel(i) PROVE Served'
    BY <2>2 DEF EndParallel, history
  <2>3. ASSUME NEW l \in Loop, Take(l) PROVE Served'
    BY <2>3 DEF Take, TypeOK
  <2>4. ASSUME NEW l \in Loop, IdleTimeout(l) PROVE Served'
    BY <2>4 DEF IdleTimeout, Leaving, TypeOK
  <2>5. ASSUME NEW l \in Loop, End(l) PROVE Served'
    BY <2>5 DEF End
  <2>6. ASSUME NEW l \in Loop, Finish(l) PROVE Served'
    BY <2>6 DEF Finish, Waiting, TypeOK
  <2>7. ASSUME Collect PROVE Served'
    BY <2>7 DEF Collect
  <2>8. ASSUME UNCHANGED vars PROVE Served'
    BY <2>8 DEF vars, session, history
  <2> QED
    BY <2>1, <2>2, <2>3, <2>4, <2>5, <2>6, <2>7, <2>8
       DEF Next, LoopStep, Leave, Cancelled
<1> QED
  BY <1>1, <1>2, QueueTypes, PTL DEF Spec

-----------------------------------------------------------------------------
LEMMA StepOneWorker == TypeOK /\ OneWorker /\ [Next]_vars => OneWorker'
<1> SUFFICES ASSUME TypeOK, OneWorker, [Next]_vars PROVE OneWorker'
  OBVIOUS
<1> USE DEF TypeOK, OneWorker
<1>1. ASSUME NEW i \in Instruction, SubmitQueued(i) PROVE OneWorker'
  <2>1. CASE task # NoLoop /\ loop[task].pc # "off"
    BY <1>1, <2>1 DEF SubmitQueued, StartWorker
  <2>2. CASE ~(task # NoLoop /\ loop[task].pc # "off")
    <3>1. \A l \in Loop : loop[l].pc = "off"
      BY <2>2, NoneAssumption
    <3> QED
      BY <1>1, <2>2, <3>1 DEF SubmitQueued, StartWorker, Waiting
  <2> QED
    BY <2>1, <2>2
<1>2. ASSUME NEW i \in Instruction, SubmitParallel(i) \/ SubmitRejected(i) \/ EndParallel(i)
      PROVE OneWorker'
  BY <1>2 DEF SubmitParallel, SubmitRejected, EndParallel, session, history
<1>3. ASSUME NEW l \in Loop, Take(l) PROVE OneWorker'
  BY <1>3 DEF Take
<1>4. ASSUME NEW l \in Loop, IdleTimeout(l) PROVE OneWorker'
  BY <1>4 DEF IdleTimeout, Leaving
<1>5. ASSUME NEW l \in Loop, End(l) PROVE OneWorker'
  BY <1>5 DEF End, Off
<1>6. ASSUME NEW l \in Loop, Finish(l) PROVE OneWorker'
  BY <1>6 DEF Finish, Waiting
<1>7. ASSUME Collect PROVE OneWorker'
  BY <1>7 DEF Collect
<1>8. ASSUME UNCHANGED vars PROVE OneWorker'
  BY <1>8 DEF vars, session
<1> QED
  BY <1>1, <1>2, <1>3, <1>4, <1>5, <1>6, <1>7, <1>8
     DEF Next, Submit, LoopStep, Leave, Cancelled

LEMMA StepCounted == TypeOK /\ Counted /\ [Next]_vars => Counted'
<1> SUFFICES ASSUME TypeOK, Counted, [Next]_vars PROVE Counted'
  OBVIOUS
<1> USE DEF TypeOK, Counted
<1>1. ASSUME NEW i \in Instruction, SubmitParallel(i) PROVE Counted'
  <2>1. i \notin parallel
    BY <1>1 DEF SubmitParallel
  <2>2. IsFiniteSet(parallel') /\ Cardinality(parallel') = active'
    BY <1>1, <2>1, FS_AddElement DEF SubmitParallel
  <2> QED
    BY <1>1, <2>2 DEF SubmitParallel, Room
<1>2. ASSUME NEW i \in Instruction, SubmitQueued(i) PROVE Counted'
  BY <1>2 DEF SubmitQueued
<1>3. ASSUME NEW i \in Instruction, SubmitRejected(i) PROVE Counted'
  BY <1>3 DEF SubmitRejected, session
<1>4. ASSUME NEW i \in Instruction, EndParallel(i) PROVE Counted'
  <2>1. IsFiniteSet(parallel') /\ Cardinality(parallel') = active - 1
    BY <1>4, FS_RemoveElement DEF EndParallel
  <2>2. active # 0
    BY <1>4, FS_EmptySet DEF EndParallel
  <2>3. active' = active - 1 /\ mode' = mode /\ told' = told /\ mode # "SERIAL"
    BY <1>4, <2>2 DEF EndParallel, history
  <2> QED
    BY <1>4, <2>1, <2>3 DEF EndParallel
<1>5. ASSUME UNCHANGED <<mode, active, parallel, told>> PROVE Counted'
  BY <1>5
<1> QED
  BY <1>1, <1>2, <1>3, <1>4, <1>5
     DEF Next, Submit, LoopStep, Leave, Cancelled, Take, IdleTimeout, End, Finish,
         Collect, vars, session, history

LEMMA Bounded == TypeOK /\ QueueInv => Concurrency
<1> SUFFICES ASSUME TypeOK, QueueInv PROVE Concurrency
  OBVIOUS
<1>1. Busy \subseteq {task}
  BY DEF Busy, QueueInv, OneWorker
<1>2. IsFiniteSet(Busy) /\ Cardinality(Busy) \in Nat /\ Cardinality(Busy) <= 1
  <2>1. IsFiniteSet({task}) /\ Cardinality({task}) = 1
    BY FS_Singleton
  <2>2. IsFiniteSet(Busy) /\ Cardinality(Busy) <= Cardinality({task})
    BY <1>1, <2>1, FS_Subset
  <2> QED
    BY <2>1, <2>2, FS_CardinalityType
<1>3. /\ Cardinality(parallel) \in 0..MaxParallel
      /\ mode = "SERIAL" => Cardinality(parallel) = 0
  BY DEF QueueInv, Counted, TypeOK
<1> QED
  BY <1>2, <1>3, ParallelAssumption DEF Concurrency

LEMMA QueueInvInit == Init => QueueInv
  BY FS_EmptySet DEF Init, QueueInv, OneWorker, Counted, Off

LEMMA QueueInvStep == TypeOK /\ QueueInv /\ [Next]_vars => QueueInv'
  BY StepOneWorker, StepCounted DEF QueueInv

(* In SERIAL mode one instruction of a session is executed at a time, in   *)
(* PARALLEL mode at most MaxParallel + 1, whatever ends or is collected.   *)
THEOREM QueueConcurrency == Spec => []Concurrency
  BY QueueInvInit, QueueInvStep, Bounded, QueueTypes, PTL DEF Spec

-----------------------------------------------------------------------------
(* The order of acceptance, and what keeps it: everything begun was        *)
(* accepted before everything that is queued, and the queue is in order.   *)
Known(acc, a) == \E m \in DOMAIN acc : acc[m] = a

Before(acc, a, b) ==
  \E m, n \in DOMAIN acc : m < n /\ acc[m] = a /\ acc[n] = b

Ordered ==
  /\ \A j \in DOMAIN begun : Known(accepted, begun[j])
  /\ \A k \in DOMAIN queue : Known(accepted, queue[k])
  /\ \A j, k \in DOMAIN begun : j < k => Before(accepted, begun[j], begun[k])
  /\ \A j \in DOMAIN begun, k \in DOMAIN queue : Before(accepted, begun[j], queue[k])
  /\ \A j, k \in DOMAIN queue : j < k => Before(accepted, queue[j], queue[k])

LEMMA AcceptedGrows ==
  ASSUME NEW acc \in Seq(Instruction), NEW i \in Instruction
  PROVE  /\ Known(Append(acc, i), i)
         /\ \A a : Known(acc, a) =>
                  Known(Append(acc, i), a) /\ Before(Append(acc, i), a, i)
         /\ \A a, b : Before(acc, a, b) => Before(Append(acc, i), a, b)
<1>1. /\ DOMAIN acc = 1..Len(acc) /\ Len(acc) \in Nat
      /\ DOMAIN Append(acc, i) = 1..(Len(acc) + 1)
      /\ \A m \in DOMAIN acc : Append(acc, i)[m] = acc[m]
      /\ Append(acc, i)[Len(acc) + 1] = i
  OBVIOUS
<1> QED
  BY <1>1 DEF Known, Before

LEMMA StepOrdered == TypeOK /\ Ordered /\ [Next]_vars => Ordered'
<1> SUFFICES ASSUME TypeOK, Ordered, [Next]_vars PROVE Ordered'
  OBVIOUS
<1>1. ASSUME NEW i \in Instruction, SubmitQueued(i) PROVE Ordered'
  <2>1. accepted' = Append(accepted, i) /\ queue' = Append(queue, i) /\ begun' = begun
    BY <1>1 DEF SubmitQueued
  <2>2. /\ Known(accepted', i)
        /\ \A a : Known(accepted, a) => Known(accepted', a) /\ Before(accepted', a, i)
        /\ \A a, b : Before(accepted, a, b) => Before(accepted', a, b)
    BY <2>1, AcceptedGrows DEF TypeOK
  <2>3. /\ DOMAIN queue = 1..Len(queue) /\ Len(queue) \in Nat
        /\ DOMAIN queue' = 1..(Len(queue) + 1)
        /\ \A k \in DOMAIN queue : queue'[k] = queue[k]
        /\ queue'[Len(queue) + 1] = i
    BY <2>1 DEF TypeOK
  <2>4. \A k \in DOMAIN queue' : k \in DOMAIN queue \/ k = Len(queue) + 1
    BY <2>3
  <2>5. \A j \in DOMAIN begun' : Known(accepted', begun'[j])
    BY <2>1, <2>2 DEF Ordered
  <2>6. \A k \in DOMAIN queue' : Known(accepted', queue'[k])
    BY <2>2, <2>3, <2>4 DEF Ordered
  <2>7. \A j, k \in DOMAIN begun' : j < k => Before(accepted', begun'[j], begun'[k])
    BY <2>1, <2>2 DEF Ordered
  <2>8. \A j \in DOMAIN begun', k \in DOMAIN queue' : Before(accepted', begun'[j], queue'[k])
    BY <2>1, <2>2, <2>3, <2>4 DEF Ordered
  <2>9. \A j, k \in DOMAIN queue' : j < k => Before(accepted', queue'[j], queue'[k])
    BY <2>2, <2>3, <2>4 DEF Ordered
  <2> QED
    BY <2>5, <2>6, <2>7, <2>8, <2>9 DEF Ordered
<1>2. ASSUME NEW l \in Loop, Take(l) PROVE Ordered'
  <2>1. /\ queue # <<>> /\ accepted' = accepted
        /\ begun' = Append(begun, Head(queue)) /\ queue' = Tail(queue)
    BY <1>2 DEF Take
  <2>2. /\ DOMAIN begun = 1..Len(begun) /\ Len(begun) \in Nat
        /\ DOMAIN begun' = 1..(Len(begun) + 1)
        /\ \A j \in DOMAIN begun : begun'[j] = begun[j]
        /\ begun'[Len(begun) + 1] = queue[1]
    BY <2>1 DEF TypeOK
  <2>3. /\ 1 \in DOMAIN queue
        /\ \A k \in DOMAIN queue' : /\ k + 1 \in DOMAIN queue /\ 1 < k + 1
                                    /\ k \in Nat
                                    /\ queue'[k] = queue[k + 1]
    BY <2>1 DEF TypeOK
  <2>5. \A j \in DOMAIN begun' : Known(accepted, begun'[j])
    BY <2>2, <2>3 DEF Ordered
  <2>6. \A k \in DOMAIN queue' : Known(accepted, queue'[k])
    BY <2>3 DEF Ordered
  <2>7. ASSUME NEW j \in DOMAIN begun', NEW k \in DOMAIN begun', j < k
        PROVE  Before(accepted, begun'[j], begun'[k])
    <3>1. CASE k \in DOMAIN begun
      <4>1. j \in DOMAIN begun
        BY <2>2, <2>7, <3>1
      <4> QED
        BY <2>2, <2>7, <3>1, <4>1 DEF Ordered
    <3>2. CASE k = Len(begun) + 1
      <4>1. j \in DOMAIN begun
        BY <2>2, <2>7, <3>2
      <4> QED
        BY <2>2, <2>3, <3>2, <4>1 DEF Ordered
    <3> QED
      BY <2>2, <3>1, <3>2
  <2>8. ASSUME NEW j \in DOMAIN begun', NEW k \in DOMAIN queue'
        PROVE  Before(accepted, begun'[j], queue'[k])
    <3>1. CASE j \in DOMAIN begun
      BY <2>2, <2>3, <3>1 DEF Ordered
    <3>2. CASE j = Len(begun) + 1
      BY <2>2, <2>3, <3>2 DEF Ordered
    <3> QED
      BY <2>2, <3>1, <3>2
  <2>9. \A j, k \in DOMAIN queue' : j < k => Before(accepted, queue'[j], queue'[k])
    BY <2>3 DEF Ordered
  <2> QED
    BY <2>1, <2>5, <2>6, <2>7, <2>8, <2>9 DEF Ordered
<1>3. ASSUME Collect PROVE Ordered'
  BY <1>3 DEF Collect, Ordered
<1>4. ASSUME UNCHANGED <<queue, accepted, begun>> PROVE Ordered'
  BY <1>4 DEF Ordered
<1> QED
  BY <1>1, <1>2, <1>3, <1>4
     DEF Next, Submit, SubmitParallel, SubmitRejected, EndParallel, LoopStep, Leave,
         Cancelled, IdleTimeout, End, Finish, vars, session, history

(* Workers execute instructions in the order in which these were accepted, *)
(* whatever workers end and session objects are collected in between.      *)
THEOREM QueueFifo == Spec => []Fifo
<1>1. Init => Ordered
  BY DEF Init, Ordered
<1>2. Ordered => Fifo
  BY DEF Ordered, Before, Fifo
<1> QED
  BY <1>1, <1>2, StepOrdered, QueueTypes, PTL DEF Spec
=============================================================================
