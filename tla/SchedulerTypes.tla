--------------------------- MODULE SchedulerTypes ---------------------------
(***************************************************************************)
(* Proofs about Scheduler, for every number of vcpus and every set of      *)
(* tasks: what each vcpu's own variables say of each other at each program *)
(* counter, and from it that every variable keeps its type.  Each action   *)
(* has a lemma: the types, what the step leaves of the other vcpus, what   *)
(* it does to its own, and so Local of the vcpu that takes it.             *)
(***************************************************************************)
EXTENDS Scheduler, SchedulerInv, TLAPS

-----------------------------------------------------------------------------
(* The callers of GetNext and where it returns to. *)
LEMMA AfterSomeType ==
    \A l \in {"Wait", "WaitFn", "Process1", "Process2", "MaskSet"} :
        AfterSome[l] \in SomePcs
  BY DEF AfterSome, SomePcs

LEMMA AfterNoneType ==
    \A l \in {"Wait", "WaitFn", "Process1", "Process2", "MaskSet"} :
        /\ AfterNone[l] \in NonePcs
        /\ AfterNone[l] = "Search" => l = "Wait"
  BY DEF AfterNone, NonePcs

LEMMA LocalInit == Init => LocalInv
  BY SchedulerAssumption DEF Init, LocalInv, TypeOK, RetNexts, TaskSeq, Local,
     At, NoRet,
     Vcpu, Worker, TaskOrNone, LifeStates, PCs, InScheduleQ, InGetNext,
     Holding,
     MayHold, Callers

(* The vcpus and, vcpu 0 apart, the workers. *)
LEMMA VcpuFacts == 0 \in Vcpu /\ Worker = Vcpu \ {0} /\ Worker \subseteq Vcpu
  BY SchedulerAssumption DEF Vcpu, Worker

LEMMA LocalTypes == LocalInv => LocalTypeOK
  BY Zenon DEF LocalInv, TypeOK, LocalTypeOK

(* So a step keeps LocalInv when it keeps the types and its own vcpu's part. *)
LEMMA OthersLocal ==
    ASSUME LocalInv, NEW v \in Vcpu, TypeOK', Local(v)',
           Frame(v)
    PROVE  LocalInv'
<1>1. ASSUME NEW u \in Vcpu, u # v PROVE Local(u)'
  BY ONLY <1>1, LocalInv, Frame(v) DEF LocalInv, Local, Frame, Same, At
<1> QED BY Zenon, <1>1 DEF LocalInv

(* An updated function keeps its type. *)
LEMMA UpdType ==
    ASSUME NEW S, NEW T, NEW f \in [S -> T], NEW x, NEW y \in T
    PROVE [f EXCEPT ![x] = y] \in [S -> T]
  BY ZenonT(30)

(* The labels, by name: so the sets need not be expanded. *)
LEMMA Elems ==
    /\ "IO" \in PCs /\ "Enqueue" \in PCs /\ "IncReady" \in PCs
    /\ "ReadState" \in PCs /\ "WakeOne" \in PCs /\ "WakeIdle" \in PCs
    /\ "Next" \in PCs /\ "DecNext" \in PCs /\ "LoadReady" \in PCs
    /\ "Steal" \in PCs /\ "DecSteal" \in PCs /\ "Swap" \in PCs
    /\ "SetQueueId" \in PCs /\ "Search" \in PCs /\ "ToRunning" \in PCs
    /\ "Switch" \in PCs /\ "Run" \in PCs /\ "SwitchToWait" \in PCs
    /\ "Wait" \in PCs /\ "Free" \in PCs /\ "Inputs" \in PCs
    /\ "VcpuWait" \in PCs /\ "Input1" \in PCs /\ "Input2" \in PCs
    /\ "ToWaiting" \in PCs /\ "MaskSet" \in PCs /\ "EpollWait" \in PCs
    /\ "ToSearch" \in PCs /\ "MaskClear" \in PCs
    /\ "Wait" \in RetNexts /\ "WaitFn" \in RetNexts /\ "Process1" \in RetNexts
    /\ "Process2" \in RetNexts /\ "MaskSet" \in RetNexts /\ NoRet \in RetNexts
    /\ "Running" \in LifeStates /\ "Waiting" \in LifeStates
    /\ "Dead" \in LifeStates /\ "Free" \in LifeStates
  BY Zenon DEF PCs, RetNexts, LifeStates

(* The rotation of TaskQueue::Steal is a sequence of tasks. *)
LEMMA SubSeqType ==
    ASSUME NEW T, NEW s \in Seq(T), NEW i \in 1 .. Len(s)
    PROVE  SubSeq(s, i + 1, Len(s)) \o SubSeq(s, 1, i - 1) \in Seq(T)
  OBVIOUS

(* The remainder is in range. *)
LEMMA ModRange ==
    ASSUME NEW a \in Nat, NEW n \in Nat, n > 0
    PROVE  a % n \in 0 .. n - 1
  OBVIOUS

(* Steal looks at a queue. *)
LEMMA VictimType ==
    ASSUME LocalInv, NEW v \in Vcpu
    PROVE  Victim(v, idx[v]) \in Vcpu
<1>0. idx[v] \in Vcpu
  BY Zenon DEF LocalInv, TypeOK
<1>1. idx[v] + v \in Nat /\ vcpuCnt \in Nat /\ vcpuCnt > 0
  BY ONLY <1>0, v \in Vcpu, SchedulerAssumption DEF Vcpu
<1>2. (idx[v] + v) % vcpuCnt \in 0 .. vcpuCnt - 1
  BY ONLY Zenon, <1>1, ModRange
<1> QED BY Zenon, <1>0, <1>2, VcpuFacts DEF Victim, Vcpu

(* Steal leaves sequences in the queues, and takes a task. *)
LEMMA StealType ==
    ASSUME LocalInv, NEW v \in Vcpu, Steal(v)
    PROVE  /\ queue' \in [Vcpu -> TaskSeq]
           /\ idx' \in [Vcpu -> Vcpu]
           /\ StealFrom(v, Victim(v, idx[v])) =>
                  \E t \in Task : next' = [next EXCEPT ![v] = t]
<1> DEFINE q == Victim(v, idx[v])
<1>0. q \in Vcpu /\ idx[v] \in Vcpu
  BY Zenon, VictimType DEF LocalInv, TypeOK
<1>1. ASSUME ~StealFrom(v, q) PROVE queue' \in [Vcpu -> TaskSeq]
  BY Zenon, <1>1 DEF LocalInv, TypeOK, Steal
<1>2. ASSUME StealFrom(v, q)
      PROVE  /\ queue' \in [Vcpu -> TaskSeq]
             /\ \E t \in Task : next' = [next EXCEPT ![v] = t]
  <2>1. PICK i \in 1 .. Len(queue[q]) :
           /\ next' = [next EXCEPT ![v] = queue[q][i]]
           /\ queue' = [queue EXCEPT ![q] = SubSeq(queue[q], i + 1,
               Len(queue[q]))
                                              \o SubSeq(queue[q], 1, i - 1)]
    BY ZenonT(30), <1>2 DEF StealFrom
  <2>2. queue[q] \in Seq(Task)
    BY Zenon, <1>0 DEF LocalInv, TypeOK, TaskSeq
  <2>3. queue[q][i] \in Task
    BY <2>2
  <2>4. SubSeq(queue[q], i + 1, Len(queue[q])) \o SubSeq(queue[q], 1,
            i - 1) \in TaskSeq
    BY ONLY Zenon, <2>2, SubSeqType, i \in 1 .. Len(queue[q]) DEF TaskSeq
  <2>5. queue' \in [Vcpu -> TaskSeq]
    BY Zenon, <2>1, <2>4, UpdType DEF LocalInv, TypeOK
  <2> QED BY ZenonT(30), <2>1, <2>3, <2>5
<1>3. idx' = idx \/ idx' = [idx EXCEPT ![v] = 0]
      \/ (idx[v] < vcpuCnt - 1 /\ idx' = [idx EXCEPT ![v] = idx[v] + 1])
  BY Zenon DEF Steal
<1>4. 0 \in Vcpu /\ (idx[v] < vcpuCnt - 1 => idx[v] + 1 \in Vcpu)
  BY ONLY <1>0, SchedulerAssumption, VcpuFacts DEF Vcpu
<1>5. idx' \in [Vcpu -> Vcpu]
  BY ZenonT(40), <1>3, <1>4 DEF LocalInv, TypeOK
<1> QED BY Zenon, <1>1, <1>2, <1>5

(* GetNext has a caller while it runs. *)
LEMMA RetNextType ==
    ASSUME LocalInv, NEW v \in Vcpu, pc[v] \in InGetNext
    PROVE  retNext[v] \in {"Wait", "WaitFn", "Process1", "Process2", "MaskSet"}
  BY Zenon DEF LocalInv, Local, TypeOK, RetNexts, At, InGetNext,
     InScheduleQ

LEMMA EnqueueLocal ==
    ASSUME LocalInv, NEW v \in Vcpu, Enqueue(v)
    PROVE  /\ LocalInv' /\ Frame(v)
           /\ pc[v] = "Enqueue" /\ pc'[v] \in {"ReadState", "IncReady"}
           /\ task'[v] = NoTask /\ ret'[v] = ret[v]
           /\ workingTaskReady'[v] =>
                  workingTaskReady[v] \/ workingTask[v] # NoTask
           /\ UNCHANGED <<retNext, next, currentTask, pendingFreeStack,
                          workingTask>>
<1> USE DEF Enqueue, Goto, queueVars, wakeVars, taskVars, cpuVars, getVars,
   argVars
<1>0. v \in Vcpu /\ 0 \in Vcpu /\ Local(v) /\ LocalTypeOK
  BY Zenon, VcpuFacts, LocalTypes DEF LocalInv
<1>a. task[v] \in Task /\ vcpuId[v] \in Vcpu
  BY Zenon, <1>0 DEF LocalInv, TypeOK, Local, TaskOrNone
<1>b. Append(queue[vcpuId[v]], task[v]) \in TaskSeq
  BY <1>a DEF LocalInv, TypeOK, TaskSeq
<1>c. queue' \in [Vcpu -> TaskSeq]
  BY ZenonT(30), <1>a, <1>b DEF LocalInv, TypeOK
<1>1. TypeOK'
  <2>1. queue' \in [Vcpu -> TaskSeq]
    <3>1. queue \in [Vcpu -> TaskSeq]
      BY Zenon DEF LocalInv, TypeOK
    <3> QED BY Zenon, <1>0, <1>a, <1>b, <1>c, <3>1
  <2>2. workingTaskReady' \in [Vcpu -> BOOLEAN]
    <3>1. workingTaskReady \in [Vcpu -> BOOLEAN]
      BY Zenon DEF LocalInv, TypeOK
    <3> QED BY ZenonT(30), <1>0, <1>a, <1>b, <1>c, <3>1
  <2>3. pc' \in [Vcpu -> PCs]
    <3>1. pc \in [Vcpu -> PCs]
      BY Zenon DEF LocalInv, TypeOK
    <3> QED BY Zenon, <1>0, <1>a, <1>b, <1>c, <3>1, Elems
  <2>4. task' \in [Vcpu -> TaskOrNone]
    <3>1. task \in [Vcpu -> TaskOrNone]
      BY Zenon DEF LocalInv, TypeOK
    <3> QED BY Zenon, <1>0, <1>a, <1>b, <1>c, <3>1 DEF TaskOrNone
  <2>5. cpuAff' \in [Vcpu -> BOOLEAN]
    <3>1. cpuAff \in [Vcpu -> BOOLEAN]
      BY Zenon DEF LocalInv, TypeOK
    <3> QED BY Zenon, <1>0, <1>a, <1>b, <1>c, <3>1
  <2>u. UNCHANGED <<workingTask, readyTaskCnt, vcpuWaitMask, state, eventfd,
                    ready, queueId, life, QInput, currentTask,
                    pendingFreeStack, next, retNext, vcpuId, ret, idx>>
    BY Zenon
  <2> QED BY ONLY Zenon, <2>1, <2>2, <2>3, <2>4, <2>5, <2>u, LocalInv
             DEF LocalInv,
     TypeOK
<1>2. Frame(v)
  BY ZenonT(40), <1>0, <1>a, SchedulerAssumption DEF LocalTypeOK, Same, Frame
<1>3. /\ pc[v] = "Enqueue" /\ pc'[v] \in {"ReadState", "IncReady"}
      /\ task'[v] = NoTask /\ ret'[v] = ret[v]
      /\ workingTaskReady'[v] =>
                  workingTaskReady[v] \/ workingTask[v] # NoTask
      /\ UNCHANGED <<retNext, next, currentTask, pendingFreeStack, workingTask>>
  BY ZenonT(40), <1>0, <1>a, <1>b, <1>c, SchedulerAssumption DEF LocalTypeOK,
     TaskOrNone
<1>4. Local(v)'
  BY ONLY ZenonT(40), <1>0, <1>3, VcpuFacts, SchedulerAssumption,
     LocalInv DEF Local, At,
     InScheduleQ, InGetNext, Holding, MayHold, Callers, NoRet, SomePcs, NonePcs
<1>5. LocalInv'
  BY ONLY Zenon, <1>0, <1>1, <1>2, <1>4, LocalInv, OthersLocal
<1> QED
  BY ONLY Zenon, <1>2, <1>3, <1>5

LEMMA IncReadyTaskCountLocal ==
    ASSUME LocalInv, NEW v \in Vcpu, IncReadyTaskCount(v)
    PROVE  /\ LocalInv' /\ Frame(v)
           /\ pc[v] = "IncReady" /\ pc'[v] = "ReadState"
           /\ UNCHANGED <<task, ret, retNext, next, currentTask,
                          pendingFreeStack, workingTask, workingTaskReady>>
<1> USE DEF IncReadyTaskCount, Goto, queueVars, wakeVars, taskVars, cpuVars,
   getVars, argVars
<1>0. v \in Vcpu /\ 0 \in Vcpu /\ Local(v) /\ LocalTypeOK
  BY Zenon, VcpuFacts, LocalTypes DEF LocalInv
<1>1. TypeOK'
  BY <1>0, Elems DEF LocalInv, TypeOK, TaskOrNone
<1>2. Frame(v)
  BY Zenon, <1>0 DEF LocalTypeOK, Same, Frame
<1>3. /\ pc[v] = "IncReady" /\ pc'[v] = "ReadState"
      /\ UNCHANGED <<task, ret, retNext, next, currentTask, pendingFreeStack,
                     workingTask, workingTaskReady>>
  BY Zenon, <1>0 DEF LocalTypeOK, TaskOrNone
<1>4. Local(v)'
  BY ONLY <1>0, <1>3, VcpuFacts, SchedulerAssumption,
     LocalInv DEF Local, At,
     InScheduleQ, InGetNext, Holding, MayHold, Callers, NoRet, SomePcs, NonePcs
<1>5. LocalInv'
  BY ONLY <1>0, <1>1, <1>2, <1>4, LocalInv, OthersLocal
<1> QED
  BY ONLY Zenon, <1>2, <1>3, <1>5

LEMMA ReadStateLocal ==
    ASSUME LocalInv, NEW v \in Vcpu, ReadState(v)
    PROVE  /\ LocalInv' /\ Frame(v)
           /\ pc[v] = "ReadState"
           /\ \/ /\ pc'[v] = "WakeOne" /\ UNCHANGED ret
              \/ /\ pc'[v] = ret[v]
           /\ UNCHANGED <<task, retNext, next, currentTask, pendingFreeStack,
                          workingTask, workingTaskReady>>
<1> USE DEF ReadState, Goto, WakeNext, Wakeup, ReturnScheduleQ, queueVars,
   wakeVars, taskVars, cpuVars, getVars, argVars
<1>0. v \in Vcpu /\ 0 \in Vcpu /\ Local(v) /\ LocalTypeOK
  BY Zenon, VcpuFacts, LocalTypes DEF LocalInv
<1>a. ret[v] \in PCs /\ vcpuWaitMask \subseteq Vcpu /\ 0 \in Vcpu
  BY Zenon, <1>0, VcpuFacts DEF LocalInv, TypeOK, Local, InScheduleQ,
     Callers, PCs
<1>1. TypeOK'
  <2>1. pc' \in [Vcpu -> PCs]
    <3>1. pc \in [Vcpu -> PCs]
      BY Zenon DEF LocalInv, TypeOK
    <3> QED BY Zenon, <1>0, <1>a, <3>1, Elems
  <2>2. eventfd' \in [Vcpu -> BOOLEAN]
    <3>1. eventfd \in [Vcpu -> BOOLEAN]
      BY Zenon DEF LocalInv, TypeOK
    <3> QED BY ZenonT(30), <1>0, <1>a, <3>1
  <2>3. vcpuId' \in [Vcpu -> Vcpu]
    <3>1. vcpuId \in [Vcpu -> Vcpu] /\ queueId \in [Task -> Vcpu]
      BY Zenon DEF LocalInv, TypeOK
    <3> QED BY Zenon, <1>0, <1>a, <3>1
  <2>4. ret' \in [Vcpu -> PCs \cup {NoRet}]
    <3>1. ret \in [Vcpu -> PCs \cup {NoRet}]
      BY Zenon DEF LocalInv, TypeOK
    <3> QED BY Zenon, <1>0, <1>a, <3>1, Elems
  <2>u. UNCHANGED <<queue, workingTask, workingTaskReady, readyTaskCnt,
                    vcpuWaitMask, state, ready, queueId, life, QInput,
                    currentTask, pendingFreeStack, next, retNext, task, cpuAff,
                    idx>>
    BY Zenon
  <2> QED BY ONLY Zenon, <2>1, <2>2, <2>3, <2>4, <2>u, LocalInv DEF LocalInv,
             TypeOK
<1>2. Frame(v)
  BY Zenon, <1>0 DEF LocalTypeOK, Same, Frame
<1>3. /\ pc[v] = "ReadState"
      /\ \/ /\ pc'[v] = "WakeOne" /\ UNCHANGED ret
         \/ /\ pc'[v] = ret[v]
      /\ UNCHANGED <<task, retNext, next, currentTask, pendingFreeStack,
                     workingTask, workingTaskReady>>
  BY Zenon, <1>0, <1>a DEF LocalTypeOK, TaskOrNone
<1>4. Local(v)'
  BY ONLY ZenonT(40), <1>0, <1>3, VcpuFacts, SchedulerAssumption,
     LocalInv DEF Local, At,
     InScheduleQ, InGetNext, Holding, MayHold, Callers, NoRet, SomePcs, NonePcs
<1>5. LocalInv'
  BY ONLY <1>0, <1>1, <1>2, <1>4, LocalInv, OthersLocal
<1> QED
  BY ONLY Zenon, <1>2, <1>3, <1>5

LEMMA WakeOneLocal ==
    ASSUME LocalInv, NEW v \in Vcpu, WakeOne(v)
    PROVE  /\ LocalInv' /\ Frame(v)
           /\ pc[v] = "WakeOne"
           /\ \/ /\ pc'[v] = "WakeIdle" /\ UNCHANGED ret
              \/ /\ pc'[v] = ret[v]
           /\ UNCHANGED <<task, retNext, next, currentTask, pendingFreeStack,
                          workingTask, workingTaskReady>>
<1> USE DEF WakeOne, Goto, WakeNext, ReturnScheduleQ, queueVars, wakeVars,
   taskVars, cpuVars, getVars, argVars
<1>0. v \in Vcpu /\ 0 \in Vcpu /\ Local(v) /\ LocalTypeOK
  BY Zenon, VcpuFacts, LocalTypes DEF LocalInv
<1>a. ret[v] \in PCs /\ vcpuWaitMask \subseteq Vcpu /\ 0 \in Vcpu
  BY Zenon, <1>0, VcpuFacts DEF LocalInv, TypeOK, Local, InScheduleQ,
     Callers, PCs
<1>1. TypeOK'
  <2>1. pc' \in [Vcpu -> PCs]
    <3>1. pc \in [Vcpu -> PCs]
      BY Zenon DEF LocalInv, TypeOK
    <3> QED BY ZenonT(30), <1>0, <1>a, <3>1, Elems
  <2>2. vcpuId' \in [Vcpu -> Vcpu]
    <3>1. vcpuId \in [Vcpu -> Vcpu] /\ queueId \in [Task -> Vcpu]
      BY Zenon DEF LocalInv, TypeOK
    <3> QED BY Zenon, <1>0, <1>a, <3>1
  <2>3. ret' \in [Vcpu -> PCs \cup {NoRet}]
    <3>1. ret \in [Vcpu -> PCs \cup {NoRet}]
      BY Zenon DEF LocalInv, TypeOK
    <3> QED BY ZenonT(30), <1>0, <1>a, <3>1, Elems
  <2>u. UNCHANGED <<queue, workingTask, workingTaskReady, readyTaskCnt,
                    vcpuWaitMask, state, eventfd, ready, queueId, life, QInput,
                    currentTask, pendingFreeStack, next, retNext, task, cpuAff,
                    idx>>
    BY Zenon
  <2> QED BY ONLY Zenon, <2>1, <2>2, <2>3, <2>u, LocalInv
             DEF LocalInv, TypeOK
<1>2. Frame(v)
  BY Zenon, <1>0 DEF LocalTypeOK, Same, Frame
<1>3. /\ pc[v] = "WakeOne"
      /\ \/ /\ pc'[v] = "WakeIdle" /\ UNCHANGED ret
         \/ /\ pc'[v] = ret[v]
      /\ UNCHANGED <<task, retNext, next, currentTask, pendingFreeStack,
                     workingTask, workingTaskReady>>
  BY Zenon, <1>0, <1>a DEF LocalTypeOK, TaskOrNone
<1>4. Local(v)'
  BY ONLY ZenonT(40), <1>0, <1>3, VcpuFacts, SchedulerAssumption,
     LocalInv DEF Local, At,
     InScheduleQ, InGetNext, Holding, MayHold, Callers, NoRet, SomePcs, NonePcs
<1>5. LocalInv'
  BY ONLY <1>0, <1>1, <1>2, <1>4, LocalInv, OthersLocal
<1> QED
  BY ONLY Zenon, <1>2, <1>3, <1>5

LEMMA WakeIdleCPULocal ==
    ASSUME LocalInv, NEW v \in Vcpu, WakeIdleCPU(v)
    PROVE  /\ LocalInv' /\ Frame(v)
           /\ pc[v] = "WakeIdle"
           /\ \/ /\ pc'[v] = "WakeOne" /\ UNCHANGED ret
              \/ /\ pc'[v] = ret[v]
           /\ UNCHANGED <<task, retNext, next, currentTask, pendingFreeStack,
                          workingTask, workingTaskReady>>
<1> USE DEF WakeIdleCPU, Goto, WakeNext, Wakeup, ReturnScheduleQ, queueVars,
   wakeVars, taskVars, cpuVars, getVars, argVars
<1>0. v \in Vcpu /\ 0 \in Vcpu /\ Local(v) /\ LocalTypeOK
  BY Zenon, VcpuFacts, LocalTypes DEF LocalInv
<1>a. ret[v] \in PCs /\ vcpuWaitMask \subseteq Vcpu /\ 0 \in Vcpu
  BY Zenon, <1>0, VcpuFacts DEF LocalInv, TypeOK, Local, InScheduleQ,
     Callers, PCs
<1>1. TypeOK'
  <2>1. vcpuWaitMask' \in SUBSET Worker
    <3>1. vcpuWaitMask \in SUBSET Worker
      BY Zenon DEF LocalInv, TypeOK
    <3> QED BY Zenon, <1>0, <1>a, <3>1
  <2>2. pc' \in [Vcpu -> PCs]
    <3>1. pc \in [Vcpu -> PCs]
      BY Zenon DEF LocalInv, TypeOK
    <3> QED BY ZenonT(30), <1>0, <1>a, <3>1, Elems
  <2>3. eventfd' \in [Vcpu -> BOOLEAN]
    <3>1. eventfd \in [Vcpu -> BOOLEAN]
      BY Zenon DEF LocalInv, TypeOK
    <3> QED BY ZenonT(30), <1>0, <1>a, <3>1
  <2>4. vcpuId' \in [Vcpu -> Vcpu]
    <3>1. vcpuId \in [Vcpu -> Vcpu] /\ queueId \in [Task -> Vcpu]
      BY Zenon DEF LocalInv, TypeOK
    <3> QED BY Zenon, <1>0, <1>a, <3>1
  <2>5. ret' \in [Vcpu -> PCs \cup {NoRet}]
    <3>1. ret \in [Vcpu -> PCs \cup {NoRet}]
      BY Zenon DEF LocalInv, TypeOK
    <3> QED BY ZenonT(30), <1>0, <1>a, <3>1, Elems
  <2>u. UNCHANGED <<queue, workingTask, workingTaskReady, readyTaskCnt, state,
                    ready, queueId, life, QInput, currentTask,
                    pendingFreeStack, next, retNext, task, cpuAff, idx>>
    BY Zenon
  <2> QED BY ONLY Zenon, <2>1, <2>2, <2>3, <2>4, <2>5, <2>u, LocalInv
             DEF LocalInv,
     TypeOK
<1>2. Frame(v)
  BY ZenonT(40), <1>0 DEF LocalTypeOK, Same, Frame
<1>3. /\ pc[v] = "WakeIdle"
      /\ \/ /\ pc'[v] = "WakeOne" /\ UNCHANGED ret
         \/ /\ pc'[v] = ret[v]
      /\ UNCHANGED <<task, retNext, next, currentTask, pendingFreeStack,
                     workingTask, workingTaskReady>>
  BY Zenon, <1>0, <1>a DEF LocalTypeOK, TaskOrNone
<1>4. Local(v)'
  BY ONLY ZenonT(40), <1>0, <1>3, VcpuFacts, SchedulerAssumption,
     LocalInv DEF Local, At,
     InScheduleQ, InGetNext, Holding, MayHold, Callers, NoRet, SomePcs, NonePcs
<1>5. LocalInv'
  BY ONLY <1>0, <1>1, <1>2, <1>4, LocalInv, OthersLocal
<1> QED
  BY ONLY Zenon, <1>2, <1>3, <1>5

LEMMA NextTaskLocal ==
    ASSUME LocalInv, NEW v \in Worker, NextTask(v)
    PROVE  /\ LocalInv' /\ Frame(v)
           /\ pc[v] = "Next"
           /\ \/ /\ workingTaskReady[v] /\ ~workingTaskReady'[v]
                 /\ next'[v] = workingTask[v] /\ pc'[v] \in SomePcs
                 /\ retNext'[v] = NoRet /\ workingTask' = workingTask
              \/ /\ pc'[v] = "DecNext" /\ next'[v] \in Task
                 /\ workingTask'[v] = next'[v]
                 /\ UNCHANGED <<workingTaskReady, retNext>>
              \/ /\ pc'[v] = "LoadReady"
                 /\ UNCHANGED <<next, workingTask, workingTaskReady, retNext>>
           /\ UNCHANGED <<task, ret, currentTask, pendingFreeStack>>
<1> USE DEF NextTask, Goto, GetNextSome, queueVars, wakeVars, taskVars,
   cpuVars, getVars, argVars
<1>0. v \in Vcpu /\ 0 \in Vcpu /\ Local(v) /\ LocalTypeOK
  BY Zenon, VcpuFacts, LocalTypes DEF LocalInv
<1>a. /\ AfterSome[retNext[v]] \in SomePcs
      /\ AfterNone[retNext[v]] \in NonePcs
      /\ AfterNone[retNext[v]] = "Search" => retNext[v] = "Wait"
      /\ AfterSome[retNext[v]] \in PCs /\ AfterNone[retNext[v]] \in PCs
  BY Zenon, <1>0, RetNextType, AfterSomeType, AfterNoneType, Elems
  DEF InGetNext, SomePcs, NonePcs
<1>b. queue[v] # <<>> => Head(queue[v]) \in Task /\ Tail(queue[v]) \in TaskSeq
  BY <1>0 DEF LocalInv, TypeOK, TaskSeq
<1>c. queue' \in [Vcpu -> TaskSeq]
  BY ZenonT(30), <1>0, <1>b DEF LocalInv, TypeOK
<1>1. TypeOK'
  <2>1. queue' \in [Vcpu -> TaskSeq]
    <3>1. queue \in [Vcpu -> TaskSeq]
      BY Zenon DEF LocalInv, TypeOK
    <3> QED BY Zenon, <1>0, <1>a, <1>b, <1>c, <3>1
  <2>2. workingTask' \in [Vcpu -> TaskOrNone]
    <3>1. workingTask \in [Vcpu -> TaskOrNone] /\ next \in [Vcpu -> TaskOrNone]
      BY Zenon DEF LocalInv, TypeOK
    <3> QED BY Zenon, <1>0, <1>a, <1>b, <1>c, <3>1 DEF TaskOrNone
  <2>3. workingTaskReady' \in [Vcpu -> BOOLEAN]
    <3>1. workingTaskReady \in [Vcpu -> BOOLEAN]
      BY Zenon DEF LocalInv, TypeOK
    <3> QED BY ZenonT(30), <1>0, <1>a, <1>b, <1>c, <3>1
  <2>4. next' \in [Vcpu -> TaskOrNone]
    <3>1. next \in [Vcpu -> TaskOrNone] /\ workingTask \in [Vcpu -> TaskOrNone]
      BY Zenon DEF LocalInv, TypeOK
    <3> QED BY Zenon, <1>0, <1>a, <1>b, <1>c, <3>1 DEF TaskOrNone
  <2>5. pc' \in [Vcpu -> PCs]
    <3>1. pc \in [Vcpu -> PCs]
      BY Zenon DEF LocalInv, TypeOK
    <3> QED BY Zenon, <1>0, <1>a, <1>b, <1>c, <3>1, Elems
  <2>6. retNext' \in [Vcpu -> RetNexts]
    <3>1. retNext \in [Vcpu -> RetNexts]
      BY ZenonT(30) DEF LocalInv, TypeOK
    <3> QED BY Zenon, <1>0, <1>a, <1>b, <1>c, <3>1, Elems
  <2>u. UNCHANGED <<readyTaskCnt, vcpuWaitMask, state, eventfd, ready, queueId,
                    life, QInput, currentTask, pendingFreeStack, task, vcpuId,
                    cpuAff, ret, idx>>
    BY Zenon
  <2> QED BY ONLY Zenon, <2>1, <2>2, <2>3, <2>4, <2>5, <2>6, <2>u, LocalInv
     DEF LocalInv, TypeOK
<1>2. Frame(v)
  BY Zenon, <1>0 DEF LocalTypeOK, Same, Frame
<1>3. /\ pc[v] = "Next"
      /\ \/ /\ workingTaskReady[v] /\ ~workingTaskReady'[v]
            /\ next'[v] = workingTask[v] /\ pc'[v] \in SomePcs
            /\ retNext'[v] = NoRet /\ workingTask' = workingTask
         \/ /\ pc'[v] = "DecNext" /\ next'[v] \in Task
            /\ workingTask'[v] = next'[v]
            /\ UNCHANGED <<workingTaskReady, retNext>>
         \/ /\ pc'[v] = "LoadReady"
            /\ UNCHANGED <<next, workingTask, workingTaskReady, retNext>>
      /\ UNCHANGED <<task, ret, currentTask, pendingFreeStack>>
  BY <1>0, <1>a, <1>b, <1>c DEF LocalTypeOK, TaskOrNone
<1>4. Local(v)'
  BY ONLY Zenon, <1>0, <1>3, VcpuFacts, SchedulerAssumption, LocalInv
     DEF Local, At,
     InScheduleQ, InGetNext, Holding, MayHold, Callers, NoRet, SomePcs, NonePcs
<1>5. LocalInv'
  BY ONLY Zenon, <1>0, <1>1, <1>2, <1>4, LocalInv, OthersLocal
<1> QED
  BY ONLY Zenon, <1>2, <1>3, <1>5

LEMMA DecReadyTaskCountLocal ==
    ASSUME LocalInv, NEW v \in Worker, DecReadyTaskCount(v)
    PROVE  /\ LocalInv' /\ Frame(v)
           /\ \/ /\ pc[v] = "DecNext" /\ pc'[v] \in SomePcs
                 /\ retNext'[v] = NoRet
              \/ /\ pc[v] = "DecSteal" /\ pc'[v] = "Swap" /\ UNCHANGED retNext
           /\ UNCHANGED <<task, ret, next, currentTask, pendingFreeStack,
                          workingTask, workingTaskReady>>
<1> USE DEF DecReadyTaskCount, Goto, GetNextSome, queueVars, wakeVars,
   taskVars, cpuVars, getVars, argVars
<1>0. v \in Vcpu /\ 0 \in Vcpu /\ Local(v) /\ LocalTypeOK
  BY ZenonT(40), VcpuFacts, LocalTypes DEF LocalInv
<1>a. /\ AfterSome[retNext[v]] \in SomePcs
      /\ AfterNone[retNext[v]] \in NonePcs
      /\ AfterNone[retNext[v]] = "Search" => retNext[v] = "Wait"
      /\ AfterSome[retNext[v]] \in PCs /\ AfterNone[retNext[v]] \in PCs
  BY ZenonT(30), <1>0, RetNextType, AfterSomeType, AfterNoneType, Elems
  DEF InGetNext, SomePcs, NonePcs
<1>1. TypeOK'
  <2>1. readyTaskCnt' \in Int
    <3>1. readyTaskCnt \in Int
      BY Zenon DEF LocalInv, TypeOK
    <3> QED BY <1>0, <1>a, <3>1
  <2>2. pc' \in [Vcpu -> PCs]
    <3>1. pc \in [Vcpu -> PCs]
      BY ZenonT(30) DEF LocalInv, TypeOK
    <3> QED BY Zenon, <1>0, <1>a, <3>1, Elems
  <2>3. retNext' \in [Vcpu -> RetNexts]
    <3>1. retNext \in [Vcpu -> RetNexts]
      BY ZenonT(30) DEF LocalInv, TypeOK
    <3> QED BY Zenon, <1>0, <1>a, <3>1, Elems
  <2>u. UNCHANGED <<queue, workingTask, workingTaskReady, vcpuWaitMask, state,
                    eventfd, ready, queueId, life, QInput, currentTask,
                    pendingFreeStack, next, task, vcpuId, cpuAff, ret, idx>>
    BY Zenon
  <2> QED BY ONLY Zenon, <2>1, <2>2, <2>3, <2>u, LocalInv DEF LocalInv, TypeOK
<1>2. Frame(v)
  BY Zenon, <1>0 DEF LocalTypeOK, Same, Frame
<1>3. /\ \/ /\ pc[v] = "DecNext" /\ pc'[v] \in SomePcs /\ retNext'[v] = NoRet
         \/ /\ pc[v] = "DecSteal" /\ pc'[v] = "Swap" /\ UNCHANGED retNext
      /\ UNCHANGED <<task, ret, next, currentTask, pendingFreeStack,
                     workingTask, workingTaskReady>>
  BY Zenon, <1>0, <1>a DEF LocalTypeOK, TaskOrNone
<1>4. Local(v)'
  BY ONLY ZenonT(30), <1>0, <1>3, VcpuFacts, SchedulerAssumption,
     LocalInv DEF Local, At,
     InScheduleQ, InGetNext, Holding, MayHold, Callers, NoRet, SomePcs, NonePcs
<1>5. LocalInv'
  BY ONLY <1>0, <1>1, <1>2, <1>4, LocalInv, OthersLocal
<1> QED
  BY ONLY ZenonT(30), <1>2, <1>3, <1>5

LEMMA LoadReadyTaskCntLocal ==
    ASSUME LocalInv, NEW v \in Worker, LoadReadyTaskCnt(v)
    PROVE  /\ LocalInv' /\ Frame(v)
           /\ pc[v] = "LoadReady"
           /\ \/ /\ pc'[v] \in NonePcs /\ retNext'[v] = NoRet
                 /\ (pc'[v] = "Search" => retNext[v] = "Wait")
              \/ /\ pc'[v] = "Steal" /\ UNCHANGED retNext
           /\ UNCHANGED <<task, ret, next, currentTask, pendingFreeStack,
                          workingTask, workingTaskReady>>
<1> USE DEF LoadReadyTaskCnt, Goto, GetNextNone, queueVars, wakeVars, taskVars,
   cpuVars, getVars, argVars
<1>0. v \in Vcpu /\ 0 \in Vcpu /\ Local(v) /\ LocalTypeOK
  BY Zenon, VcpuFacts, LocalTypes DEF LocalInv
<1>a. /\ AfterSome[retNext[v]] \in SomePcs
      /\ AfterNone[retNext[v]] \in NonePcs
      /\ AfterNone[retNext[v]] = "Search" => retNext[v] = "Wait"
      /\ AfterSome[retNext[v]] \in PCs /\ AfterNone[retNext[v]] \in PCs
  BY Zenon, <1>0, RetNextType, AfterSomeType, AfterNoneType, Elems
  DEF InGetNext, SomePcs, NonePcs
<1>1. TypeOK'
  BY ZenonT(40), <1>0, <1>a, Elems DEF LocalInv, TypeOK, TaskOrNone
<1>2. Frame(v)
  BY Zenon, <1>0 DEF LocalTypeOK, Same, Frame
<1>3. /\ pc[v] = "LoadReady"
      /\ \/ /\ pc'[v] \in NonePcs /\ retNext'[v] = NoRet
            /\ (pc'[v] = "Search" => retNext[v] = "Wait")
         \/ /\ pc'[v] = "Steal" /\ UNCHANGED retNext
      /\ UNCHANGED <<task, ret, next, currentTask, pendingFreeStack,
                     workingTask, workingTaskReady>>
  BY <1>0, <1>a DEF LocalTypeOK, TaskOrNone
<1>4. Local(v)'
  BY ONLY ZenonT(30), <1>0, <1>3, VcpuFacts, SchedulerAssumption,
     LocalInv DEF Local, At,
     InScheduleQ, InGetNext, Holding, MayHold, Callers, NoRet, SomePcs, NonePcs
<1>5. LocalInv'
  BY ONLY <1>0, <1>1, <1>2, <1>4, LocalInv, OthersLocal
<1> QED
  BY ONLY Zenon, <1>2, <1>3, <1>5

LEMMA StealLocal ==
    ASSUME LocalInv, NEW v \in Worker, Steal(v)
    PROVE  /\ LocalInv' /\ Frame(v)
           /\ pc[v] = "Steal"
           /\ \/ /\ pc'[v] = "DecSteal" /\ next'[v] \in Task
                 /\ UNCHANGED retNext
              \/ /\ pc'[v] = "Steal" /\ UNCHANGED <<next, retNext>>
              \/ /\ pc'[v] \in NonePcs /\ retNext'[v] = NoRet
                 /\ (pc'[v] = "Search" => retNext[v] = "Wait")
                 /\ UNCHANGED next
           /\ UNCHANGED <<task, ret, currentTask, pendingFreeStack,
                          workingTask, workingTaskReady>>
<1> USE DEF Steal, Goto, GetNextNone, queueVars, wakeVars, taskVars, cpuVars,
   getVars, argVars
<1>0. v \in Vcpu /\ 0 \in Vcpu /\ Local(v) /\ LocalTypeOK
  BY Zenon, VcpuFacts, LocalTypes DEF LocalInv
<1>a. /\ AfterSome[retNext[v]] \in SomePcs
      /\ AfterNone[retNext[v]] \in NonePcs
      /\ AfterNone[retNext[v]] = "Search" => retNext[v] = "Wait"
      /\ AfterSome[retNext[v]] \in PCs /\ AfterNone[retNext[v]] \in PCs
  BY ZenonT(30), <1>0, RetNextType, AfterSomeType, AfterNoneType, Elems
  DEF InGetNext, SomePcs, NonePcs
<1>b. /\ queue' \in [Vcpu -> TaskSeq] /\ idx' \in [Vcpu -> Vcpu]
      /\ StealFrom(v, Victim(v, idx[v])) =>
             \E t \in Task : next' = [next EXCEPT ![v] = t]
  BY Zenon, <1>0, StealType
<1>1. TypeOK'
  <2>1. queue' \in [Vcpu -> TaskSeq]
    <3>1. queue \in [Vcpu -> TaskSeq]
      BY ZenonT(30) DEF LocalInv, TypeOK
    <3> QED BY Zenon, <1>0, <1>a, <1>b, <3>1
  <2>2. next' \in [Vcpu -> TaskOrNone]
    <3>1. next \in [Vcpu -> TaskOrNone] /\ workingTask \in [Vcpu -> TaskOrNone]
      BY ZenonT(30) DEF LocalInv, TypeOK
    <3> QED BY Zenon, <1>0, <1>a, <1>b, <3>1 DEF TaskOrNone
  <2>3. pc' \in [Vcpu -> PCs]
    <3>1. pc \in [Vcpu -> PCs]
      BY ZenonT(30) DEF LocalInv, TypeOK
    <3> QED BY ZenonT(30), <1>0, <1>a, <1>b, <3>1, Elems
  <2>4. idx' \in [Vcpu -> Vcpu]
    <3>1. idx \in [Vcpu -> Vcpu]
      BY ZenonT(30) DEF LocalInv, TypeOK
    <3> QED BY Zenon, <1>0, <1>a, <1>b, <3>1
  <2>5. retNext' \in [Vcpu -> RetNexts]
    <3>1. retNext \in [Vcpu -> RetNexts]
      BY ZenonT(30) DEF LocalInv, TypeOK
    <3> QED BY Zenon, <1>0, <1>a, <1>b, <3>1, Elems
  <2>u. UNCHANGED <<workingTask, workingTaskReady, readyTaskCnt, vcpuWaitMask,
                    state, eventfd, ready, queueId, life, QInput, currentTask,
                    pendingFreeStack, task, vcpuId, cpuAff, ret>>
    BY Zenon
  <2> QED BY ONLY Zenon, <2>1, <2>2, <2>3, <2>4, <2>5, <2>u,
             LocalInv DEF LocalInv,
     TypeOK
<1>2. Frame(v)
  BY ZenonT(40), <1>0, <1>b DEF LocalTypeOK, Same, Frame
<1>3. /\ pc[v] = "Steal"
      /\ \/ /\ pc'[v] = "DecSteal" /\ next'[v] \in Task /\ UNCHANGED retNext
         \/ /\ pc'[v] = "Steal" /\ UNCHANGED <<next, retNext>>
         \/ /\ pc'[v] \in NonePcs /\ retNext'[v] = NoRet
            /\ (pc'[v] = "Search" => retNext[v] = "Wait") /\ UNCHANGED next
      /\ UNCHANGED <<task, ret, currentTask, pendingFreeStack, workingTask,
                     workingTaskReady>>
  BY <1>0, <1>a, <1>b DEF LocalTypeOK, TaskOrNone
<1>4. Local(v)'
  BY ONLY ZenonT(30), <1>0, <1>3, VcpuFacts, SchedulerAssumption,
     LocalInv DEF Local, At,
     InScheduleQ, InGetNext, Holding, MayHold, Callers, NoRet, SomePcs, NonePcs
<1>5. LocalInv'
  BY ONLY <1>0, <1>1, <1>2, <1>4, LocalInv, OthersLocal
<1> QED
  BY ONLY ZenonT(30), <1>2, <1>3, <1>5

LEMMA SwapWoringTaskLocal ==
    ASSUME LocalInv, NEW v \in Worker, SwapWoringTask(v)
    PROVE  /\ LocalInv' /\ Frame(v)
           /\ pc[v] = "Swap"
           /\ \/ /\ workingTaskReady[v] /\ ~workingTaskReady'[v]
                 /\ next'[v] = workingTask[v] /\ pc'[v] = "Enqueue"
                 /\ task'[v] = next[v] /\ ret'[v] \in SomePcs
                 /\ retNext'[v] = NoRet /\ workingTask' = workingTask
              \/ /\ workingTask'[v] = next[v] /\ pc'[v] = "SetQueueId"
                 /\ UNCHANGED <<workingTaskReady, next, retNext, task, ret>>
           /\ UNCHANGED <<currentTask, pendingFreeStack>>
<1> USE DEF SwapWoringTask, Goto, CallScheduleQ, queueVars, wakeVars, taskVars,
   cpuVars, getVars, argVars
<1>0. v \in Vcpu /\ 0 \in Vcpu /\ Local(v) /\ LocalTypeOK
  BY ZenonT(40), VcpuFacts, LocalTypes DEF LocalInv
<1>a. /\ AfterSome[retNext[v]] \in SomePcs
      /\ AfterNone[retNext[v]] \in NonePcs
      /\ AfterNone[retNext[v]] = "Search" => retNext[v] = "Wait"
      /\ AfterSome[retNext[v]] \in PCs /\ AfterNone[retNext[v]] \in PCs
  BY ZenonT(30), <1>0, RetNextType, AfterSomeType, AfterNoneType, Elems
  DEF InGetNext, SomePcs, NonePcs
<1>b. next[v] \in Task /\ queueId[next[v]] \in Vcpu
  <2>1. next[v] \in TaskOrNone /\ queueId \in [Task -> Vcpu]
    BY ONLY Zenon, <1>0, LocalInv DEF LocalInv, TypeOK, LocalTypeOK
  <2>2. pc[v] = "Swap"
    BY ONLY Zenon, SwapWoringTask(v) DEF SwapWoringTask
  <2>3. next[v] # NoTask
    BY ONLY Zenon, <1>0, <2>2 DEF Local, At, InScheduleQ, Holding
  <2> QED BY ONLY Zenon, <2>1, <2>3 DEF TaskOrNone
<1>1. TypeOK'
  <2>1. workingTask' \in [Vcpu -> TaskOrNone]
    <3>1. workingTask \in [Vcpu -> TaskOrNone] /\ next \in [Vcpu -> TaskOrNone]
      BY ZenonT(30) DEF LocalInv, TypeOK
    <3> QED BY ZenonT(30), <1>0, <1>a, <1>b, <3>1 DEF TaskOrNone
  <2>2. workingTaskReady' \in [Vcpu -> BOOLEAN]
    <3>1. workingTaskReady \in [Vcpu -> BOOLEAN]
      BY ZenonT(30) DEF LocalInv, TypeOK
    <3> QED BY ZenonT(30), <1>0, <1>a, <1>b, <3>1
  <2>3. next' \in [Vcpu -> TaskOrNone]
    <3>1. next \in [Vcpu -> TaskOrNone] /\ workingTask \in [Vcpu -> TaskOrNone]
      BY ZenonT(30) DEF LocalInv, TypeOK
    <3> QED BY ZenonT(30), <1>0, <1>a, <1>b, <3>1 DEF TaskOrNone
  <2>4. retNext' \in [Vcpu -> RetNexts]
    <3>1. retNext \in [Vcpu -> RetNexts]
      BY ZenonT(30) DEF LocalInv, TypeOK
    <3> QED BY Zenon, <1>0, <1>a, <1>b, <3>1, Elems
  <2>5. pc' \in [Vcpu -> PCs]
    <3>1. pc \in [Vcpu -> PCs]
      BY ZenonT(30) DEF LocalInv, TypeOK
    <3> QED BY Zenon, <1>0, <1>a, <1>b, <3>1, Elems
  <2>6. task' \in [Vcpu -> TaskOrNone]
    <3>1. task \in [Vcpu -> TaskOrNone] /\ next \in [Vcpu -> TaskOrNone]
      BY ZenonT(30) DEF LocalInv, TypeOK
    <3> QED BY ZenonT(30), <1>0, <1>a, <1>b, <3>1 DEF TaskOrNone
  <2>7. vcpuId' \in [Vcpu -> Vcpu]
    <3>1. vcpuId \in [Vcpu -> Vcpu] /\ queueId \in [Task -> Vcpu]
      BY ZenonT(30) DEF LocalInv, TypeOK
    <3> QED BY Zenon, <1>0, <1>a, <1>b, <3>1
  <2>8. cpuAff' \in [Vcpu -> BOOLEAN]
    <3>1. cpuAff \in [Vcpu -> BOOLEAN]
      BY ZenonT(30) DEF LocalInv, TypeOK
    <3> QED BY ZenonT(30), <1>0, <1>a, <1>b, <3>1
  <2>9. ret' \in [Vcpu -> PCs \cup {NoRet}]
    <3>1. ret \in [Vcpu -> PCs \cup {NoRet}]
      BY ZenonT(30) DEF LocalInv, TypeOK
    <3> QED BY ZenonT(30), <1>0, <1>a, <1>b, <3>1, Elems
  <2>u. UNCHANGED <<queue, readyTaskCnt, vcpuWaitMask, state, eventfd, ready,
                    queueId, life, QInput, currentTask, pendingFreeStack, idx>>
    BY ZenonT(30)
  <2> QED BY ONLY Zenon, <2>1, <2>2, <2>3, <2>4, <2>5, <2>6, <2>7, <2>8,
             <2>9, <2>u,
     LocalInv DEF LocalInv, TypeOK
<1>2. Frame(v)
  BY ZenonT(30), <1>0 DEF LocalTypeOK, Same, Frame
<1>3. /\ pc[v] = "Swap"
      /\ \/ /\ workingTaskReady[v] /\ ~workingTaskReady'[v]
            /\ next'[v] = workingTask[v] /\ pc'[v] = "Enqueue"
            /\ task'[v] = next[v] /\ ret'[v] \in SomePcs
            /\ retNext'[v] = NoRet /\ workingTask' = workingTask
         \/ /\ workingTask'[v] = next[v] /\ pc'[v] = "SetQueueId"
            /\ UNCHANGED <<workingTaskReady, next, retNext, task, ret>>
      /\ UNCHANGED <<currentTask, pendingFreeStack>>
  BY ZenonT(40), <1>0, <1>a, <1>b DEF LocalTypeOK, TaskOrNone
<1>4. Local(v)'
  BY ONLY ZenonT(30), <1>0, <1>3, VcpuFacts, SchedulerAssumption,
     LocalInv DEF Local, At,
     InScheduleQ, InGetNext, Holding, MayHold, Callers, NoRet, SomePcs, NonePcs
<1>5. LocalInv'
  BY ONLY <1>0, <1>1, <1>2, <1>4, LocalInv, OthersLocal
<1> QED
  BY ONLY ZenonT(30), <1>2, <1>3, <1>5

LEMMA SetQueueIdLocal ==
    ASSUME LocalInv, NEW v \in Worker, SetQueueId(v)
    PROVE  /\ LocalInv' /\ Frame(v)
           /\ pc[v] = "SetQueueId"
           /\ pc'[v] \in SomePcs /\ retNext'[v] = NoRet
           /\ UNCHANGED <<task, ret, next, currentTask, pendingFreeStack,
                          workingTask, workingTaskReady>>
<1> USE DEF SetQueueId, Goto, GetNextSome, queueVars, wakeVars, taskVars,
   cpuVars, getVars, argVars
<1>0. v \in Vcpu /\ 0 \in Vcpu /\ Local(v) /\ LocalTypeOK
  BY Zenon, VcpuFacts, LocalTypes DEF LocalInv
<1>a. /\ AfterSome[retNext[v]] \in SomePcs
      /\ AfterNone[retNext[v]] \in NonePcs
      /\ AfterNone[retNext[v]] = "Search" => retNext[v] = "Wait"
      /\ AfterSome[retNext[v]] \in PCs /\ AfterNone[retNext[v]] \in PCs
  BY Zenon, <1>0, RetNextType, AfterSomeType, AfterNoneType, Elems
  DEF InGetNext, SomePcs, NonePcs
<1>1. TypeOK'
  BY ZenonT(30), <1>0, <1>a, Elems DEF LocalInv, TypeOK, TaskOrNone
<1>2. Frame(v)
  BY Zenon, <1>0 DEF LocalTypeOK, Same, Frame
<1>3. /\ pc[v] = "SetQueueId"
      /\ pc'[v] \in SomePcs /\ retNext'[v] = NoRet
      /\ UNCHANGED <<task, ret, next, currentTask, pendingFreeStack,
                     workingTask, workingTaskReady>>
  BY Zenon, <1>0, <1>a DEF LocalTypeOK, TaskOrNone
<1>4. Local(v)'
  BY ONLY ZenonT(30), <1>0, <1>3, VcpuFacts, SchedulerAssumption,
     LocalInv DEF Local, At,
     InScheduleQ, InGetNext, Holding, MayHold, Callers, NoRet, SomePcs, NonePcs
<1>5. LocalInv'
  BY ONLY <1>0, <1>1, <1>2, <1>4, LocalInv, OthersLocal
<1> QED
  BY ONLY ZenonT(30), <1>2, <1>3, <1>5

LEMMA ToRunningLocal ==
    ASSUME LocalInv, NEW v \in Worker, ToRunning(v)
    PROVE  /\ LocalInv' /\ Frame(v)
           /\ pc[v] = "ToRunning"
           /\ \/ /\ next[v] = currentTask[v] /\ pc'[v] = "Run"
                 /\ next'[v] = NoTask
              \/ /\ next[v] # currentTask[v] /\ pc'[v] = "Switch"
                 /\ UNCHANGED next
           /\ UNCHANGED <<task, ret, retNext, currentTask, pendingFreeStack,
                          workingTask, workingTaskReady>>
<1> USE DEF ToRunning, Goto, queueVars, wakeVars, taskVars, cpuVars, getVars,
   argVars
<1>0. v \in Vcpu /\ 0 \in Vcpu /\ Local(v) /\ LocalTypeOK
  BY ZenonT(40), VcpuFacts, LocalTypes DEF LocalInv
<1>1. TypeOK'
  <2>0. /\ pc \in [Vcpu -> PCs] /\ next \in [Vcpu -> TaskOrNone]
        /\ state \in [Vcpu -> {"Searching", "Waiting", "Running"}]
        /\ "Run" \in PCs /\ "Switch" \in PCs /\ NoTask \in TaskOrNone
    BY Zenon, Elems DEF LocalInv, TypeOK, TaskOrNone
  <2>1. pc' \in [Vcpu -> PCs]
    BY Zenon, <1>0, <2>0
  <2>2. next' \in [Vcpu -> TaskOrNone]
    BY Zenon, <1>0, <2>0
  <2>3. state' \in [Vcpu -> {"Searching", "Waiting", "Running"}]
    BY Zenon, <1>0, <2>0
  <2>u. UNCHANGED <<queue, workingTask, workingTaskReady, readyTaskCnt,
                    vcpuWaitMask, eventfd, ready, queueId, life, QInput,
                    currentTask, pendingFreeStack, retNext, task, vcpuId,
                    cpuAff, ret, idx>>
    BY Zenon
  <2> QED BY ONLY Zenon, <2>1, <2>2, <2>3, <2>u,
             LocalInv DEF LocalInv, TypeOK
<1>2. Frame(v)
  BY Zenon, <1>0 DEF LocalTypeOK, Same, Frame
<1>3. /\ pc[v] = "ToRunning"
      /\ \/ /\ next[v] = currentTask[v] /\ pc'[v] = "Run" /\ next'[v] = NoTask
         \/ /\ next[v] # currentTask[v] /\ pc'[v] = "Switch" /\ UNCHANGED next
      /\ UNCHANGED <<task, ret, retNext, currentTask, pendingFreeStack,
                     workingTask, workingTaskReady>>
  BY Zenon, <1>0 DEF LocalTypeOK, TaskOrNone
<1>4. Local(v)'
  <2>1. CASE pc'[v] = "Run" /\ next'[v] = NoTask
    BY ONLY ZenonT(60), <1>0, <1>3, <2>1, VcpuFacts,
       SchedulerAssumption, LocalInv DEF Local, At,
       InScheduleQ, InGetNext, Holding, MayHold, Callers, NoRet, SomePcs,
       NonePcs
  <2>2. CASE pc'[v] = "Switch" /\ UNCHANGED next
    BY ONLY Zenon, <1>0, <1>3, <2>2, VcpuFacts,
       SchedulerAssumption, LocalInv DEF Local, At,
       InScheduleQ, InGetNext, Holding, MayHold, Callers, NoRet, SomePcs,
       NonePcs
  <2> QED
    BY ONLY Zenon, <2>1, <2>2, <1>3
<1>5. LocalInv'
  BY ONLY <1>0, <1>1, <1>2, <1>4, LocalInv, OthersLocal
<1> QED
  BY ONLY Zenon, <1>2, <1>3, <1>5

LEMMA SwitchLocal ==
    ASSUME LocalInv, NEW v \in Worker, Switch(v)
    PROVE  /\ LocalInv' /\ Frame(v)
           /\ pc[v] = "Switch" /\ pc'[v] = "Run"
           /\ currentTask'[v] = next[v] /\ next'[v] = NoTask
           /\ UNCHANGED <<task, ret, retNext, pendingFreeStack, workingTask,
                          workingTaskReady>>
<1> USE DEF Switch, Goto, queueVars, wakeVars, taskVars, cpuVars, getVars,
   argVars
<1>0. v \in Vcpu /\ 0 \in Vcpu /\ Local(v) /\ LocalTypeOK
  BY Zenon, VcpuFacts, LocalTypes DEF LocalInv
<1>1. TypeOK'
  BY ZenonT(30), <1>0, Elems DEF LocalInv, TypeOK, TaskOrNone, Saved
<1>2. Frame(v)
  BY Zenon, <1>0 DEF LocalTypeOK, Same, Frame
<1>3. /\ pc[v] = "Switch" /\ pc'[v] = "Run"
      /\ currentTask'[v] = next[v] /\ next'[v] = NoTask
      /\ UNCHANGED <<task, ret, retNext, pendingFreeStack, workingTask,
                     workingTaskReady>>
  BY Zenon, <1>0 DEF LocalTypeOK, TaskOrNone
<1>4. Local(v)'
  BY ONLY ZenonT(30), <1>0, <1>3, VcpuFacts, SchedulerAssumption,
     LocalInv DEF Local, At,
     InScheduleQ, InGetNext, Holding, MayHold, Callers, NoRet, SomePcs, NonePcs
<1>5. LocalInv'
  BY ONLY <1>0, <1>1, <1>2, <1>4, LocalInv, OthersLocal
<1> QED
  BY ONLY Zenon, <1>2, <1>3, <1>5

LEMMA SwitchToWaitTaskLocal ==
    ASSUME LocalInv, NEW v \in Worker, SwitchToWaitTask(v)
    PROVE  /\ LocalInv' /\ Frame(v)
           /\ pc[v] = "SwitchToWait" /\ currentTask'[v] = NoTask
           /\ \/ /\ pendingFreeStack[v] = NoTask /\ pc'[v] = "Next"
                 /\ retNext'[v] = "WaitFn"
              \/ /\ pendingFreeStack[v] # NoTask /\ pc'[v] = "Free"
                 /\ UNCHANGED retNext
           /\ UNCHANGED <<task, ret, next, pendingFreeStack, workingTask,
                          workingTaskReady>>
<1> USE DEF SwitchToWaitTask, Goto, CallGetNext, queueVars, wakeVars, taskVars,
   cpuVars, getVars, argVars
<1>0. v \in Vcpu /\ 0 \in Vcpu /\ Local(v) /\ LocalTypeOK
  BY Zenon, VcpuFacts, LocalTypes DEF LocalInv
<1>1. TypeOK'
  <2>1. ready' \in [Task -> BOOLEAN]
    <3>1. ready \in [Task -> BOOLEAN]
      BY Zenon DEF LocalInv, TypeOK
    <3> QED BY ZenonT(30), <1>0, <3>1 DEF Saved
  <2>2. currentTask' \in [Vcpu -> TaskOrNone]
    <3>1. currentTask \in [Vcpu -> TaskOrNone]
      BY Zenon DEF LocalInv, TypeOK
    <3> QED BY Zenon, <1>0, <3>1 DEF TaskOrNone
  <2>3. pc' \in [Vcpu -> PCs]
    <3>1. pc \in [Vcpu -> PCs]
      BY Zenon DEF LocalInv, TypeOK
    <3> QED BY Zenon, <1>0, <3>1, Elems
  <2>4. retNext' \in [Vcpu -> RetNexts]
    <3>1. retNext \in [Vcpu -> RetNexts]
      BY Zenon DEF LocalInv, TypeOK
    <3> QED BY Zenon, <1>0, <3>1, Elems
  <2>u. UNCHANGED <<queue, workingTask, workingTaskReady, readyTaskCnt,
                    vcpuWaitMask, state, eventfd, queueId, life, QInput,
                    pendingFreeStack, next, task, vcpuId, cpuAff, ret, idx>>
    BY Zenon
  <2> QED BY ONLY Zenon, <2>1, <2>2, <2>3, <2>4, <2>u, LocalInv DEF LocalInv,
             TypeOK
<1>2. Frame(v)
  BY Zenon, <1>0 DEF LocalTypeOK, Same, Frame
<1>3. /\ pc[v] = "SwitchToWait" /\ currentTask'[v] = NoTask
      /\ \/ /\ pendingFreeStack[v] = NoTask /\ pc'[v] = "Next"
            /\ retNext'[v] = "WaitFn"
         \/ /\ pendingFreeStack[v] # NoTask /\ pc'[v] = "Free"
            /\ UNCHANGED retNext
      /\ UNCHANGED <<task, ret, next, pendingFreeStack, workingTask,
                     workingTaskReady>>
  BY Zenon, <1>0 DEF LocalTypeOK, TaskOrNone
<1>4. Local(v)'
  BY ONLY ZenonT(30), <1>0, <1>3, VcpuFacts, SchedulerAssumption,
     LocalInv DEF Local, At,
     InScheduleQ, InGetNext, Holding, MayHold, Callers, NoRet, SomePcs, NonePcs
<1>5. LocalInv'
  BY ONLY <1>0, <1>1, <1>2, <1>4, LocalInv, OthersLocal
<1> QED
  BY ONLY ZenonT(30), <1>2, <1>3, <1>5

LEMMA WaitToSearchLocal ==
    ASSUME LocalInv, NEW v \in Worker, WaitToSearch(v)
    PROVE  /\ LocalInv' /\ Frame(v)
           /\ pc[v] = "Wait" /\ pc'[v] = "Next" /\ retNext'[v] = "Wait"
           /\ UNCHANGED <<task, ret, next, currentTask, pendingFreeStack,
                          workingTask, workingTaskReady>>
<1> USE DEF WaitToSearch, Goto, CallGetNext, queueVars, wakeVars, taskVars,
   cpuVars, getVars, argVars
<1>0. v \in Vcpu /\ 0 \in Vcpu /\ Local(v) /\ LocalTypeOK
  BY Zenon, VcpuFacts, LocalTypes DEF LocalInv
<1>1. TypeOK'
  BY Zenon, <1>0, Elems DEF LocalInv, TypeOK, TaskOrNone
<1>2. Frame(v)
  BY Zenon, <1>0 DEF LocalTypeOK, Same, Frame
<1>3. /\ pc[v] = "Wait" /\ pc'[v] = "Next" /\ retNext'[v] = "Wait"
      /\ UNCHANGED <<task, ret, next, currentTask, pendingFreeStack,
                     workingTask, workingTaskReady>>
  BY Zenon, <1>0 DEF LocalTypeOK, TaskOrNone
<1>4. Local(v)'
  BY ONLY ZenonT(30), <1>0, <1>3, VcpuFacts, SchedulerAssumption,
     LocalInv DEF Local, At,
     InScheduleQ, InGetNext, Holding, MayHold, Callers, NoRet, SomePcs, NonePcs
<1>5. LocalInv'
  BY ONLY <1>0, <1>1, <1>2, <1>4, LocalInv, OthersLocal
<1> QED
  BY ONLY ZenonT(30), <1>2, <1>3, <1>5

LEMMA WaitTimeoutLocal ==
    ASSUME LocalInv, NEW v \in Worker, WaitTimeout(v)
    PROVE  /\ LocalInv' /\ Frame(v)
           /\ pc[v] = "Search"
           /\ \/ /\ workingTaskReady[v] /\ ~workingTaskReady'[v]
                 /\ next'[v] = workingTask[v] /\ pc'[v] = "ToRunning"
                 /\ UNCHANGED workingTask
              \/ /\ ~workingTaskReady[v] /\ workingTask'[v] = NoTask
                 /\ pc'[v] = "SwitchToWait"
                 /\ UNCHANGED <<workingTaskReady, next>>
           /\ UNCHANGED <<task, ret, retNext, currentTask, pendingFreeStack>>
<1> USE DEF WaitTimeout, Goto, queueVars, wakeVars, taskVars, cpuVars, getVars,
   argVars
<1>0. v \in Vcpu /\ 0 \in Vcpu /\ Local(v) /\ LocalTypeOK
  BY Zenon, VcpuFacts, LocalTypes DEF LocalInv
<1>1. TypeOK'
  <2>1. workingTask' \in [Vcpu -> TaskOrNone]
    <3>1. workingTask \in [Vcpu -> TaskOrNone] /\ next \in [Vcpu -> TaskOrNone]
      BY Zenon DEF LocalInv, TypeOK
    <3> QED BY Zenon, <1>0, <3>1 DEF TaskOrNone
  <2>2. workingTaskReady' \in [Vcpu -> BOOLEAN]
    <3>1. workingTaskReady \in [Vcpu -> BOOLEAN]
      BY Zenon DEF LocalInv, TypeOK
    <3> QED BY ZenonT(30), <1>0, <3>1
  <2>3. next' \in [Vcpu -> TaskOrNone]
    <3>1. next \in [Vcpu -> TaskOrNone] /\ workingTask \in [Vcpu -> TaskOrNone]
      BY Zenon DEF LocalInv, TypeOK
    <3> QED BY Zenon, <1>0, <3>1 DEF TaskOrNone
  <2>4. pc' \in [Vcpu -> PCs]
    <3>1. pc \in [Vcpu -> PCs]
      BY Zenon DEF LocalInv, TypeOK
    <3> QED BY Zenon, <1>0, <3>1, Elems
  <2>u. UNCHANGED <<queue, readyTaskCnt, vcpuWaitMask, state, eventfd, ready,
                    queueId, life, QInput, currentTask, pendingFreeStack,
                    retNext, task, vcpuId, cpuAff, ret, idx>>
    BY Zenon
  <2> QED BY ONLY Zenon, <2>1, <2>2, <2>3, <2>4, <2>u,
             LocalInv DEF LocalInv, TypeOK
<1>2. Frame(v)
  BY Zenon, <1>0 DEF LocalTypeOK, Same, Frame
<1>3. /\ pc[v] = "Search"
      /\ \/ /\ workingTaskReady[v] /\ ~workingTaskReady'[v]
            /\ next'[v] = workingTask[v] /\ pc'[v] = "ToRunning"
            /\ UNCHANGED workingTask
         \/ /\ ~workingTaskReady[v] /\ workingTask'[v] = NoTask
            /\ pc'[v] = "SwitchToWait" /\ UNCHANGED <<workingTaskReady, next>>
      /\ UNCHANGED <<task, ret, retNext, currentTask, pendingFreeStack>>
  BY ZenonT(40), <1>0 DEF LocalTypeOK, TaskOrNone
<1>4. Local(v)'
  <2>1. CASE pc'[v] = "ToRunning"
    BY ONLY Zenon, <1>0, <1>3, <2>1, VcpuFacts,
       SchedulerAssumption, LocalInv DEF Local, At,
       InScheduleQ, InGetNext, Holding, MayHold, Callers, NoRet, SomePcs,
       NonePcs
  <2>2. CASE pc'[v] = "SwitchToWait"
    BY ONLY Zenon, <1>0, <1>3, <2>2, VcpuFacts,
       SchedulerAssumption, LocalInv DEF Local, At,
       InScheduleQ, InGetNext, Holding, MayHold, Callers, NoRet, SomePcs,
       NonePcs
  <2> QED
    BY ONLY Zenon, <2>1, <2>2, <1>3
<1>5. LocalInv'
  BY ONLY <1>0, <1>1, <1>2, <1>4, LocalInv, OthersLocal
<1> QED
  BY ONLY ZenonT(30), <1>2, <1>3, <1>5

LEMMA WaitPollLocal ==
    ASSUME LocalInv, NEW v \in Worker, WaitPoll(v)
    PROVE  /\ LocalInv' /\ Frame(v)
           /\ pc[v] = "Search"
           /\ \/ /\ pc'[v] = "Next" /\ retNext'[v] = "Wait"
                 /\ UNCHANGED <<task, ret>>
              \/ /\ pc'[v] = "Enqueue" /\ task'[v] \in Task
                 /\ ret'[v] = "Search" /\ UNCHANGED retNext
           /\ UNCHANGED <<next, currentTask, pendingFreeStack, workingTask,
                          workingTaskReady>>
<1> USE DEF WaitPoll, Goto, CallGetNext, WakeTask, ProcessInputMsg, CreateTask,
   CallScheduleQ, queueVars, wakeVars, taskVars, cpuVars, getVars, argVars
<1>0. v \in Vcpu /\ 0 \in Vcpu /\ Local(v) /\ LocalTypeOK
  BY Zenon, VcpuFacts, LocalTypes DEF LocalInv
<1>a. QInput # <<>> => Head(QInput) \in Task /\ Tail(QInput) \in TaskSeq
  BY DEF LocalInv, TypeOK, TaskSeq
<1>1. TypeOK'
  <2>1. pc' \in [Vcpu -> PCs]
    <3>1. pc \in [Vcpu -> PCs]
      BY Zenon DEF LocalInv, TypeOK
    <3> QED BY Zenon, <1>0, <1>a, <3>1, Elems
  <2>2. retNext' \in [Vcpu -> RetNexts]
    <3>1. retNext \in [Vcpu -> RetNexts]
      BY Zenon DEF LocalInv, TypeOK
    <3> QED BY Zenon, <1>0, <1>a, <3>1, Elems
  <2>3. ready' \in [Task -> BOOLEAN]
    <3>1. ready \in [Task -> BOOLEAN]
      BY Zenon DEF LocalInv, TypeOK
    <3> QED BY ZenonT(30), <1>0, <1>a, <3>1 DEF Saved
  <2>4. queueId' \in [Task -> Vcpu]
    <3>1. queueId \in [Task -> Vcpu]
      BY Zenon DEF LocalInv, TypeOK
    <3> QED BY ZenonT(30), <1>0, <1>a, <3>1
  <2>5. life' \in [Task -> LifeStates]
    <3>1. life \in [Task -> LifeStates]
      BY Zenon DEF LocalInv, TypeOK
    <3> QED BY Zenon, <1>0, <1>a, <3>1, Elems
  <2>6. QInput' \in TaskSeq
    <3>1. QInput \in TaskSeq
      BY Zenon DEF LocalInv, TypeOK
    <3> QED BY ZenonT(30), <1>0, <1>a, <3>1
  <2>7. task' \in [Vcpu -> TaskOrNone]
    <3>1. task \in [Vcpu -> TaskOrNone]
      BY Zenon DEF LocalInv, TypeOK
    <3> QED BY ZenonT(30), <1>0, <1>a, <3>1 DEF TaskOrNone
  <2>8. vcpuId' \in [Vcpu -> Vcpu]
    <3>1. vcpuId \in [Vcpu -> Vcpu] /\ queueId \in [Task -> Vcpu]
      BY Zenon DEF LocalInv, TypeOK
    <3> QED BY ZenonT(30), <1>0, <1>a, <3>1
  <2>9. cpuAff' \in [Vcpu -> BOOLEAN]
    <3>1. cpuAff \in [Vcpu -> BOOLEAN]
      BY Zenon DEF LocalInv, TypeOK
    <3> QED BY ZenonT(30), <1>0, <1>a, <3>1
  <2>10. ret' \in [Vcpu -> PCs \cup {NoRet}]
    <3>1. ret \in [Vcpu -> PCs \cup {NoRet}]
      BY Zenon DEF LocalInv, TypeOK
    <3> QED BY Zenon, <1>0, <1>a, <3>1, Elems
  <2>u. UNCHANGED <<queue, workingTask, workingTaskReady, readyTaskCnt,
                    vcpuWaitMask, state, eventfd, currentTask,
                    pendingFreeStack, next, idx>>
    BY Zenon
  <2> QED BY ONLY Zenon, <2>1, <2>2, <2>3, <2>4, <2>5, <2>6,
             <2>7, <2>8, <2>9, <2>10,
     <2>u, LocalInv DEF LocalInv, TypeOK
<1>2. Frame(v)
  BY Zenon, <1>0 DEF LocalTypeOK, Same, Frame
<1>3. /\ pc[v] = "Search"
      /\ \/ /\ pc'[v] = "Next" /\ retNext'[v] = "Wait"
            /\ UNCHANGED <<task, ret>>
         \/ /\ pc'[v] = "Enqueue" /\ task'[v] \in Task /\ ret'[v] = "Search"
            /\ UNCHANGED retNext
      /\ UNCHANGED <<next, currentTask, pendingFreeStack, workingTask,
                     workingTaskReady>>
  BY Zenon, <1>0, <1>a DEF LocalTypeOK, TaskOrNone
<1>4. Local(v)'
  BY ONLY ZenonT(30), <1>0, <1>3, VcpuFacts, SchedulerAssumption,
     LocalInv DEF Local, At,
     InScheduleQ, InGetNext, Holding, MayHold, Callers, NoRet, SomePcs, NonePcs
<1>5. LocalInv'
  BY ONLY <1>0, <1>1, <1>2, <1>4, LocalInv, OthersLocal
<1> QED
  BY ONLY Zenon, <1>2, <1>3, <1>5

LEMMA BlockLocal ==
    ASSUME LocalInv, NEW v \in Worker, Block(v)
    PROVE  /\ LocalInv' /\ Frame(v)
           /\ pc[v] = "Run" /\ pc'[v] = "Wait"
           /\ UNCHANGED <<task, ret, retNext, next, currentTask,
                          pendingFreeStack, workingTask, workingTaskReady>>
<1> USE DEF Block, Goto, queueVars, wakeVars, taskVars, cpuVars, getVars,
   argVars
<1>0. v \in Vcpu /\ 0 \in Vcpu /\ Local(v) /\ LocalTypeOK
  BY Zenon, VcpuFacts, LocalTypes DEF LocalInv
<1>1. TypeOK'
  BY ZenonT(30), <1>0, Elems DEF LocalInv, TypeOK, TaskOrNone
<1>2. Frame(v)
  BY Zenon, <1>0 DEF LocalTypeOK, Same, Frame
<1>3. /\ pc[v] = "Run" /\ pc'[v] = "Wait"
      /\ UNCHANGED <<task, ret, retNext, next, currentTask, pendingFreeStack,
                     workingTask, workingTaskReady>>
  BY Zenon, <1>0 DEF LocalTypeOK, TaskOrNone
<1>4. Local(v)'
  BY ONLY Zenon, <1>0, <1>3, VcpuFacts, SchedulerAssumption,
     LocalInv
     DEF Local, At,
     InScheduleQ, InGetNext, Holding, MayHold, Callers, NoRet, SomePcs, NonePcs
<1>5. LocalInv'
  BY ONLY <1>0, <1>1, <1>2, <1>4, LocalInv, OthersLocal
<1> QED
  BY ONLY Zenon, <1>2, <1>3, <1>5

LEMMA YieldLocal ==
    ASSUME LocalInv, NEW v \in Worker, Yield(v)
    PROVE  /\ LocalInv' /\ Frame(v)
           /\ pc[v] = "Run" /\ pc'[v] = "Enqueue" /\ task'[v] = currentTask[v]
           /\ ret'[v] = "Wait"
           /\ UNCHANGED <<retNext, next, currentTask, pendingFreeStack,
                          workingTask, workingTaskReady>>
<1> USE DEF Yield, Goto, CallScheduleQ, queueVars, wakeVars, taskVars, cpuVars,
   getVars, argVars
<1>0. v \in Vcpu /\ 0 \in Vcpu /\ Local(v) /\ LocalTypeOK
  BY Zenon, VcpuFacts, LocalTypes DEF LocalInv
<1>a. currentTask[v] \in Task /\ queueId[currentTask[v]] \in Vcpu
  BY ZenonT(30), <1>0 DEF LocalInv, TypeOK, Local, At, InScheduleQ, TaskOrNone
<1>1. TypeOK'
  BY Zenon, <1>0, <1>a, Elems DEF LocalInv, TypeOK, TaskOrNone
<1>2. Frame(v)
  BY Zenon, <1>0 DEF LocalTypeOK, Same, Frame
<1>3. /\ pc[v] = "Run" /\ pc'[v] = "Enqueue" /\ task'[v] = currentTask[v]
      /\ ret'[v] = "Wait"
      /\ UNCHANGED <<retNext, next, currentTask, pendingFreeStack, workingTask,
                     workingTaskReady>>
  BY Zenon, <1>0, <1>a DEF LocalTypeOK, TaskOrNone
<1>4. Local(v)'
  BY ONLY ZenonT(30), <1>0, <1>3, VcpuFacts, SchedulerAssumption,
     LocalInv DEF Local, At,
     InScheduleQ, InGetNext, Holding, MayHold, Callers, NoRet, SomePcs, NonePcs
<1>5. LocalInv'
  BY ONLY <1>0, <1>1, <1>2, <1>4, LocalInv, OthersLocal
<1> QED
  BY ONLY ZenonT(30), <1>2, <1>3, <1>5

LEMMA RunWakeLocal ==
    ASSUME LocalInv, NEW v \in Worker, RunWake(v)
    PROVE  /\ LocalInv' /\ Frame(v)
           /\ pc[v] = "Run" /\ pc'[v] = "Enqueue" /\ task'[v] \in Task
           /\ ret'[v] = "Run"
           /\ UNCHANGED <<retNext, next, currentTask, pendingFreeStack,
                          workingTask, workingTaskReady>>
<1> USE DEF RunWake, Goto, WakeTask, CallScheduleQ, queueVars, wakeVars,
   taskVars, cpuVars, getVars, argVars
<1>0. v \in Vcpu /\ 0 \in Vcpu /\ Local(v) /\ LocalTypeOK
  BY ZenonT(40), VcpuFacts, LocalTypes DEF LocalInv
<1>1. TypeOK'
  <2>0. /\ pc \in [Vcpu -> PCs] /\ task \in [Vcpu -> TaskOrNone]
        /\ life \in [Task -> LifeStates] /\ vcpuId \in [Vcpu -> Vcpu]
        /\ cpuAff \in [Vcpu -> BOOLEAN] /\ queueId \in [Task -> Vcpu]
        /\ ret \in [Vcpu -> PCs \cup {NoRet}]
        /\ "Run" \in PCs /\ "Enqueue" \in PCs /\ "Running" \in LifeStates
    BY Zenon, Elems DEF LocalInv, TypeOK
  <2>1. pc' \in [Vcpu -> PCs]
    BY <1>0, <2>0
  <2>2. task' \in [Vcpu -> TaskOrNone]
    BY <1>0, <2>0 DEF TaskOrNone
  <2>3. life' \in [Task -> LifeStates]
    BY <1>0, <2>0
  <2>4. vcpuId' \in [Vcpu -> Vcpu] /\ cpuAff' \in [Vcpu -> BOOLEAN]
    BY <1>0, <2>0
  <2>5. ret' \in [Vcpu -> PCs \cup {NoRet}]
    BY <1>0, <2>0
  <2>u. UNCHANGED <<queue, workingTask, workingTaskReady, readyTaskCnt,
                    vcpuWaitMask, state, eventfd, ready, queueId, QInput,
                    currentTask, pendingFreeStack, next, retNext, idx>>
    BY Zenon
  <2> QED BY ONLY Zenon, <2>1, <2>2, <2>3, <2>4, <2>5, <2>u,
             LocalInv DEF LocalInv, TypeOK
<1>2. Frame(v)
  BY Zenon, <1>0 DEF LocalTypeOK, Same, Frame
<1>3. /\ pc[v] = "Run" /\ pc'[v] = "Enqueue" /\ task'[v] \in Task
      /\ ret'[v] = "Run"
      /\ UNCHANGED <<retNext, next, currentTask, pendingFreeStack, workingTask,
                     workingTaskReady>>
  BY Zenon, <1>0 DEF LocalTypeOK, TaskOrNone
<1>4. Local(v)'
  BY ONLY ZenonT(30), <1>0, <1>3, VcpuFacts, SchedulerAssumption,
     LocalInv DEF Local, At,
     InScheduleQ, InGetNext, Holding, MayHold, Callers, NoRet, SomePcs, NonePcs
<1>5. LocalInv'
  BY ONLY <1>0, <1>1, <1>2, <1>4, LocalInv, OthersLocal
<1> QED
  BY ONLY Zenon, <1>2, <1>3, <1>5

LEMMA RunCloneLocal ==
    ASSUME LocalInv, NEW v \in Worker, RunClone(v)
    PROVE  /\ LocalInv' /\ Frame(v)
           /\ pc[v] = "Run" /\ pc'[v] = "Enqueue" /\ task'[v] \in Task
           /\ ret'[v] = "Run"
           /\ UNCHANGED <<retNext, next, currentTask, pendingFreeStack,
                          workingTask, workingTaskReady>>
<1> USE DEF RunClone, Goto, CreateTask, CallScheduleQ, queueVars, wakeVars,
   taskVars, cpuVars, getVars, argVars
<1>0. v \in Vcpu /\ 0 \in Vcpu /\ Local(v) /\ LocalTypeOK
  BY Zenon, VcpuFacts, LocalTypes DEF LocalInv
<1>1. TypeOK'
  <2>1. ready' \in [Task -> BOOLEAN]
    <3>1. ready \in [Task -> BOOLEAN]
      BY Zenon DEF LocalInv, TypeOK
    <3> QED BY ZenonT(30), <1>0, <3>1 DEF Saved
  <2>2. queueId' \in [Task -> Vcpu]
    <3>1. queueId \in [Task -> Vcpu]
      BY Zenon DEF LocalInv, TypeOK
    <3> QED BY Zenon, <1>0, <3>1
  <2>3. life' \in [Task -> LifeStates]
    <3>1. life \in [Task -> LifeStates]
      BY Zenon DEF LocalInv, TypeOK
    <3> QED BY Zenon, <1>0, <3>1, Elems
  <2>4. pc' \in [Vcpu -> PCs]
    <3>1. pc \in [Vcpu -> PCs]
      BY Zenon DEF LocalInv, TypeOK
    <3> QED BY Zenon, <1>0, <3>1, Elems
  <2>5. task' \in [Vcpu -> TaskOrNone]
    <3>1. task \in [Vcpu -> TaskOrNone]
      BY Zenon DEF LocalInv, TypeOK
    <3> QED BY ZenonT(30), <1>0, <3>1 DEF TaskOrNone
  <2>6. vcpuId' \in [Vcpu -> Vcpu]
    <3>1. vcpuId \in [Vcpu -> Vcpu] /\ queueId \in [Task -> Vcpu]
      BY Zenon DEF LocalInv, TypeOK
    <3> QED BY Zenon, <1>0, <3>1
  <2>7. cpuAff' \in [Vcpu -> BOOLEAN]
    <3>1. cpuAff \in [Vcpu -> BOOLEAN]
      BY Zenon DEF LocalInv, TypeOK
    <3> QED BY Zenon, <1>0, <3>1
  <2>8. ret' \in [Vcpu -> PCs \cup {NoRet}]
    <3>1. ret \in [Vcpu -> PCs \cup {NoRet}]
      BY Zenon DEF LocalInv, TypeOK
    <3> QED BY Zenon, <1>0, <3>1, Elems
  <2>u. UNCHANGED <<queue, workingTask, workingTaskReady, readyTaskCnt,
                    vcpuWaitMask, state, eventfd, QInput, currentTask,
                    pendingFreeStack, next, retNext, idx>>
    BY Zenon
  <2> QED BY ONLY Zenon, <2>1, <2>2, <2>3, <2>4, <2>5, <2>6,
             <2>7, <2>8, <2>u,
     LocalInv DEF LocalInv, TypeOK
<1>2. Frame(v)
  BY ZenonT(40), <1>0 DEF LocalTypeOK, Same, Frame
<1>3. /\ pc[v] = "Run" /\ pc'[v] = "Enqueue" /\ task'[v] \in Task
      /\ ret'[v] = "Run"
      /\ UNCHANGED <<retNext, next, currentTask, pendingFreeStack, workingTask,
                     workingTaskReady>>
  BY Zenon, <1>0 DEF LocalTypeOK, TaskOrNone
<1>4. Local(v)'
  BY ONLY ZenonT(30), <1>0, <1>3, VcpuFacts, SchedulerAssumption,
     LocalInv DEF Local, At,
     InScheduleQ, InGetNext, Holding, MayHold, Callers, NoRet, SomePcs, NonePcs
<1>5. LocalInv'
  BY ONLY <1>0, <1>1, <1>2, <1>4, LocalInv, OthersLocal
<1> QED
  BY ONLY <1>2, <1>3, <1>5

LEMMA ExitLocal ==
    ASSUME LocalInv, NEW v \in Worker, Exit(v)
    PROVE  /\ LocalInv' /\ Frame(v)
           /\ pc[v] = "Run" /\ pc'[v] = "SwitchToWait"
           /\ pendingFreeStack'[v] = currentTask[v]
           /\ UNCHANGED <<task, ret, retNext, next, currentTask, workingTask,
                          workingTaskReady>>
<1> USE DEF Exit, Goto, queueVars, wakeVars, taskVars, cpuVars, getVars,
        argVars
<1>0. v \in Vcpu /\ 0 \in Vcpu /\ Local(v) /\ LocalTypeOK
  BY Zenon, VcpuFacts, LocalTypes DEF LocalInv
<1>1. TypeOK'
  BY ZenonT(30), <1>0, Elems DEF LocalInv, TypeOK, TaskOrNone
<1>2. Frame(v)
  BY Zenon, <1>0 DEF LocalTypeOK, Same, Frame
<1>3. /\ pc[v] = "Run" /\ pc'[v] = "SwitchToWait"
      /\ pendingFreeStack'[v] = currentTask[v]
      /\ UNCHANGED <<task, ret, retNext, next, currentTask, workingTask,
                     workingTaskReady>>
  BY Zenon, <1>0 DEF LocalTypeOK, TaskOrNone
<1>4. Local(v)'
  BY ONLY ZenonT(30), <1>0, <1>3, VcpuFacts, SchedulerAssumption,
     LocalInv DEF Local, At,
     InScheduleQ, InGetNext, Holding, MayHold, Callers, NoRet, SomePcs, NonePcs
<1>5. LocalInv'
  BY ONLY <1>0, <1>1, <1>2, <1>4, LocalInv, OthersLocal
<1> QED
  BY ONLY ZenonT(30), <1>2, <1>3, <1>5

LEMMA BootLocal ==
    ASSUME LocalInv, NEW v \in Worker, Boot(v)
    PROVE  /\ LocalInv' /\ Frame(v)
           /\ pc[v] = "Boot"
           /\ \/ /\ pc'[v] = "Next" /\ UNCHANGED <<task, ret>>
              \/ /\ pc'[v] = "Enqueue" /\ task'[v] \in Task
                 /\ ret'[v] = "Next"
           /\ UNCHANGED <<retNext, next, currentTask, pendingFreeStack,
                          workingTask, workingTaskReady>>
<1> USE DEF Boot, Goto, CreateTask, CallScheduleQ, queueVars, wakeVars,
   taskVars, cpuVars, getVars, argVars
<1>0. v \in Vcpu /\ 0 \in Vcpu /\ Local(v) /\ LocalTypeOK
  BY Zenon, VcpuFacts, LocalTypes DEF LocalInv
<1>1. TypeOK'
  <2>1. ready' \in [Task -> BOOLEAN]
    <3>1. ready \in [Task -> BOOLEAN]
      BY Zenon DEF LocalInv, TypeOK
    <3> QED BY ZenonT(30), <1>0, <3>1 DEF Saved
  <2>2. queueId' \in [Task -> Vcpu]
    <3>1. queueId \in [Task -> Vcpu]
      BY Zenon DEF LocalInv, TypeOK
    <3> QED BY Zenon, <1>0, <3>1
  <2>3. life' \in [Task -> LifeStates]
    <3>1. life \in [Task -> LifeStates]
      BY Zenon DEF LocalInv, TypeOK
    <3> QED BY Zenon, <1>0, <3>1, Elems
  <2>4. pc' \in [Vcpu -> PCs]
    <3>1. pc \in [Vcpu -> PCs]
      BY Zenon DEF LocalInv, TypeOK
    <3> QED BY Zenon, <1>0, <3>1, Elems
  <2>5. task' \in [Vcpu -> TaskOrNone]
    <3>1. task \in [Vcpu -> TaskOrNone]
      BY Zenon DEF LocalInv, TypeOK
    <3> QED BY ZenonT(30), <1>0, <3>1 DEF TaskOrNone
  <2>6. vcpuId' \in [Vcpu -> Vcpu]
    <3>1. vcpuId \in [Vcpu -> Vcpu] /\ queueId \in [Task -> Vcpu]
      BY Zenon DEF LocalInv, TypeOK
    <3> QED BY Zenon, <1>0, <3>1
  <2>7. cpuAff' \in [Vcpu -> BOOLEAN]
    <3>1. cpuAff \in [Vcpu -> BOOLEAN]
      BY Zenon DEF LocalInv, TypeOK
    <3> QED BY ZenonT(30), <1>0, <3>1
  <2>8. ret' \in [Vcpu -> PCs \cup {NoRet}]
    <3>1. ret \in [Vcpu -> PCs \cup {NoRet}]
      BY Zenon DEF LocalInv, TypeOK
    <3> QED BY Zenon, <1>0, <3>1, Elems
  <2>u. UNCHANGED <<queue, workingTask, workingTaskReady, readyTaskCnt,
                    vcpuWaitMask, state, eventfd, QInput, currentTask,
                    pendingFreeStack, next, retNext, idx>>
    BY Zenon
  <2> QED BY ONLY <2>1, <2>2, <2>3, <2>4, <2>5, <2>6, <2>7, <2>8, <2>u,
     LocalInv DEF LocalInv, TypeOK
<1>2. Frame(v)
  BY Zenon, <1>0 DEF LocalTypeOK, Same, Frame
<1>3. /\ pc[v] = "Boot"
      /\ \/ /\ pc'[v] = "Next" /\ UNCHANGED <<task, ret>>
         \/ /\ pc'[v] = "Enqueue" /\ task'[v] \in Task /\ ret'[v] = "Next"
      /\ UNCHANGED <<retNext, next, currentTask, pendingFreeStack, workingTask,
                     workingTaskReady>>
  BY ZenonT(30), <1>0 DEF LocalTypeOK, TaskOrNone
<1>4. Local(v)'
  BY ONLY ZenonT(30), <1>0, <1>3, VcpuFacts, SchedulerAssumption,
     LocalInv DEF Local, At,
     InScheduleQ, InGetNext, Holding, MayHold, Callers, NoRet, SomePcs, NonePcs
<1>5. LocalInv'
  BY ONLY <1>0, <1>1, <1>2, <1>4, LocalInv, OthersLocal
<1> QED
  BY ONLY Zenon, <1>2, <1>3, <1>5

LEMMA FreeStackLocal ==
    ASSUME LocalInv, NEW v \in Worker, FreeStack(v)
    PROVE  /\ LocalInv' /\ Frame(v)
           /\ pc[v] = "Free" /\ pc'[v] = "Next" /\ retNext'[v] = "WaitFn"
           /\ pendingFreeStack'[v] = NoTask
           /\ UNCHANGED <<task, ret, next, currentTask, workingTask,
                          workingTaskReady>>
<1> USE DEF FreeStack, Goto, CallGetNext, queueVars, wakeVars, taskVars,
   cpuVars, getVars, argVars
<1>0. v \in Vcpu /\ 0 \in Vcpu /\ Local(v) /\ LocalTypeOK
  BY Zenon, VcpuFacts, LocalTypes DEF LocalInv
<1>1. TypeOK'
  <2>1. life' \in [Task -> LifeStates]
    <3>1. life \in [Task -> LifeStates]
      BY Zenon DEF LocalInv, TypeOK
    <3> QED BY ZenonT(30), <1>0, <3>1, Elems
  <2>2. queueId' \in [Task -> Vcpu]
    <3>1. queueId \in [Task -> Vcpu]
      BY Zenon DEF LocalInv, TypeOK
    <3> QED BY ZenonT(30), <1>0, <3>1
  <2>3. pendingFreeStack' \in [Vcpu -> TaskOrNone]
    <3>1. pendingFreeStack \in [Vcpu -> TaskOrNone]
      BY Zenon DEF LocalInv, TypeOK
    <3> QED BY Zenon, <1>0, <3>1 DEF TaskOrNone
  <2>4. pc' \in [Vcpu -> PCs]
    <3>1. pc \in [Vcpu -> PCs]
      BY Zenon DEF LocalInv, TypeOK
    <3> QED BY Zenon, <1>0, <3>1, Elems
  <2>5. retNext' \in [Vcpu -> RetNexts]
    <3>1. retNext \in [Vcpu -> RetNexts]
      BY Zenon DEF LocalInv, TypeOK
    <3> QED BY Zenon, <1>0, <3>1, Elems
  <2>u. UNCHANGED <<queue, workingTask, workingTaskReady, readyTaskCnt,
                    vcpuWaitMask, state, eventfd, ready, QInput, currentTask,
                    next, task, vcpuId, cpuAff, ret, idx>>
    BY Zenon
  <2> QED BY ONLY Zenon, <2>1, <2>2, <2>3, <2>4, <2>5, <2>u,
             LocalInv DEF LocalInv,
     TypeOK
<1>2. Frame(v)
  BY Zenon, <1>0 DEF LocalTypeOK, Same, Frame
<1>3. /\ pc[v] = "Free" /\ pc'[v] = "Next" /\ retNext'[v] = "WaitFn"
      /\ pendingFreeStack'[v] = NoTask
      /\ UNCHANGED <<task, ret, next, currentTask, workingTask,
                     workingTaskReady>>
  BY Zenon, <1>0 DEF LocalTypeOK, TaskOrNone
<1>4. Local(v)'
  BY ONLY ZenonT(30), <1>0, <1>3, VcpuFacts, SchedulerAssumption,
     LocalInv DEF Local, At,
     InScheduleQ, InGetNext, Holding, MayHold, Callers, NoRet, SomePcs, NonePcs
<1>5. LocalInv'
  BY ONLY <1>0, <1>1, <1>2, <1>4, LocalInv, OthersLocal
<1> QED
  BY ONLY Zenon, <1>2, <1>3, <1>5

LEMMA WaitFnInputsLocal ==
    ASSUME LocalInv, NEW v \in Worker, WaitFnInputs(v)
    PROVE  /\ LocalInv' /\ Frame(v)
           /\ pc[v] = "Inputs"
           /\ \/ /\ pc'[v] = "VcpuWait" /\ next[v] = NoTask
                 /\ UNCHANGED <<task, ret>>
              \/ /\ pc'[v] = "ToRunning" /\ next[v] # NoTask
                 /\ UNCHANGED <<task, ret>>
              \/ /\ pc'[v] = "Enqueue" /\ task'[v] \in Task
                 /\ ret'[v] = "Inputs"
           /\ UNCHANGED <<retNext, next, currentTask, pendingFreeStack,
                          workingTask, workingTaskReady>>
<1> USE DEF WaitFnInputs, Goto, ProcessInputMsg, CreateTask, CallScheduleQ,
   queueVars, wakeVars, taskVars, cpuVars, getVars, argVars
<1>0. v \in Vcpu /\ 0 \in Vcpu /\ Local(v) /\ LocalTypeOK
  BY Zenon, VcpuFacts, LocalTypes DEF LocalInv
<1>a. QInput # <<>> => Head(QInput) \in Task /\ Tail(QInput) \in TaskSeq
  BY DEF LocalInv, TypeOK, TaskSeq
<1>1. TypeOK'
  <2>1. ready' \in [Task -> BOOLEAN]
    <3>1. ready \in [Task -> BOOLEAN]
      BY Zenon DEF LocalInv, TypeOK
    <3> QED BY ZenonT(30), <1>0, <1>a, <3>1 DEF Saved
  <2>2. queueId' \in [Task -> Vcpu]
    <3>1. queueId \in [Task -> Vcpu]
      BY Zenon DEF LocalInv, TypeOK
    <3> QED BY Zenon, <1>0, <1>a, <3>1
  <2>3. life' \in [Task -> LifeStates]
    <3>1. life \in [Task -> LifeStates]
      BY Zenon DEF LocalInv, TypeOK
    <3> QED BY Zenon, <1>0, <1>a, <3>1, Elems
  <2>4. QInput' \in TaskSeq
    <3>1. QInput \in TaskSeq
      BY Zenon DEF LocalInv, TypeOK
    <3> QED BY ZenonT(30), <1>0, <1>a, <3>1
  <2>5. pc' \in [Vcpu -> PCs]
    <3>1. pc \in [Vcpu -> PCs]
      BY Zenon DEF LocalInv, TypeOK
    <3> QED BY Zenon, <1>0, <1>a, <3>1, Elems
  <2>6. task' \in [Vcpu -> TaskOrNone]
    <3>1. task \in [Vcpu -> TaskOrNone]
      BY Zenon DEF LocalInv, TypeOK
    <3> QED BY Zenon, <1>0, <1>a, <3>1 DEF TaskOrNone
  <2>7. vcpuId' \in [Vcpu -> Vcpu]
    <3>1. vcpuId \in [Vcpu -> Vcpu] /\ queueId \in [Task -> Vcpu]
      BY Zenon DEF LocalInv, TypeOK
    <3> QED BY Zenon, <1>0, <1>a, <3>1
  <2>8. cpuAff' \in [Vcpu -> BOOLEAN]
    <3>1. cpuAff \in [Vcpu -> BOOLEAN]
      BY Zenon DEF LocalInv, TypeOK
    <3> QED BY ZenonT(30), <1>0, <1>a, <3>1
  <2>9. ret' \in [Vcpu -> PCs \cup {NoRet}]
    <3>1. ret \in [Vcpu -> PCs \cup {NoRet}]
      BY Zenon DEF LocalInv, TypeOK
    <3> QED BY Zenon, <1>0, <1>a, <3>1, Elems
  <2>u. UNCHANGED <<queue, workingTask, workingTaskReady, readyTaskCnt,
                    vcpuWaitMask, state, eventfd, currentTask,
                    pendingFreeStack, next, retNext, idx>>
    BY Zenon
  <2> QED BY ONLY Zenon, <2>1, <2>2, <2>3, <2>4, <2>5, <2>6,
             <2>7, <2>8, <2>9, <2>u,
     LocalInv DEF LocalInv, TypeOK
<1>2. Frame(v)
  BY Zenon, <1>0 DEF LocalTypeOK, Same, Frame
<1>3. /\ pc[v] = "Inputs"
      /\ \/ /\ pc'[v] = "VcpuWait" /\ next[v] = NoTask
            /\ UNCHANGED <<task, ret>>
         \/ /\ pc'[v] = "ToRunning" /\ next[v] # NoTask
            /\ UNCHANGED <<task, ret>>
         \/ /\ pc'[v] = "Enqueue" /\ task'[v] \in Task /\ ret'[v] = "Inputs"
      /\ UNCHANGED <<retNext, next, currentTask, pendingFreeStack, workingTask,
                     workingTaskReady>>
  BY ZenonT(30), <1>0, <1>a DEF LocalTypeOK, TaskOrNone
<1>4. Local(v)'
  BY ONLY ZenonT(30), <1>0, <1>3, VcpuFacts, SchedulerAssumption,
     LocalInv DEF Local, At,
     InScheduleQ, InGetNext, Holding, MayHold, Callers, NoRet, SomePcs, NonePcs
<1>5. LocalInv'
  BY ONLY <1>0, <1>1, <1>2, <1>4, LocalInv, OthersLocal
<1> QED
  BY ONLY ZenonT(30), <1>2, <1>3, <1>5

LEMMA VcpuWaitLocal ==
    ASSUME LocalInv, NEW v \in Worker, VcpuWait(v)
    PROVE  /\ LocalInv' /\ Frame(v)
           /\ pc[v] = "VcpuWait" /\ pc'[v] = "Next"
           /\ retNext'[v] = "Process1"
           /\ UNCHANGED <<task, ret, next, currentTask, pendingFreeStack,
                          workingTask, workingTaskReady>>
<1> USE DEF VcpuWait, Goto, CallGetNext, queueVars, wakeVars, taskVars,
   cpuVars, getVars, argVars
<1>0. v \in Vcpu /\ 0 \in Vcpu /\ Local(v) /\ LocalTypeOK
  BY ZenonT(40), VcpuFacts, LocalTypes DEF LocalInv
<1>1. TypeOK'
  BY Zenon, <1>0, Elems DEF LocalInv, TypeOK, TaskOrNone
<1>2. Frame(v)
  BY Zenon, <1>0 DEF LocalTypeOK, Same, Frame
<1>3. /\ pc[v] = "VcpuWait" /\ pc'[v] = "Next" /\ retNext'[v] = "Process1"
      /\ UNCHANGED <<task, ret, next, currentTask, pendingFreeStack,
                     workingTask, workingTaskReady>>
  BY Zenon, <1>0 DEF LocalTypeOK, TaskOrNone
<1>4. Local(v)'
  BY ONLY ZenonT(30), <1>0, <1>3, VcpuFacts, SchedulerAssumption,
     LocalInv DEF Local, At,
     InScheduleQ, InGetNext, Holding, MayHold, Callers, NoRet, SomePcs, NonePcs
<1>5. LocalInv'
  BY ONLY <1>0, <1>1, <1>2, <1>4, LocalInv, OthersLocal
<1> QED
  BY ONLY ZenonT(30), <1>2, <1>3, <1>5

LEMMA ContainsItemLocal ==
    ASSUME LocalInv, NEW v \in Worker, ContainsItem(v)
    PROVE  /\ LocalInv' /\ Frame(v)
           /\ \/ /\ pc[v] = "Input1" /\ pc'[v] \in {"MaskClear", "ToWaiting"}
              \/ /\ pc[v] = "Input2" /\ pc'[v] \in {"ToSearch", "MaskSet"}
           /\ UNCHANGED <<task, ret, retNext, next, currentTask,
                          pendingFreeStack, workingTask, workingTaskReady>>
<1> USE DEF ContainsItem, Goto, queueVars, wakeVars, taskVars, cpuVars,
   getVars, argVars
<1>0. v \in Vcpu /\ 0 \in Vcpu /\ Local(v) /\ LocalTypeOK
  BY Zenon, VcpuFacts, LocalTypes DEF LocalInv
<1>1. TypeOK'
  <2>1. pc' \in [Vcpu -> PCs]
    <3>1. pc \in [Vcpu -> PCs]
      BY Zenon DEF LocalInv, TypeOK
    <3> QED BY Zenon, <1>0, <3>1, Elems
  <2>u. UNCHANGED <<queue, workingTask, workingTaskReady, readyTaskCnt,
                    vcpuWaitMask, state, eventfd, ready, queueId, life, QInput,
                    currentTask, pendingFreeStack, next, retNext, task, vcpuId,
                    cpuAff, ret, idx>>
    BY Zenon
  <2> QED BY ONLY Zenon, <2>1, <2>u, LocalInv DEF LocalInv, TypeOK
<1>2. Frame(v)
  BY Zenon, <1>0 DEF LocalTypeOK, Same, Frame
<1>3. /\ \/ /\ pc[v] = "Input1" /\ pc'[v] \in {"MaskClear", "ToWaiting"}
         \/ /\ pc[v] = "Input2" /\ pc'[v] \in {"ToSearch", "MaskSet"}
      /\ UNCHANGED <<task, ret, retNext, next, currentTask, pendingFreeStack,
                     workingTask, workingTaskReady>>
  BY Zenon, <1>0 DEF LocalTypeOK, TaskOrNone
<1>4. Local(v)'
  BY ONLY ZenonT(30), <1>0, <1>3, VcpuFacts, SchedulerAssumption,
     LocalInv DEF Local, At,
     InScheduleQ, InGetNext, Holding, MayHold, Callers, NoRet, SomePcs, NonePcs
<1>5. LocalInv'
  BY ONLY <1>0, <1>1, <1>2, <1>4, LocalInv, OthersLocal
<1> QED
  BY ONLY ZenonT(30), <1>2, <1>3, <1>5

LEMMA ToWaitingLocal ==
    ASSUME LocalInv, NEW v \in Worker, ToWaiting(v)
    PROVE  /\ LocalInv' /\ Frame(v)
           /\ pc[v] = "ToWaiting" /\ pc'[v] = "Next"
           /\ retNext'[v] = "Process2"
           /\ UNCHANGED <<task, ret, next, currentTask, pendingFreeStack,
                          workingTask, workingTaskReady>>
<1> USE DEF ToWaiting, Goto, CallGetNext, queueVars, wakeVars, taskVars,
   cpuVars, getVars, argVars
<1>0. v \in Vcpu /\ 0 \in Vcpu /\ Local(v) /\ LocalTypeOK
  BY ZenonT(40), VcpuFacts, LocalTypes DEF LocalInv
<1>1. TypeOK'
  BY Zenon, <1>0, Elems DEF LocalInv, TypeOK, TaskOrNone
<1>2. Frame(v)
  BY Zenon, <1>0 DEF LocalTypeOK, Same, Frame
<1>3. /\ pc[v] = "ToWaiting" /\ pc'[v] = "Next" /\ retNext'[v] = "Process2"
      /\ UNCHANGED <<task, ret, next, currentTask, pendingFreeStack,
                     workingTask, workingTaskReady>>
  BY Zenon, <1>0 DEF LocalTypeOK, TaskOrNone
<1>4. Local(v)'
  BY ONLY ZenonT(30), <1>0, <1>3, VcpuFacts, SchedulerAssumption,
     LocalInv DEF Local, At,
     InScheduleQ, InGetNext, Holding, MayHold, Callers, NoRet, SomePcs, NonePcs
<1>5. LocalInv'
  BY ONLY <1>0, <1>1, <1>2, <1>4, LocalInv, OthersLocal
<1> QED
  BY ONLY Zenon, <1>2, <1>3, <1>5

LEMMA MaskSetLocal ==
    ASSUME LocalInv, NEW v \in Worker, MaskSet(v)
    PROVE  /\ LocalInv' /\ Frame(v)
           /\ pc[v] = "MaskSet"
           /\ \/ /\ pc'[v] = "Next" /\ retNext'[v] = "MaskSet"
              \/ /\ pc'[v] = "EpollWait" /\ UNCHANGED retNext
           /\ UNCHANGED <<task, ret, next, currentTask, pendingFreeStack,
                          workingTask, workingTaskReady>>
<1> USE DEF MaskSet, Goto, CallGetNext, queueVars, wakeVars, taskVars, cpuVars,
   getVars, argVars
<1>0. v \in Vcpu /\ 0 \in Vcpu /\ Local(v) /\ LocalTypeOK
  BY Zenon, VcpuFacts, LocalTypes DEF LocalInv
<1>1. TypeOK'
  <2>1. vcpuWaitMask' \in SUBSET Worker
    <3>1. vcpuWaitMask \in SUBSET Worker
      BY Zenon DEF LocalInv, TypeOK
    <3> QED BY ZenonT(30), <1>0, <3>1
  <2>2. pc' \in [Vcpu -> PCs]
    <3>1. pc \in [Vcpu -> PCs]
      BY Zenon DEF LocalInv, TypeOK
    <3> QED BY Zenon, <1>0, <3>1, Elems
  <2>3. retNext' \in [Vcpu -> RetNexts]
    <3>1. retNext \in [Vcpu -> RetNexts]
      BY Zenon DEF LocalInv, TypeOK
    <3> QED BY Zenon, <1>0, <3>1, Elems
  <2>u. UNCHANGED <<queue, workingTask, workingTaskReady, readyTaskCnt, state,
                    eventfd, ready, queueId, life, QInput, currentTask,
                    pendingFreeStack, next, task, vcpuId, cpuAff, ret, idx>>
    BY Zenon
  <2> QED BY ONLY Zenon, <2>1, <2>2, <2>3, <2>u, LocalInv DEF LocalInv, TypeOK
<1>2. Frame(v)
  BY Zenon, <1>0 DEF LocalTypeOK, Same, Frame
<1>3. /\ pc[v] = "MaskSet"
      /\ \/ /\ pc'[v] = "Next" /\ retNext'[v] = "MaskSet"
         \/ /\ pc'[v] = "EpollWait" /\ UNCHANGED retNext
      /\ UNCHANGED <<task, ret, next, currentTask, pendingFreeStack,
                     workingTask, workingTaskReady>>
  BY ZenonT(30), <1>0 DEF LocalTypeOK, TaskOrNone
<1>4. Local(v)'
  BY ONLY ZenonT(30), <1>0, <1>3, VcpuFacts, SchedulerAssumption,
     LocalInv DEF Local, At,
     InScheduleQ, InGetNext, Holding, MayHold, Callers, NoRet, SomePcs, NonePcs
<1>5. LocalInv'
  BY ONLY <1>0, <1>1, <1>2, <1>4, LocalInv, OthersLocal
<1> QED
  BY ONLY ZenonT(30), <1>2, <1>3, <1>5

LEMMA EpollWaitLocal ==
    ASSUME LocalInv, NEW v \in Worker, EpollWait(v)
    PROVE  /\ LocalInv' /\ Frame(v)
           /\ pc[v] = "EpollWait" /\ pc'[v] = "Next"
           /\ retNext'[v] = "Process2"
           /\ UNCHANGED <<task, ret, next, currentTask, pendingFreeStack,
                          workingTask, workingTaskReady>>
<1> USE DEF EpollWait, Goto, CallGetNext, queueVars, wakeVars, taskVars,
   cpuVars, getVars, argVars
<1>0. v \in Vcpu /\ 0 \in Vcpu /\ Local(v) /\ LocalTypeOK
  BY ZenonT(40), VcpuFacts, LocalTypes DEF LocalInv
<1>1. TypeOK'
  BY Zenon, <1>0, Elems DEF LocalInv, TypeOK, TaskOrNone
<1>2. Frame(v)
  BY Zenon, <1>0 DEF LocalTypeOK, Same, Frame
<1>3. /\ pc[v] = "EpollWait" /\ pc'[v] = "Next" /\ retNext'[v] = "Process2"
      /\ UNCHANGED <<task, ret, next, currentTask, pendingFreeStack,
                     workingTask, workingTaskReady>>
  BY Zenon, <1>0 DEF LocalTypeOK, TaskOrNone
<1>4. Local(v)'
  BY ONLY ZenonT(30), <1>0, <1>3, VcpuFacts, SchedulerAssumption,
     LocalInv DEF Local, At,
     InScheduleQ, InGetNext, Holding, MayHold, Callers, NoRet, SomePcs, NonePcs
<1>5. LocalInv'
  BY ONLY <1>0, <1>1, <1>2, <1>4, LocalInv, OthersLocal
<1> QED
  BY ONLY ZenonT(30), <1>2, <1>3, <1>5

LEMMA ToSearchLocal ==
    ASSUME LocalInv, NEW v \in Worker, ToSearch(v)
    PROVE  /\ LocalInv' /\ Frame(v)
           /\ pc[v] = "ToSearch" /\ pc'[v] = "MaskClear"
           /\ UNCHANGED <<task, ret, retNext, next, currentTask,
                          pendingFreeStack, workingTask, workingTaskReady>>
<1> USE DEF ToSearch, Goto, queueVars, wakeVars, taskVars, cpuVars, getVars,
   argVars
<1>0. v \in Vcpu /\ 0 \in Vcpu /\ Local(v) /\ LocalTypeOK
  BY ZenonT(40), VcpuFacts, LocalTypes DEF LocalInv
<1>1. TypeOK'
  BY Zenon, <1>0, Elems DEF LocalInv, TypeOK, TaskOrNone
<1>2. Frame(v)
  BY Zenon, <1>0 DEF LocalTypeOK, Same, Frame
<1>3. /\ pc[v] = "ToSearch" /\ pc'[v] = "MaskClear"
      /\ UNCHANGED <<task, ret, retNext, next, currentTask, pendingFreeStack,
                     workingTask, workingTaskReady>>
  BY Zenon, <1>0 DEF LocalTypeOK, TaskOrNone
<1>4. Local(v)'
  BY ONLY ZenonT(30), <1>0, <1>3, VcpuFacts, SchedulerAssumption,
     LocalInv DEF Local, At,
     InScheduleQ, InGetNext, Holding, MayHold, Callers, NoRet, SomePcs, NonePcs
<1>5. LocalInv'
  BY ONLY <1>0, <1>1, <1>2, <1>4, LocalInv, OthersLocal
<1> QED
  BY ONLY Zenon, <1>2, <1>3, <1>5

LEMMA VcpuWaitMaskClearLocal ==
    ASSUME LocalInv, NEW v \in Worker, VcpuWaitMaskClear(v)
    PROVE  /\ LocalInv' /\ Frame(v)
           /\ pc[v] = "MaskClear" /\ pc'[v] = "Inputs"
           /\ UNCHANGED <<task, ret, retNext, next, currentTask,
                          pendingFreeStack, workingTask, workingTaskReady>>
<1> USE DEF VcpuWaitMaskClear, Goto, queueVars, wakeVars, taskVars, cpuVars,
   getVars, argVars
<1>0. v \in Vcpu /\ 0 \in Vcpu /\ Local(v) /\ LocalTypeOK
  BY Zenon, VcpuFacts, LocalTypes DEF LocalInv
<1>1. TypeOK'
  BY ZenonT(30), <1>0, Elems DEF LocalInv, TypeOK, TaskOrNone
<1>2. Frame(v)
  BY Zenon, <1>0 DEF LocalTypeOK, Same, Frame
<1>3. /\ pc[v] = "MaskClear" /\ pc'[v] = "Inputs"
      /\ UNCHANGED <<task, ret, retNext, next, currentTask, pendingFreeStack,
                     workingTask, workingTaskReady>>
  BY Zenon, <1>0 DEF LocalTypeOK, TaskOrNone
<1>4. Local(v)'
  BY ONLY ZenonT(30), <1>0, <1>3, VcpuFacts, SchedulerAssumption,
     LocalInv DEF Local, At,
     InScheduleQ, InGetNext, Holding, MayHold, Callers, NoRet, SomePcs, NonePcs
<1>5. LocalInv'
  BY ONLY <1>0, <1>1, <1>2, <1>4, LocalInv, OthersLocal
<1> QED
  BY ONLY ZenonT(30), <1>2, <1>3, <1>5

LEMMA IOWakeLocal ==
    ASSUME LocalInv, NEW v \in {0}, IOWake(v)
    PROVE  /\ LocalInv' /\ Frame(v)
           /\ pc[v] = "IO" /\ pc'[v] = "Enqueue" /\ task'[v] \in Task
           /\ ret'[v] = "IO"
           /\ UNCHANGED <<retNext, next, currentTask, pendingFreeStack,
                          workingTask, workingTaskReady>>
<1> USE DEF IOWake, Goto, WakeTask, CallScheduleQ, queueVars, wakeVars,
   taskVars, cpuVars, getVars, argVars
<1>0. v \in Vcpu /\ 0 \in Vcpu /\ Local(v) /\ LocalTypeOK
  BY ZenonT(40), VcpuFacts, LocalTypes DEF LocalInv
<1>1. TypeOK'
  BY <1>0, Elems DEF LocalInv, TypeOK, TaskOrNone
<1>2. Frame(v)
  BY ZenonT(30), <1>0 DEF LocalTypeOK, Same, Frame
<1>3. /\ pc[v] = "IO" /\ pc'[v] = "Enqueue" /\ task'[v] \in Task
      /\ ret'[v] = "IO"
      /\ UNCHANGED <<retNext, next, currentTask, pendingFreeStack, workingTask,
                     workingTaskReady>>
  BY ZenonT(30), <1>0 DEF LocalTypeOK, TaskOrNone
<1>4. Local(v)'
  BY ONLY ZenonT(30), <1>0, <1>3, VcpuFacts, SchedulerAssumption,
     LocalInv DEF Local, At,
     InScheduleQ, InGetNext, Holding, MayHold, Callers, NoRet, SomePcs, NonePcs
<1>5. LocalInv'
  BY ONLY Zenon, <1>0, <1>1, <1>2, <1>4, LocalInv, OthersLocal
<1> QED
  BY ONLY Zenon, <1>2, <1>3, <1>5

LEMMA AQHostInputPushLocal ==
    ASSUME LocalInv, NEW v \in {0}, AQHostInputPush(v)
    PROVE  /\ LocalInv' /\ Frame(v)
           /\ pc[v] = "IO" /\ pc'[v] = "WakeOne" /\ ret'[v] = "IO"
           /\ UNCHANGED <<task, retNext, next, currentTask, pendingFreeStack,
                          workingTask, workingTaskReady>>
<1> USE DEF AQHostInputPush, Goto, queueVars, wakeVars, taskVars, cpuVars,
   getVars, argVars
<1>0. v \in Vcpu /\ 0 \in Vcpu /\ Local(v) /\ LocalTypeOK
  BY Zenon, VcpuFacts, LocalTypes DEF LocalInv
<1>1. TypeOK'
  <2>1. QInput' \in TaskSeq
    <3>1. QInput \in TaskSeq
      BY Zenon DEF LocalInv, TypeOK
    <3> QED BY <1>0, <3>1 DEF TaskSeq
  <2>2. pc' \in [Vcpu -> PCs]
    <3>1. pc \in [Vcpu -> PCs]
      BY Zenon DEF LocalInv, TypeOK
    <3> QED BY Zenon, <1>0, <3>1, Elems
  <2>3. ret' \in [Vcpu -> PCs \cup {NoRet}]
    <3>1. ret \in [Vcpu -> PCs \cup {NoRet}]
      BY Zenon DEF LocalInv, TypeOK
    <3> QED BY Zenon, <1>0, <3>1, Elems
  <2>u. UNCHANGED <<queue, workingTask, workingTaskReady, readyTaskCnt,
                    vcpuWaitMask, state, eventfd, ready, queueId, life,
                    currentTask, pendingFreeStack, next, retNext, task, vcpuId,
                    cpuAff, idx>>
    BY Zenon
  <2> QED BY ONLY Zenon, <2>1, <2>2, <2>3, <2>u, LocalInv
             DEF LocalInv, TypeOK
<1>2. Frame(v)
  BY Zenon, <1>0 DEF LocalTypeOK, Same, Frame
<1>3. /\ pc[v] = "IO" /\ pc'[v] = "WakeOne" /\ ret'[v] = "IO"
      /\ UNCHANGED <<task, retNext, next, currentTask, pendingFreeStack,
                     workingTask, workingTaskReady>>
  BY Zenon, <1>0 DEF LocalTypeOK, TaskOrNone
<1>4. Local(v)'
  BY ONLY ZenonT(30), <1>0, <1>3, VcpuFacts, SchedulerAssumption,
     LocalInv DEF Local, At,
     InScheduleQ, InGetNext, Holding, MayHold, Callers, NoRet, SomePcs, NonePcs
<1>5. LocalInv'
  BY ONLY <1>0, <1>1, <1>2, <1>4, LocalInv, OthersLocal
<1> QED
  BY ONLY Zenon, <1>2, <1>3, <1>5

(* Every step keeps LocalInv. *)
LEMMA LocalStep == LocalInv /\ [Next]_vars => LocalInv'
<1> SUFFICES ASSUME LocalInv, [Next]_vars PROVE LocalInv'
  BY Zenon
<1>1. CASE UNCHANGED vars
  BY ZenonT(30), <1>1 DEF vars, LocalInv, TypeOK, Local, At
<1>2. ASSUME NEW a \in Vcpu, ScheduleStep(a) PROVE LocalInv'
  BY ZenonT(30), <1>2, EnqueueLocal, IncReadyTaskCountLocal, ReadStateLocal,
     WakeOneLocal,
     WakeIdleCPULocal DEF ScheduleStep
<1>3. ASSUME NEW v \in Worker, GetNextStep(v) PROVE LocalInv'
  BY ZenonT(30), <1>3, NextTaskLocal, DecReadyTaskCountLocal,
     LoadReadyTaskCntLocal,
     StealLocal, SwapWoringTaskLocal, SetQueueIdLocal DEF GetNextStep
<1>4. ASSUME NEW v \in Worker, SwitchStep(v) PROVE LocalInv'
  BY ZenonT(30), <1>4, ToRunningLocal, SwitchLocal, SwitchToWaitTaskLocal
     DEF SwitchStep
<1>5. ASSUME NEW v \in Worker, WaitStep(v) PROVE LocalInv'
  BY ZenonT(30), <1>5, WaitToSearchLocal, WaitTimeoutLocal, WaitPollLocal
     DEF WaitStep
<1>6. ASSUME NEW v \in Worker, RunStep(v) PROVE LocalInv'
  BY ZenonT(30), <1>6, BlockLocal, YieldLocal, RunWakeLocal, RunCloneLocal,
     ExitLocal
     DEF RunStep
<1>7. ASSUME NEW v \in Worker, IdleStep(v) PROVE LocalInv'
  BY ZenonT(30), <1>7, BootLocal, FreeStackLocal, WaitFnInputsLocal,
     VcpuWaitLocal,
     ContainsItemLocal, ToWaitingLocal, MaskSetLocal, EpollWaitLocal,
     ToSearchLocal, VcpuWaitMaskClearLocal DEF IdleStep
<1>8. CASE IOWake(0)
  BY Zenon, <1>8, IOWakeLocal
<1>9. CASE AQHostInputPush(0)
  BY Zenon, <1>9, AQHostInputPushLocal
<1> QED
  BY Zenon, <1>1, <1>2, <1>3, <1>4, <1>5, <1>6, <1>7, <1>8, <1>9 DEF Next,
     WorkerStep

(* Every variable keeps its type, for every number of vcpus and tasks. *)
THEOREM TypeCorrect == Spec => []TypeOK
<1>1. Spec => []LocalInv
  BY LocalInit, LocalStep, PTL DEF Spec
<1>2. LocalInv => TypeOK
  BY Zenon DEF LocalInv
<1> QED
  BY <1>1, <1>2, PTL
=============================================================================
