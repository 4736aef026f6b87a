--------------------------- MODULE SchedulerProofs ---------------------------
(***************************************************************************)
(* Proofs about Scheduler: every action has one of the effects treated in  *)
(* SchedulerQueues and SchedulerSwitch, so OwnInv with LocalInv is          *)
(* inductive, and the safety properties of Scheduler follow from it, with  *)
(* WakeInv for the one about wakeups.                                      *)
(***************************************************************************)
EXTENDS SchedulerTypes, SchedulerQueues, SchedulerSwitch

-----------------------------------------------------------------------------
(* What the action lemmas start from. *)
LEMMA StepFrame ==
    ASSUME Inv, NEW v \in Vcpu, Frame(v)
    PROVE  OwnInv /\ OwnTypeOK /\ AtFrame(v) /\ Local(v)
  BY Zenon, OwnTypes DEF Inv, LocalInv, Frame, Same, AtFrame, At

LEMMA IncReadyTaskCountOwn ==
    ASSUME Inv, NEW v \in Vcpu, IncReadyTaskCount(v)
    PROVE  OwnInv'
<1>0. /\ OwnInv /\ OwnTypeOK /\ v \in Vcpu /\ AtFrame(v) /\ Local(v)
      /\ pc[v] = "IncReady" /\ pc'[v] = "ReadState"
      /\ UNCHANGED <<task, ret, retNext, next, currentTask, pendingFreeStack,
                     workingTask, workingTaskReady>>
  BY Zenon, IncReadyTaskCountLocal, StepFrame, VcpuFacts DEF Inv
<1>1. UNCHANGED <<queue, workingTask, workingTaskReady, ready, queueId, life,
                  currentTask, pendingFreeStack, next, task>>
  BY Zenon DEF IncReadyTaskCount, queueVars, wakeVars, taskVars, cpuVars,
     getVars,
     argVars
<1>2. \A u \in Vcpu : u # v => vcpuId'[u] = vcpuId[u]
  BY Zenon, <1>0 DEF IncReadyTaskCount, queueVars, wakeVars, taskVars, cpuVars,
     getVars, argVars, OwnTypeOK
<1>3. AtNeutral(v) /\ task[v] = NoTask
  BY ONLY Zenon, <1>0 DEF AtNeutral, Local, Stolen, At, InScheduleQ, Callers,
     SomePcs,
     NonePcs
<1> QED
  BY ONLY Zenon, <1>0, <1>1, <1>2, <1>3, SameQueue, NeutralStep

LEMMA ReadStateOwn ==
    ASSUME Inv, NEW v \in Vcpu, ReadState(v)
    PROVE  OwnInv'
<1>0. /\ OwnInv /\ OwnTypeOK /\ v \in Vcpu /\ AtFrame(v) /\ Local(v)
      /\ pc[v] = "ReadState"
      /\ \/ /\ pc'[v] = "WakeOne" /\ UNCHANGED ret
         \/ /\ pc'[v] = ret[v]
      /\ UNCHANGED <<task, retNext, next, currentTask, pendingFreeStack,
                     workingTask, workingTaskReady>>
  BY Zenon, ReadStateLocal, StepFrame, VcpuFacts DEF Inv
<1>1. UNCHANGED <<queue, workingTask, workingTaskReady, ready, queueId, life,
                  currentTask, pendingFreeStack, next, task>>
  BY Zenon DEF ReadState, WakeNext, Wakeup, ReturnScheduleQ, queueVars,
     wakeVars,
     taskVars, cpuVars, getVars, argVars
<1>2. \A u \in Vcpu : u # v => vcpuId'[u] = vcpuId[u]
  BY Zenon, <1>0 DEF ReadState, WakeNext, Wakeup, ReturnScheduleQ, queueVars,
     wakeVars, taskVars, cpuVars, getVars, argVars, OwnTypeOK
<1>3. AtNeutral(v) /\ task[v] = NoTask
  BY ONLY Zenon, <1>0 DEF AtNeutral, Local, Stolen, At, InScheduleQ, Callers,
     SomePcs,
     NonePcs
<1> QED
  BY ONLY Zenon, <1>0, <1>1, <1>2, <1>3, SameQueue, NeutralStep

LEMMA WakeOneOwn ==
    ASSUME Inv, NEW v \in Vcpu, WakeOne(v)
    PROVE  OwnInv'
<1>0. /\ OwnInv /\ OwnTypeOK /\ v \in Vcpu /\ AtFrame(v) /\ Local(v)
      /\ pc[v] = "WakeOne"
      /\ \/ /\ pc'[v] = "WakeIdle" /\ UNCHANGED ret
         \/ /\ pc'[v] = ret[v]
      /\ UNCHANGED <<task, retNext, next, currentTask, pendingFreeStack,
                     workingTask, workingTaskReady>>
  BY Zenon, WakeOneLocal, StepFrame, VcpuFacts DEF Inv
<1>1. UNCHANGED <<queue, workingTask, workingTaskReady, ready, queueId, life,
                  currentTask, pendingFreeStack, next, task>>
  BY Zenon DEF WakeOne, WakeNext, ReturnScheduleQ, queueVars, wakeVars,
     taskVars,
     cpuVars, getVars, argVars
<1>2. \A u \in Vcpu : u # v => vcpuId'[u] = vcpuId[u]
  BY Zenon, <1>0 DEF WakeOne, WakeNext, ReturnScheduleQ, queueVars, wakeVars,
     taskVars, cpuVars, getVars, argVars, OwnTypeOK
<1>3. AtNeutral(v) /\ task[v] = NoTask
  BY ONLY Zenon, <1>0 DEF AtNeutral, Local, Stolen, At, InScheduleQ, Callers,
     SomePcs,
     NonePcs
<1> QED
  BY ONLY Zenon, <1>0, <1>1, <1>2, <1>3, SameQueue, NeutralStep

LEMMA WakeIdleCPUOwn ==
    ASSUME Inv, NEW v \in Vcpu, WakeIdleCPU(v)
    PROVE  OwnInv'
<1>0. /\ OwnInv /\ OwnTypeOK /\ v \in Vcpu /\ AtFrame(v) /\ Local(v)
      /\ pc[v] = "WakeIdle"
      /\ \/ /\ pc'[v] = "WakeOne" /\ UNCHANGED ret
         \/ /\ pc'[v] = ret[v]
      /\ UNCHANGED <<task, retNext, next, currentTask, pendingFreeStack,
                     workingTask, workingTaskReady>>
  BY Zenon, WakeIdleCPULocal, StepFrame, VcpuFacts DEF Inv
<1>1. UNCHANGED <<queue, workingTask, workingTaskReady, ready, queueId, life,
                  currentTask, pendingFreeStack, next, task>>
  BY Zenon DEF WakeIdleCPU, WakeNext, Wakeup, ReturnScheduleQ, queueVars,
     wakeVars,
     taskVars, cpuVars, getVars, argVars
<1>2. \A u \in Vcpu : u # v => vcpuId'[u] = vcpuId[u]
  BY Zenon, <1>0 DEF WakeIdleCPU, WakeNext, Wakeup, ReturnScheduleQ, queueVars,
     wakeVars, taskVars, cpuVars, getVars, argVars, OwnTypeOK
<1>3. AtNeutral(v) /\ task[v] = NoTask
  BY ONLY Zenon, <1>0 DEF AtNeutral, Local, Stolen, At, InScheduleQ, Callers,
     SomePcs,
     NonePcs
<1> QED
  BY ONLY Zenon, <1>0, <1>1, <1>2, <1>3, SameQueue, NeutralStep

LEMMA DecReadyTaskCountOwn ==
    ASSUME Inv, NEW v \in Worker, DecReadyTaskCount(v)
    PROVE  OwnInv'
<1>0. /\ OwnInv /\ OwnTypeOK /\ v \in Vcpu /\ AtFrame(v) /\ Local(v)
      /\ \/ /\ pc[v] = "DecNext" /\ pc'[v] \in SomePcs /\ retNext'[v] = NoRet
         \/ /\ pc[v] = "DecSteal" /\ pc'[v] = "Swap" /\ UNCHANGED retNext
      /\ UNCHANGED <<task, ret, next, currentTask, pendingFreeStack,
                     workingTask, workingTaskReady>>
  BY Zenon, DecReadyTaskCountLocal, StepFrame, VcpuFacts DEF Inv
<1>1. UNCHANGED <<queue, workingTask, workingTaskReady, ready, queueId, life,
                  currentTask, pendingFreeStack, next, task>>
  BY Zenon DEF DecReadyTaskCount, GetNextSome, queueVars, wakeVars, taskVars,
     cpuVars, getVars, argVars
<1>2. \A u \in Vcpu : u # v => vcpuId'[u] = vcpuId[u]
  BY Zenon, <1>0 DEF DecReadyTaskCount, GetNextSome, queueVars, wakeVars,
     taskVars,
     cpuVars, getVars, argVars, OwnTypeOK
<1>3. AtNeutral(v) /\ task[v] = NoTask
  BY ONLY Zenon, <1>0 DEF AtNeutral, Local, Stolen, At, InScheduleQ, Callers,
     SomePcs,
     NonePcs
<1> QED
  BY ONLY Zenon, <1>0, <1>1, <1>2, <1>3, SameQueue, NeutralStep

LEMMA LoadReadyTaskCntOwn ==
    ASSUME Inv, NEW v \in Worker, LoadReadyTaskCnt(v)
    PROVE  OwnInv'
<1>0. /\ OwnInv /\ OwnTypeOK /\ v \in Vcpu /\ AtFrame(v) /\ Local(v)
      /\ pc[v] = "LoadReady"
      /\ \/ /\ pc'[v] \in NonePcs /\ retNext'[v] = NoRet
            /\ (pc'[v] = "Search" => retNext[v] = "Wait")
         \/ /\ pc'[v] = "Steal" /\ UNCHANGED retNext
      /\ UNCHANGED <<task, ret, next, currentTask, pendingFreeStack,
                     workingTask, workingTaskReady>>
  BY Zenon, LoadReadyTaskCntLocal, StepFrame, VcpuFacts DEF Inv
<1>1. UNCHANGED <<queue, workingTask, workingTaskReady, ready, queueId, life,
                  currentTask, pendingFreeStack, next, task>>
  BY Zenon DEF LoadReadyTaskCnt, GetNextNone, queueVars, wakeVars, taskVars,
     cpuVars,
     getVars, argVars
<1>2. \A u \in Vcpu : u # v => vcpuId'[u] = vcpuId[u]
  BY Zenon, <1>0 DEF LoadReadyTaskCnt, GetNextNone, queueVars, wakeVars,
     taskVars,
     cpuVars, getVars, argVars, OwnTypeOK
<1>3. AtNeutral(v) /\ task[v] = NoTask
  BY ONLY Zenon, <1>0 DEF AtNeutral, Local, Stolen, At, InScheduleQ, Callers,
     SomePcs,
     NonePcs
<1> QED
  BY ONLY Zenon, <1>0, <1>1, <1>2, <1>3, SameQueue, NeutralStep

LEMMA WaitToSearchOwn ==
    ASSUME Inv, NEW v \in Worker, WaitToSearch(v)
    PROVE  OwnInv'
<1>0. /\ OwnInv /\ OwnTypeOK /\ v \in Vcpu /\ AtFrame(v) /\ Local(v)
      /\ pc[v] = "Wait" /\ pc'[v] = "Next" /\ retNext'[v] = "Wait"
      /\ UNCHANGED <<task, ret, next, currentTask, pendingFreeStack,
                     workingTask, workingTaskReady>>
  BY Zenon, WaitToSearchLocal, StepFrame, VcpuFacts DEF Inv
<1>1. UNCHANGED <<queue, workingTask, workingTaskReady, ready, queueId, life,
                  currentTask, pendingFreeStack, next, task>>
  BY Zenon DEF WaitToSearch, CallGetNext, queueVars, wakeVars, taskVars,
     cpuVars,
     getVars, argVars
<1>2. \A u \in Vcpu : u # v => vcpuId'[u] = vcpuId[u]
  BY Zenon, <1>0 DEF WaitToSearch, CallGetNext, queueVars, wakeVars, taskVars,
     cpuVars, getVars, argVars, OwnTypeOK
<1>3. AtNeutral(v) /\ task[v] = NoTask
  BY ONLY Zenon, <1>0 DEF AtNeutral, Local, Stolen, At, InScheduleQ, Callers,
     SomePcs,
     NonePcs
<1> QED
  BY ONLY Zenon, <1>0, <1>1, <1>2, <1>3, SameQueue, NeutralStep

LEMMA VcpuWaitOwn ==
    ASSUME Inv, NEW v \in Worker, VcpuWait(v)
    PROVE  OwnInv'
<1>0. /\ OwnInv /\ OwnTypeOK /\ v \in Vcpu /\ AtFrame(v) /\ Local(v)
      /\ pc[v] = "VcpuWait" /\ pc'[v] = "Next" /\ retNext'[v] = "Process1"
      /\ UNCHANGED <<task, ret, next, currentTask, pendingFreeStack,
                     workingTask, workingTaskReady>>
  BY Zenon, VcpuWaitLocal, StepFrame, VcpuFacts DEF Inv
<1>1. UNCHANGED <<queue, workingTask, workingTaskReady, ready, queueId, life,
                  currentTask, pendingFreeStack, next, task>>
  BY Zenon DEF VcpuWait, CallGetNext, queueVars, wakeVars, taskVars, cpuVars,
     getVars, argVars
<1>2. \A u \in Vcpu : u # v => vcpuId'[u] = vcpuId[u]
  BY Zenon, <1>0 DEF VcpuWait, CallGetNext, queueVars, wakeVars, taskVars,
     cpuVars,
     getVars, argVars, OwnTypeOK
<1>3. AtNeutral(v) /\ task[v] = NoTask
  BY ONLY Zenon, <1>0 DEF AtNeutral, Local, Stolen, At, InScheduleQ, Callers,
     SomePcs,
     NonePcs
<1> QED
  BY ONLY Zenon, <1>0, <1>1, <1>2, <1>3, SameQueue, NeutralStep

LEMMA ContainsItemOwn ==
    ASSUME Inv, NEW v \in Worker, ContainsItem(v)
    PROVE  OwnInv'
<1>0. /\ OwnInv /\ OwnTypeOK /\ v \in Vcpu /\ AtFrame(v) /\ Local(v)
      /\ \/ /\ pc[v] = "Input1" /\ pc'[v] \in {"MaskClear", "ToWaiting"}
         \/ /\ pc[v] = "Input2" /\ pc'[v] \in {"ToSearch", "MaskSet"}
      /\ UNCHANGED <<task, ret, retNext, next, currentTask, pendingFreeStack,
                     workingTask, workingTaskReady>>
  BY Zenon, ContainsItemLocal, StepFrame, VcpuFacts DEF Inv
<1>1. UNCHANGED <<queue, workingTask, workingTaskReady, ready, queueId, life,
                  currentTask, pendingFreeStack, next, task>>
  BY Zenon DEF ContainsItem, queueVars, wakeVars, taskVars, cpuVars, getVars,
     argVars
<1>2. \A u \in Vcpu : u # v => vcpuId'[u] = vcpuId[u]
  BY Zenon, <1>0 DEF ContainsItem, queueVars, wakeVars, taskVars, cpuVars,
     getVars,
     argVars, OwnTypeOK
<1>3. AtNeutral(v) /\ task[v] = NoTask
  BY ONLY Zenon, <1>0 DEF AtNeutral, Local, Stolen, At, InScheduleQ, Callers,
     SomePcs,
     NonePcs
<1> QED
  BY ONLY Zenon, <1>0, <1>1, <1>2, <1>3, SameQueue, NeutralStep

LEMMA ToWaitingOwn ==
    ASSUME Inv, NEW v \in Worker, ToWaiting(v)
    PROVE  OwnInv'
<1>0. /\ OwnInv /\ OwnTypeOK /\ v \in Vcpu /\ AtFrame(v) /\ Local(v)
      /\ pc[v] = "ToWaiting" /\ pc'[v] = "Next" /\ retNext'[v] = "Process2"
      /\ UNCHANGED <<task, ret, next, currentTask, pendingFreeStack,
                     workingTask, workingTaskReady>>
  BY Zenon, ToWaitingLocal, StepFrame, VcpuFacts DEF Inv
<1>1. UNCHANGED <<queue, workingTask, workingTaskReady, ready, queueId, life,
                  currentTask, pendingFreeStack, next, task>>
  BY Zenon DEF ToWaiting, CallGetNext, queueVars, wakeVars, taskVars, cpuVars,
     getVars, argVars
<1>2. \A u \in Vcpu : u # v => vcpuId'[u] = vcpuId[u]
  BY Zenon, <1>0 DEF ToWaiting, CallGetNext, queueVars, wakeVars, taskVars,
     cpuVars,
     getVars, argVars, OwnTypeOK
<1>3. AtNeutral(v) /\ task[v] = NoTask
  BY ONLY Zenon, <1>0 DEF AtNeutral, Local, Stolen, At, InScheduleQ, Callers,
     SomePcs,
     NonePcs
<1> QED
  BY ONLY Zenon, <1>0, <1>1, <1>2, <1>3, SameQueue, NeutralStep

LEMMA MaskSetOwn ==
    ASSUME Inv, NEW v \in Worker, MaskSet(v)
    PROVE  OwnInv'
<1>0. /\ OwnInv /\ OwnTypeOK /\ v \in Vcpu /\ AtFrame(v) /\ Local(v)
      /\ pc[v] = "MaskSet"
      /\ \/ /\ pc'[v] = "Next" /\ retNext'[v] = "MaskSet"
         \/ /\ pc'[v] = "EpollWait" /\ UNCHANGED retNext
      /\ UNCHANGED <<task, ret, next, currentTask, pendingFreeStack,
                     workingTask, workingTaskReady>>
  BY Zenon, MaskSetLocal, StepFrame, VcpuFacts DEF Inv
<1>1. UNCHANGED <<queue, workingTask, workingTaskReady, ready, queueId, life,
                  currentTask, pendingFreeStack, next, task>>
  BY Zenon DEF MaskSet, CallGetNext, queueVars, wakeVars, taskVars, cpuVars,
     getVars,
     argVars
<1>2. \A u \in Vcpu : u # v => vcpuId'[u] = vcpuId[u]
  BY Zenon, <1>0 DEF MaskSet, CallGetNext, queueVars, wakeVars, taskVars,
     cpuVars,
     getVars, argVars, OwnTypeOK
<1>3. AtNeutral(v) /\ task[v] = NoTask
  BY ONLY Zenon, <1>0 DEF AtNeutral, Local, Stolen, At, InScheduleQ, Callers,
     SomePcs,
     NonePcs
<1> QED
  BY ONLY Zenon, <1>0, <1>1, <1>2, <1>3, SameQueue, NeutralStep

LEMMA EpollWaitOwn ==
    ASSUME Inv, NEW v \in Worker, EpollWait(v)
    PROVE  OwnInv'
<1>0. /\ OwnInv /\ OwnTypeOK /\ v \in Vcpu /\ AtFrame(v) /\ Local(v)
      /\ pc[v] = "EpollWait" /\ pc'[v] = "Next" /\ retNext'[v] = "Process2"
      /\ UNCHANGED <<task, ret, next, currentTask, pendingFreeStack,
                     workingTask, workingTaskReady>>
  BY Zenon, EpollWaitLocal, StepFrame, VcpuFacts DEF Inv
<1>1. UNCHANGED <<queue, workingTask, workingTaskReady, ready, queueId, life,
                  currentTask, pendingFreeStack, next, task>>
  BY Zenon DEF EpollWait, CallGetNext, queueVars, wakeVars, taskVars, cpuVars,
     getVars, argVars
<1>2. \A u \in Vcpu : u # v => vcpuId'[u] = vcpuId[u]
  BY Zenon, <1>0 DEF EpollWait, CallGetNext, queueVars, wakeVars, taskVars,
     cpuVars,
     getVars, argVars, OwnTypeOK
<1>3. AtNeutral(v) /\ task[v] = NoTask
  BY ONLY Zenon, <1>0 DEF AtNeutral, Local, Stolen, At, InScheduleQ, Callers,
     SomePcs,
     NonePcs
<1> QED
  BY ONLY Zenon, <1>0, <1>1, <1>2, <1>3, SameQueue, NeutralStep

LEMMA ToSearchOwn ==
    ASSUME Inv, NEW v \in Worker, ToSearch(v)
    PROVE  OwnInv'
<1>0. /\ OwnInv /\ OwnTypeOK /\ v \in Vcpu /\ AtFrame(v) /\ Local(v)
      /\ pc[v] = "ToSearch" /\ pc'[v] = "MaskClear"
      /\ UNCHANGED <<task, ret, retNext, next, currentTask, pendingFreeStack,
                     workingTask, workingTaskReady>>
  BY Zenon, ToSearchLocal, StepFrame, VcpuFacts DEF Inv
<1>1. UNCHANGED <<queue, workingTask, workingTaskReady, ready, queueId, life,
                  currentTask, pendingFreeStack, next, task>>
  BY Zenon DEF ToSearch, queueVars, wakeVars, taskVars, cpuVars, getVars,
     argVars
<1>2. \A u \in Vcpu : u # v => vcpuId'[u] = vcpuId[u]
  BY Zenon, <1>0 DEF ToSearch, queueVars, wakeVars, taskVars, cpuVars, getVars,
     argVars, OwnTypeOK
<1>3. AtNeutral(v) /\ task[v] = NoTask
  BY ONLY Zenon, <1>0 DEF AtNeutral, Local, Stolen, At, InScheduleQ, Callers,
     SomePcs,
     NonePcs
<1> QED
  BY ONLY Zenon, <1>0, <1>1, <1>2, <1>3, SameQueue, NeutralStep

LEMMA VcpuWaitMaskClearOwn ==
    ASSUME Inv, NEW v \in Worker, VcpuWaitMaskClear(v)
    PROVE  OwnInv'
<1>0. /\ OwnInv /\ OwnTypeOK /\ v \in Vcpu /\ AtFrame(v) /\ Local(v)
      /\ pc[v] = "MaskClear" /\ pc'[v] = "Inputs"
      /\ UNCHANGED <<task, ret, retNext, next, currentTask, pendingFreeStack,
                     workingTask, workingTaskReady>>
  BY Zenon, VcpuWaitMaskClearLocal, StepFrame, VcpuFacts DEF Inv
<1>1. UNCHANGED <<queue, workingTask, workingTaskReady, ready, queueId, life,
                  currentTask, pendingFreeStack, next, task>>
  BY Zenon DEF VcpuWaitMaskClear, queueVars, wakeVars, taskVars, cpuVars,
     getVars,
     argVars
<1>2. \A u \in Vcpu : u # v => vcpuId'[u] = vcpuId[u]
  BY Zenon, <1>0 DEF VcpuWaitMaskClear, queueVars, wakeVars, taskVars, cpuVars,
     getVars, argVars, OwnTypeOK
<1>3. AtNeutral(v) /\ task[v] = NoTask
  BY ONLY Zenon, <1>0 DEF AtNeutral, Local, Stolen, At, InScheduleQ, Callers,
     SomePcs,
     NonePcs
<1> QED
  BY ONLY Zenon, <1>0, <1>1, <1>2, <1>3, SameQueue, NeutralStep

LEMMA AQHostInputPushOwn ==
    ASSUME Inv, NEW v \in {0}, AQHostInputPush(v)
    PROVE  OwnInv'
<1>0. /\ OwnInv /\ OwnTypeOK /\ v \in Vcpu /\ AtFrame(v) /\ Local(v)
      /\ pc[v] = "IO" /\ pc'[v] = "WakeOne" /\ ret'[v] = "IO"
      /\ UNCHANGED <<task, retNext, next, currentTask, pendingFreeStack,
                     workingTask, workingTaskReady>>
  BY Zenon, AQHostInputPushLocal, StepFrame, VcpuFacts DEF Inv
<1>1. UNCHANGED <<queue, workingTask, workingTaskReady, ready, queueId, life,
                  currentTask, pendingFreeStack, next, task>>
  BY Zenon DEF AQHostInputPush, queueVars, wakeVars, taskVars, cpuVars,
     getVars,
     argVars
<1>2. \A u \in Vcpu : u # v => vcpuId'[u] = vcpuId[u]
  BY Zenon, <1>0 DEF AQHostInputPush, queueVars, wakeVars, taskVars, cpuVars,
     getVars,
     argVars, OwnTypeOK
<1>3. AtNeutral(v) /\ task[v] = NoTask
  BY ONLY Zenon, <1>0 DEF AtNeutral, Local, Stolen, At, InScheduleQ, Callers,
     SomePcs,
     NonePcs
<1> QED
  BY ONLY Zenon, <1>0, <1>1, <1>2, <1>3, SameQueue, NeutralStep

(* InQueue and In. *)
LEMMA InQueueIn ==
    \A q, t : /\ InQueue(q, t) <=> In(queue[q], t)
              /\ InQueue(q, t)' <=> In(queue'[q], t)
  BY Zenon DEF InQueue, In

LEMMA EnqueueOwn ==
    ASSUME Inv, NEW v \in Vcpu, Enqueue(v)
    PROVE  OwnInv'
<1>0. /\ OwnInv /\ OwnTypeOK /\ v \in Vcpu /\ AtFrame(v) /\ Local(v)
      /\ pc[v] = "Enqueue" /\ pc'[v] \in {"ReadState", "IncReady"}
      /\ task'[v] = NoTask /\ ret'[v] = ret[v]
      /\ workingTaskReady'[v] =>
                  workingTaskReady[v] \/ workingTask[v] # NoTask
      /\ UNCHANGED <<retNext, next, currentTask, pendingFreeStack, workingTask>>
  BY Zenon, EnqueueLocal, StepFrame, VcpuFacts DEF Inv
<1>1. task[v] \in Task /\ vcpuId[v] \in Vcpu
  BY ONLY Zenon, <1>0 DEF Local, OwnTypeOK, TaskOrNone
<1>2. AtNeutral(v)
  BY ONLY Zenon, <1>0 DEF AtNeutral, Local, At, InScheduleQ, InGetNext,
     Holding,
     MayHold, Callers, SomePcs, NonePcs, Stolen
<1>3. /\ task' = [task EXCEPT ![v] = NoTask]
      /\ UNCHANGED <<workingTask, ready, queueId, life, currentTask,
                     pendingFreeStack, next, vcpuId>>
  BY Zenon DEF Enqueue, Goto, queueVars, wakeVars, taskVars, cpuVars,
     getVars, argVars
<1>4. CASE cpuAff[v] /\ task[v] = workingTask[vcpuId[v]]
  <2>1. /\ UNCHANGED queue
        /\ workingTaskReady' = [workingTaskReady EXCEPT ![vcpuId[v]] = TRUE]
    BY Zenon, <1>4 DEF Enqueue
  <2> QED BY ONLY Zenon, <1>0, <1>1, <1>2, <1>3, <1>4, <2>1, SameQueue,
             EnqueueSlot
<1>5. CASE ~(cpuAff[v] /\ task[v] = workingTask[vcpuId[v]])
  <2> DEFINE p == vcpuId[v]
             s == queue[p]
  <2>1. queue' = [queue EXCEPT ![p] = Append(s,
            task[v])] /\ UNCHANGED workingTaskReady
    BY Zenon, <1>5 DEF Enqueue
  <2>2. queue \in [Vcpu -> TaskSeq] /\ s \in Seq(Task)
    BY Zenon, <1>1 DEF Inv, LocalInv, TypeOK, TaskSeq
  <2>3. (\A q \in Vcpu : Distinct(queue[q])) /\ ~In(s, task[v])
    BY Zenon, <1>0, <1>1, InQueueIn DEF OwnInv, OneEntry, Holds
  <2>4. /\ \A x : In(Append(s, task[v]), x) <=> In(s, x) \/ x = task[v]
        /\ Distinct(Append(s, task[v]))
    BY ONLY <1>1, <2>2, <2>3, AppendIn
  <2>5. \A q \in Vcpu : queue'[q] = IF q = p THEN Append(s,
            task[v]) ELSE queue[q]
    BY ONLY Zenon, <2>1, <2>2
  <2> HIDE DEF s
  <2>6. \A q \in Vcpu : Distinct(queue'[q])
    BY ONLY Zenon, <2>3, <2>4, <2>5
  <2>7. \A q \in Vcpu, t \in Task :
           InQueue(q, t)' <=> InQueue(q, t) \/ (q = p /\ t = task[v])
    BY ONLY ZenonT(40), <2>4, <2>5, InQueueIn DEF s
  <2> QED BY ONLY ZenonT(40), <1>0, <1>1, <1>2, <1>3, <2>1, <2>6, <2>7,
             EnqueueQueue
<1> QED BY Zenon, <1>4, <1>5

LEMMA NextTaskOwn ==
    ASSUME Inv, NEW v \in Worker, NextTask(v)
    PROVE  OwnInv'
<1>0. /\ OwnInv /\ OwnTypeOK /\ v \in Vcpu /\ AtFrame(v) /\ Local(v)
      /\ pc[v] = "Next"
      /\ \/ /\ workingTaskReady[v] /\ ~workingTaskReady'[v]
            /\ next'[v] = workingTask[v] /\ pc'[v] \in SomePcs
            /\ retNext'[v] = NoRet /\ workingTask' = workingTask
         \/ /\ pc'[v] = "DecNext" /\ next'[v] \in Task
            /\ workingTask'[v] = next'[v]
            /\ UNCHANGED <<workingTaskReady, retNext>>
         \/ /\ pc'[v] = "LoadReady"
            /\ UNCHANGED <<next, workingTask, workingTaskReady, retNext>>
      /\ UNCHANGED <<task, ret, currentTask, pendingFreeStack>>
  BY Zenon, NextTaskLocal, StepFrame, VcpuFacts DEF Inv
<1>1. /\ next[v] = NoTask /\ task[v] = NoTask /\ pc[v] # "SwitchToWait"
      /\ pc'[v] # "SwitchToWait"
      /\ At(v)' # "Run"
      /\ At(v)' \notin Stolen \cup {"SetQueueId"}
  BY ONLY Zenon, <1>0 DEF Local, At, InScheduleQ, InGetNext, Holding, MayHold,
     Callers, SomePcs, NonePcs, Stolen
<1>2. UNCHANGED <<ready, queueId, life, currentTask, pendingFreeStack, task,
                  vcpuId>>
  BY Zenon DEF NextTask, Goto, GetNextSome, queueVars, wakeVars, taskVars,
     cpuVars,
     getVars, argVars
<1>3. CASE workingTaskReady[v]
  <2>1. workingTask[v] \in Task
    BY ONLY Zenon, <1>0, <1>3 DEF Local, OwnTypeOK, TaskOrNone
  <2>2. /\ UNCHANGED <<queue, workingTask>>
        /\ workingTaskReady' = [workingTaskReady EXCEPT ![v] = FALSE]
        /\ next' = [next EXCEPT ![v] = workingTask[v]]
    BY Zenon, <1>3 DEF NextTask
  <2> QED BY ONLY Zenon, <1>0, <1>1, <1>2, <1>3, <2>1, <2>2, SameQueue,
             TakeSlot
<1>4. CASE ~workingTaskReady[v] /\ queue[v] # <<>>
  <2> DEFINE s == queue[v]
             x == Head(s)
  <2>1. /\ queue' = [queue EXCEPT ![v] = Tail(s)]
        /\ workingTask' = [workingTask EXCEPT ![v] = x]
        /\ next' = [next EXCEPT ![v] = x]
        /\ UNCHANGED workingTaskReady
    BY Zenon, <1>4 DEF NextTask
  <2>2. queue \in [Vcpu -> TaskSeq] /\ s \in Seq(Task) /\ x \in Task
    BY <1>0, <1>4 DEF Inv, LocalInv, TypeOK, TaskSeq
  <2>3. \A q \in Vcpu : Distinct(queue[q])
    BY Zenon, <1>0 DEF OwnInv, OneEntry
  <2>4. /\ \A y : In(Tail(s), y) <=> In(s, y) /\ y # x
        /\ In(s, x) /\ Distinct(Tail(s))
    BY ONLY Zenon, <1>0, <1>4, <2>2, <2>3, TailIn
  <2>5. \A q \in Vcpu : queue'[q] = IF q = v THEN Tail(s) ELSE queue[q]
    BY ONLY Zenon, <2>1, <2>2
  <2> HIDE DEF s, x
  <2>6. \A q \in Vcpu : Distinct(queue'[q])
    BY ONLY Zenon, <2>3, <2>4, <2>5
  <2>7. /\ InQueue(v, x)
        /\ \A q \in Vcpu, t \in Task :
               InQueue(q, t)' <=> InQueue(q, t) /\ ~(q = v /\ t = x)
    BY ONLY Zenon, <1>0, <2>4, <2>5, InQueueIn DEF s
  <2> QED BY ONLY Zenon, <1>0, <1>1, <1>2, <1>4, <2>1, <2>2, <2>6, <2>7,
             TakeHead
<1>5. CASE ~workingTaskReady[v] /\ queue[v] = <<>>
  <2>1. UNCHANGED <<queue, workingTask, workingTaskReady, next>>
    BY Zenon, <1>5 DEF NextTask, Goto, GetNextSome, queueVars, wakeVars,
       taskVars,
       cpuVars, getVars, argVars
  <2>2. AtNeutral(v)
    BY ONLY Zenon, <1>0, <1>1 DEF AtNeutral, Local, At, InScheduleQ, InGetNext,
       Holding, MayHold, Callers, SomePcs, NonePcs, Stolen
  <2> QED BY ONLY Zenon, <1>0, <1>1, <1>2, <2>1, <2>2, SameQueue, NeutralStep
<1> QED BY Zenon, <1>3, <1>4, <1>5

LEMMA StealOwn ==
    ASSUME Inv, NEW v \in Worker, Steal(v)
    PROVE  OwnInv'
<1>0. /\ OwnInv /\ OwnTypeOK /\ v \in Vcpu /\ AtFrame(v) /\ Local(v)
      /\ pc[v] = "Steal"
      /\ \/ /\ pc'[v] = "DecSteal" /\ next'[v] \in Task /\ UNCHANGED retNext
         \/ /\ pc'[v] = "Steal" /\ UNCHANGED <<next, retNext>>
         \/ /\ pc'[v] \in NonePcs /\ retNext'[v] = NoRet
            /\ (pc'[v] = "Search" => retNext[v] = "Wait") /\ UNCHANGED next
      /\ UNCHANGED <<task, ret, currentTask, pendingFreeStack, workingTask,
                     workingTaskReady>>
  BY Zenon, StealLocal, StepFrame, VcpuFacts DEF Inv
<1>1. /\ next[v] = NoTask /\ task[v] = NoTask /\ pc[v] # "SwitchToWait"
      /\ pc'[v] # "SwitchToWait"
      /\ At(v)' # "Run"
  BY ONLY Zenon, <1>0 DEF Local, At, InScheduleQ, InGetNext, Holding, MayHold,
     Callers, SomePcs, NonePcs, Stolen
<1>2. UNCHANGED <<workingTask, workingTaskReady, ready, queueId, life,
                  currentTask, pendingFreeStack, task, vcpuId>>
  BY Zenon DEF Steal, Goto, GetNextNone, queueVars, wakeVars, taskVars,
     cpuVars,
     getVars, argVars
<1>3. CASE StealFrom(v, Victim(v,
          idx[v])) /\ pc' = [pc EXCEPT ![v] = "DecSteal"]
  <2> DEFINE p == Victim(v, idx[v])
             s == queue[p]
  <2>1. PICK i \in 1 .. Len(s) : /\ ready[s[i]]
                                 /\ next' = [next EXCEPT ![v] = s[i]]
                                 /\ queue' = [queue EXCEPT ![p] = Rotate(s, i)]
    BY Zenon, <1>3 DEF StealFrom, Rotate
  <2>2. p \in Vcpu
    BY Zenon, <1>0, VictimType DEF Inv
  <2>3. queue \in [Vcpu -> TaskSeq] /\ s \in Seq(Task) /\ s[i] \in Task
    BY <2>2 DEF Inv, LocalInv, TypeOK, TaskSeq
  <2>4. \A q \in Vcpu : Distinct(queue[q])
    BY Zenon, <1>0 DEF OwnInv, OneEntry
  <2>5. /\ \A y : In(Rotate(s, i), y) <=> In(s, y) /\ y # s[i]
        /\ Distinct(Rotate(s, i))
    BY ONLY Zenon, <2>2, <2>3, <2>4, RotateIn, i \in 1 .. Len(s)
  <2>6. \A q \in Vcpu : queue'[q] = IF q = p THEN Rotate(s, i) ELSE queue[q]
    BY ONLY Zenon, <2>1, <2>3
  <2>7. In(s, s[i])
    BY ONLY Zenon, i \in 1 .. Len(s) DEF In
  <2>8. At(v)' \in Stolen
    <3>1. pc'[v] = "DecSteal"
      BY Zenon, <1>0, <1>3 DEF Inv, LocalInv, TypeOK
    <3> QED BY ONLY Zenon, <3>1 DEF At, InScheduleQ, Stolen
  <2> DEFINE x == s[i]
  <2> HIDE DEF s, p, x
  <2>9. /\ x \in Task /\ ready[x] /\ next' = [next EXCEPT ![v] = x]
        /\ \A q \in Vcpu : Distinct(queue'[q])
    BY ONLY Zenon, <2>1, <2>3, <2>4, <2>5, <2>6 DEF x
  <2>10. /\ InQueue(p, x)
         /\ \A q \in Vcpu, t \in Task :
                InQueue(q, t)' <=> InQueue(q, t) /\ ~(q = p /\ t = x)
    BY ONLY Zenon, <2>2, <2>5, <2>6, <2>7, InQueueIn DEF s, x
  <2> QED BY ONLY ZenonT(40), <1>0, <1>1, <1>2, <2>2, <2>8, <2>9, <2>10,
             TakeStolen
<1>4. CASE UNCHANGED <<queue, next>>
  <2>1. AtNeutral(v)
    BY ONLY Zenon, <1>0, <1>1 DEF AtNeutral, Local, At, InScheduleQ, InGetNext,
       Holding, MayHold, Callers, SomePcs, NonePcs, Stolen
  <2> QED BY ONLY Zenon, <1>0, <1>1, <1>2, <1>4, <2>1, SameQueue, NeutralStep
<1> QED BY Zenon, <1>3, <1>4 DEF Steal, Goto, getVars

LEMMA SwapWoringTaskOwn ==
    ASSUME Inv, NEW v \in Worker, SwapWoringTask(v)
    PROVE  OwnInv'
<1>0. /\ OwnInv /\ OwnTypeOK /\ v \in Vcpu /\ AtFrame(v) /\ Local(v)
      /\ pc[v] = "Swap"
      /\ \/ /\ workingTaskReady[v] /\ ~workingTaskReady'[v]
            /\ next'[v] = workingTask[v] /\ pc'[v] = "Enqueue"
            /\ task'[v] = next[v] /\ ret'[v] \in SomePcs
            /\ retNext'[v] = NoRet /\ workingTask' = workingTask
         \/ /\ workingTask'[v] = next[v] /\ pc'[v] = "SetQueueId"
            /\ UNCHANGED <<workingTaskReady, next, retNext, task, ret>>
      /\ UNCHANGED <<currentTask, pendingFreeStack>>
  BY Zenon, SwapWoringTaskLocal, StepFrame, VcpuFacts DEF Inv
<1>1. /\ next[v] \in Task /\ task[v] = NoTask /\ pc[v] # "SwitchToWait"
      /\ pc'[v] # "SwitchToWait"
      /\ At(v)' # "Run" /\ At(v) \in Stolen
  BY ONLY Zenon, <1>0 DEF Local, At, InScheduleQ, InGetNext, Holding, MayHold,
     Callers, SomePcs, NonePcs, Stolen, OwnTypeOK, TaskOrNone
<1>2. UNCHANGED <<queue, ready, queueId, life, currentTask, pendingFreeStack>>
  BY Zenon DEF SwapWoringTask, Goto, CallScheduleQ, queueVars, wakeVars,
     taskVars,
     cpuVars, getVars, argVars
<1>3. CASE workingTaskReady[v]
  <2>1. workingTask[v] \in Task
    BY ONLY Zenon, <1>0, <1>3 DEF Local, OwnTypeOK, TaskOrNone
  <2>2. /\ UNCHANGED workingTask
        /\ workingTaskReady' = [workingTaskReady EXCEPT ![v] = FALSE]
        /\ next' = [next EXCEPT ![v] = workingTask[v]]
        /\ task' = [task EXCEPT ![v] = next[v]]
        /\ vcpuId' = [vcpuId EXCEPT ![v] = queueId[next[v]]]
        /\ pc' = [pc EXCEPT ![v] = "Enqueue"]
    BY Zenon, <1>3 DEF SwapWoringTask, CallScheduleQ, Goto
  <2>3. At(v)' \notin Stolen \cup {"SetQueueId"}
    <3>1. pc'[v] = "Enqueue"
      BY Zenon, <1>0, <2>2 DEF Inv, LocalInv, TypeOK
    <3> QED BY ONLY Zenon, <1>0, <3>1 DEF Local, At, InScheduleQ, InGetNext,
               Holding,
       MayHold, Callers, SomePcs, NonePcs, Stolen
  <2> QED BY ONLY Zenon, <1>0, <1>1, <1>2, <1>3, <2>1, <2>2, <2>3, SameQueue,
             SwapSlot
<1>4. CASE ~workingTaskReady[v]
  <2>1. /\ workingTask' = [workingTask EXCEPT ![v] = next[v]]
        /\ UNCHANGED <<workingTaskReady, next, task, vcpuId>>
    BY Zenon, <1>4 DEF SwapWoringTask, getVars, argVars
  <2>2. At(v)' = "SetQueueId"
    BY ONLY Zenon, <1>0, <1>4 DEF At, InScheduleQ
  <2> QED BY ONLY Zenon, <1>0, <1>1, <1>2, <1>4, <2>1, <2>2, SameQueue,
             SwapTake
<1> QED BY Zenon, <1>3, <1>4

LEMMA SetQueueIdOwn ==
    ASSUME Inv, NEW v \in Worker, SetQueueId(v)
    PROVE  OwnInv'
<1>0. /\ OwnInv /\ OwnTypeOK /\ v \in Vcpu /\ AtFrame(v) /\ Local(v)
      /\ pc[v] = "SetQueueId"
      /\ pc'[v] \in SomePcs /\ retNext'[v] = NoRet
      /\ UNCHANGED <<task, ret, next, currentTask, pendingFreeStack,
                     workingTask, workingTaskReady>>
  BY Zenon, SetQueueIdLocal, StepFrame, VcpuFacts DEF Inv
<1>1. /\ next[v] \in Task /\ task[v] = NoTask /\ pc[v] # "SwitchToWait"
      /\ pc'[v] # "SwitchToWait"
      /\ At(v)' # "Run" /\ At(v) = "SetQueueId"
      /\ At(v)' \notin Stolen \cup {"SetQueueId"}
  BY ONLY Zenon, <1>0 DEF Local, At, InScheduleQ, InGetNext, Holding, MayHold,
     Callers, SomePcs, NonePcs, Stolen, OwnTypeOK, TaskOrNone
<1>2. /\ queueId' = [queueId EXCEPT ![next[v]] = v] /\ UNCHANGED queue
      /\ UNCHANGED <<workingTask, workingTaskReady, ready, life, currentTask,
                     pendingFreeStack, next, task, vcpuId>>
  BY Zenon DEF SetQueueId, Goto, GetNextSome, queueVars, wakeVars, taskVars,
     cpuVars,
     getVars, argVars
<1> QED BY ONLY Zenon, <1>0, <1>1, <1>2, SameQueue, MoveQueueId

LEMMA ToRunningOwn ==
    ASSUME Inv, NEW v \in Worker, ToRunning(v)
    PROVE  OwnInv'
<1>0. /\ OwnInv /\ OwnTypeOK /\ v \in Vcpu /\ AtFrame(v) /\ Local(v)
      /\ pc[v] = "ToRunning"
      /\ \/ /\ next[v] = currentTask[v] /\ pc'[v] = "Run" /\ next'[v] = NoTask
         \/ /\ next[v] # currentTask[v] /\ pc'[v] = "Switch" /\ UNCHANGED next
      /\ UNCHANGED <<task, ret, retNext, currentTask, pendingFreeStack,
                     workingTask, workingTaskReady>>
  BY Zenon, ToRunningLocal, StepFrame, VcpuFacts DEF Inv
<1>1. /\ next[v] \in Task /\ task[v] = NoTask /\ pc[v] # "SwitchToWait"
      /\ pc'[v] # "SwitchToWait"
      /\ At(v) \notin Stolen \cup {"SetQueueId"}
      /\ At(v)' \notin Stolen \cup {"SetQueueId"}
  BY ONLY Zenon, <1>0 DEF Local, At, InScheduleQ, InGetNext, Holding, MayHold,
     Callers, SomePcs, NonePcs, Stolen, OwnTypeOK, TaskOrNone
<1>2. UNCHANGED queue /\ UNCHANGED <<workingTask, workingTaskReady, ready,
                                     queueId, life, currentTask,
                                     pendingFreeStack, task, vcpuId>>
  BY Zenon DEF ToRunning, Goto, queueVars, wakeVars, taskVars, cpuVars,
     getVars,
     argVars
<1>3. CASE next[v] = currentTask[v]
  <2>1. next' = [next EXCEPT ![v] = NoTask]
    BY Zenon, <1>3 DEF ToRunning
  <2> QED BY ONLY Zenon, <1>0, <1>1, <1>2, <1>3, <2>1, SameQueue, RunCurrent
<1>4. CASE next[v] # currentTask[v]
  <2>1. next' = next /\ pc' = [pc EXCEPT ![v] = "Switch"]
    BY Zenon, <1>4 DEF ToRunning, Goto
  <2>2. pc'[v] = "Switch"
    BY Zenon, <1>0, <2>1 DEF Inv, LocalInv, TypeOK
  <2>3. AtNeutral(v)
    BY ONLY Zenon, <1>0, <1>1, <2>2 DEF AtNeutral, Local, At, InScheduleQ,
       InGetNext,
       Holding, MayHold, Callers, SomePcs, NonePcs, Stolen
  <2> QED BY ONLY Zenon, <1>0, <1>1, <1>2, <2>1, <2>3, SameQueue, NeutralStep
<1> QED BY Zenon, <1>3, <1>4

LEMMA SwitchOwn ==
    ASSUME Inv, NEW v \in Worker, Switch(v)
    PROVE  OwnInv'
<1>0. /\ OwnInv /\ OwnTypeOK /\ v \in Vcpu /\ AtFrame(v) /\ Local(v)
      /\ pc[v] = "Switch" /\ pc'[v] = "Run"
      /\ currentTask'[v] = next[v] /\ next'[v] = NoTask
      /\ UNCHANGED <<task, ret, retNext, pendingFreeStack, workingTask,
                     workingTaskReady>>
  BY Zenon, SwitchLocal, StepFrame, VcpuFacts DEF Inv
<1>1. /\ next[v] \in Task /\ task[v] = NoTask /\ pc[v] # "SwitchToWait"
      /\ pc'[v] # "SwitchToWait"
      /\ At(v) \notin Stolen \cup {"SetQueueId"}
      /\ At(v)' \notin Stolen \cup {"SetQueueId"}
  BY ONLY Zenon, <1>0 DEF Local, At, InScheduleQ, InGetNext, Holding, MayHold,
     Callers, SomePcs, NonePcs, Stolen, OwnTypeOK, TaskOrNone
<1>2. /\ ready' = [Saved(v) EXCEPT ![next[v]] = FALSE]
      /\ currentTask' = [currentTask EXCEPT ![v] = next[v]]
      /\ next' = [next EXCEPT ![v] = NoTask] /\ UNCHANGED queue
      /\ UNCHANGED <<workingTask, workingTaskReady, queueId, life,
                     pendingFreeStack, task, vcpuId>>
  BY Zenon DEF Switch, Goto, queueVars, wakeVars, taskVars, cpuVars, getVars,
     argVars
<1> QED BY ONLY Zenon, <1>0, <1>1, <1>2, SameQueue, SwitchTask

LEMMA SwitchToWaitTaskOwn ==
    ASSUME Inv, NEW v \in Worker, SwitchToWaitTask(v)
    PROVE  OwnInv'
<1>0. /\ OwnInv /\ OwnTypeOK /\ v \in Vcpu /\ AtFrame(v) /\ Local(v)
      /\ pc[v] = "SwitchToWait" /\ currentTask'[v] = NoTask
      /\ \/ /\ pendingFreeStack[v] = NoTask /\ pc'[v] = "Next"
            /\ retNext'[v] = "WaitFn"
         \/ /\ pendingFreeStack[v] # NoTask /\ pc'[v] = "Free"
            /\ UNCHANGED retNext
      /\ UNCHANGED <<task, ret, next, pendingFreeStack, workingTask,
                     workingTaskReady>>
  BY Zenon, SwitchToWaitTaskLocal, StepFrame, VcpuFacts DEF Inv
<1>1. /\ next[v] = NoTask /\ task[v] = NoTask /\ currentTask[v] \in Task
      /\ pc[v] = "SwitchToWait" /\ pc'[v] # "SwitchToWait" /\ At(v)' # "Run"
  BY ONLY Zenon, <1>0 DEF Local, At, InScheduleQ, InGetNext, Holding, MayHold,
     Callers, SomePcs, NonePcs, Stolen, OwnTypeOK, TaskOrNone
<1>2. /\ ready' = Saved(v) /\ currentTask' = [currentTask EXCEPT ![v] = NoTask]
      /\ UNCHANGED queue /\ UNCHANGED <<workingTask, workingTaskReady, queueId,
                                        life, pendingFreeStack, next, task,
                                        vcpuId>>
  BY Zenon DEF SwitchToWaitTask, Goto, CallGetNext, queueVars, wakeVars,
     taskVars,
     cpuVars, getVars, argVars
<1> QED BY ONLY Zenon, <1>0, <1>1, <1>2, SameQueue, SwitchWait

LEMMA WaitTimeoutOwn ==
    ASSUME Inv, NEW v \in Worker, WaitTimeout(v)
    PROVE  OwnInv'
<1>0. /\ OwnInv /\ OwnTypeOK /\ v \in Vcpu /\ AtFrame(v) /\ Local(v)
      /\ pc[v] = "Search"
      /\ \/ /\ workingTaskReady[v] /\ ~workingTaskReady'[v]
            /\ next'[v] = workingTask[v] /\ pc'[v] = "ToRunning"
            /\ UNCHANGED workingTask
         \/ /\ ~workingTaskReady[v] /\ workingTask'[v] = NoTask
            /\ pc'[v] = "SwitchToWait" /\ UNCHANGED <<workingTaskReady, next>>
      /\ UNCHANGED <<task, ret, retNext, currentTask, pendingFreeStack>>
  BY Zenon, WaitTimeoutLocal, StepFrame, VcpuFacts DEF Inv
<1>1. /\ next[v] = NoTask /\ task[v] = NoTask /\ pendingFreeStack[v] = NoTask
      /\ pc[v] # "SwitchToWait" /\ At(v)' # "Run"
      /\ At(v)' \notin Stolen \cup {"SetQueueId"}
  BY ONLY Zenon, <1>0 DEF Local, At, InScheduleQ, InGetNext, Holding, MayHold,
     Callers, SomePcs, NonePcs, Stolen
<1>2. UNCHANGED queue /\ UNCHANGED <<ready, queueId, life, currentTask,
                                     pendingFreeStack, task, vcpuId>>
  BY Zenon DEF WaitTimeout, Goto, queueVars, wakeVars, taskVars, cpuVars,
     getVars,
     argVars
<1>3. CASE workingTaskReady[v]
  <2>1. workingTask[v] \in Task /\ pc'[v] # "SwitchToWait"
    BY ONLY Zenon, <1>0, <1>3 DEF Local, OwnTypeOK, TaskOrNone
  <2>2. /\ UNCHANGED workingTask
        /\ workingTaskReady' = [workingTaskReady EXCEPT ![v] = FALSE]
        /\ next' = [next EXCEPT ![v] = workingTask[v]]
    BY Zenon, <1>3 DEF WaitTimeout
  <2> QED BY ONLY Zenon, <1>0, <1>1, <1>2, <1>3, <2>1, <2>2, SameQueue,
             TakeSlot
<1>4. CASE ~workingTaskReady[v]
  <2>1. /\ workingTask' = [workingTask EXCEPT ![v] = NoTask]
        /\ UNCHANGED <<workingTaskReady, next>>
    BY Zenon, <1>4 DEF WaitTimeout
  <2> QED BY ONLY Zenon, <1>0, <1>1, <1>2, <1>4, <2>1, SameQueue, ResetSlot
<1> QED BY <1>3, <1>4

LEMMA RunWakeOwn ==
    ASSUME Inv, NEW v \in Worker, RunWake(v)
    PROVE  OwnInv'
<1>0. /\ OwnInv /\ OwnTypeOK /\ v \in Vcpu /\ AtFrame(v) /\ Local(v)
      /\ pc[v] = "Run" /\ pc'[v] = "Enqueue" /\ task'[v] \in Task
      /\ ret'[v] = "Run"
      /\ UNCHANGED <<retNext, next, currentTask, pendingFreeStack, workingTask,
                     workingTaskReady>>
  BY Zenon, RunWakeLocal, StepFrame, VcpuFacts DEF Inv
<1>1. AtNeutral(v) /\ task[v] = NoTask
  BY ONLY Zenon, <1>0 DEF AtNeutral, Local, At, InScheduleQ, InGetNext,
     Holding,
     MayHold, Callers, SomePcs, NonePcs, Stolen
<1>2. PICK x \in Task : /\ life[x] = "Waiting"
                      /\ life' = [life EXCEPT ![x] = "Running"]
                      /\ task' = [task EXCEPT ![v] = x]
                      /\ vcpuId' = [vcpuId EXCEPT ![v] = queueId[x]]
                      /\ UNCHANGED <<ready, queueId>>
  BY Zenon DEF RunWake, WakeTask, CallScheduleQ, queueVars, wakeVars, taskVars,
     cpuVars, getVars, argVars
<1>3. UNCHANGED <<queue, workingTask, workingTaskReady, currentTask,
                  pendingFreeStack, next>>
  BY Zenon DEF RunWake, Goto, WakeTask, CallScheduleQ, queueVars, wakeVars,
     taskVars,
     cpuVars, getVars, argVars
<1> QED BY ONLY Zenon, <1>0, <1>1, <1>2, <1>3, SameQueue, WokenTask

LEMMA IOWakeOwn ==
    ASSUME Inv, NEW v \in {0}, IOWake(v)
    PROVE  OwnInv'
<1>0. /\ OwnInv /\ OwnTypeOK /\ v \in Vcpu /\ AtFrame(v) /\ Local(v)
      /\ pc[v] = "IO" /\ pc'[v] = "Enqueue" /\ task'[v] \in Task
      /\ ret'[v] = "IO"
      /\ UNCHANGED <<retNext, next, currentTask, pendingFreeStack, workingTask,
                     workingTaskReady>>
  BY Zenon, IOWakeLocal, StepFrame, VcpuFacts DEF Inv
<1>1. AtNeutral(v) /\ task[v] = NoTask
  BY ONLY Zenon, <1>0 DEF AtNeutral, Local, At, InScheduleQ, InGetNext,
     Holding,
     MayHold, Callers, SomePcs, NonePcs, Stolen
<1>2. PICK x \in Task : /\ life[x] = "Waiting"
                      /\ life' = [life EXCEPT ![x] = "Running"]
                      /\ task' = [task EXCEPT ![v] = x]
                      /\ vcpuId' = [vcpuId EXCEPT ![v] = queueId[x]]
                      /\ UNCHANGED <<ready, queueId>>
  BY Zenon DEF IOWake, WakeTask, CallScheduleQ, queueVars, wakeVars, taskVars,
     cpuVars, getVars, argVars
<1>3. UNCHANGED <<queue, workingTask, workingTaskReady, currentTask,
                  pendingFreeStack, next>>
  BY Zenon DEF IOWake, Goto, WakeTask, CallScheduleQ, queueVars, wakeVars,
     taskVars,
     cpuVars, getVars, argVars
<1> QED BY ONLY Zenon, <1>0, <1>1, <1>2, <1>3, SameQueue, WokenTask

LEMMA RunCloneOwn ==
    ASSUME Inv, NEW v \in Worker, RunClone(v)
    PROVE  OwnInv'
<1>0. /\ OwnInv /\ OwnTypeOK /\ v \in Vcpu /\ AtFrame(v) /\ Local(v)
      /\ pc[v] = "Run" /\ pc'[v] = "Enqueue" /\ task'[v] \in Task
      /\ ret'[v] = "Run"
      /\ UNCHANGED <<retNext, next, currentTask, pendingFreeStack, workingTask,
                     workingTaskReady>>
  BY RunCloneLocal, StepFrame, VcpuFacts DEF Inv
<1>1. AtNeutral(v) /\ task[v] = NoTask
  BY ONLY <1>0 DEF AtNeutral, Local, At, InScheduleQ, InGetNext, Holding,
     MayHold, Callers, SomePcs, NonePcs, Stolen
<1>z. 0 \in Vcpu /\ workingTask[0] = NoTask
  BY Zenon, VcpuFacts DEF Inv, LocalInv, Local
<1>2. PICK x \in Task : /\ life[x] = "Free"
                      /\ life' = [life EXCEPT ![x] = "Running"]
                      /\ ready' = [ready EXCEPT ![x] = TRUE]
                      /\ queueId' = [queueId EXCEPT ![x] = 0]
                      /\ task' = [task EXCEPT ![v] = x]
                      /\ vcpuId' = [vcpuId EXCEPT ![v] = 0]
  BY Zenon DEF RunClone, CreateTask, CallScheduleQ
<1>3. UNCHANGED <<queue, workingTask, workingTaskReady, currentTask,
                  pendingFreeStack, next>>
  BY Zenon DEF RunClone, Goto, CreateTask, CallScheduleQ, queueVars, wakeVars,
     taskVars, cpuVars, getVars, argVars
<1> QED BY ONLY ZenonT(40), <1>0, <1>1, <1>2, <1>3, <1>z, SameQueue, NewTask

LEMMA BootOwn ==
    ASSUME Inv, NEW v \in Worker, Boot(v)
    PROVE  OwnInv'
<1>0. /\ OwnInv /\ OwnTypeOK /\ v \in Vcpu /\ AtFrame(v) /\ Local(v)
      /\ pc[v] = "Boot"
      /\ \/ /\ pc'[v] = "Next" /\ UNCHANGED <<task, ret>>
         \/ /\ pc'[v] = "Enqueue" /\ task'[v] \in Task /\ ret'[v] = "Next"
      /\ UNCHANGED <<retNext, next, currentTask, pendingFreeStack, workingTask,
                     workingTaskReady>>
  BY Zenon, BootLocal, StepFrame, VcpuFacts DEF Inv
<1>1. AtNeutral(v) /\ task[v] = NoTask
  BY ONLY ZenonT(40), <1>0 DEF AtNeutral, Local, At, InScheduleQ, InGetNext,
     Holding,
     MayHold, Callers, SomePcs, NonePcs, Stolen
<1>z. 0 \in Vcpu /\ workingTask[0] = NoTask
  BY VcpuFacts DEF Inv, LocalInv, Local
<1>2. UNCHANGED <<queue, workingTask, workingTaskReady, currentTask,
                  pendingFreeStack, next>>
  BY Zenon DEF Boot, Goto, CreateTask, CallScheduleQ, queueVars, wakeVars,
     taskVars,
     cpuVars, getVars, argVars
<1>3. CASE \E t \in Task : CreateTask(v, t, "Next")
  <2>1. PICK x \in Task : /\ life[x] = "Free"
                        /\ life' = [life EXCEPT ![x] = "Running"]
                        /\ ready' = [ready EXCEPT ![x] = TRUE]
                        /\ queueId' = [queueId EXCEPT ![x] = 0]
                        /\ task' = [task EXCEPT ![v] = x]
                        /\ vcpuId' = [vcpuId EXCEPT ![v] = 0]
    BY Zenon, <1>3 DEF CreateTask, CallScheduleQ
  <2> QED BY ONLY Zenon, <1>0, <1>1, <1>2, <1>z, <2>1, SameQueue, NewTask
<1>4. CASE UNCHANGED <<taskVars, argVars>>
  <2>1. UNCHANGED <<ready, queueId, life, task, vcpuId>>
    BY Zenon, <1>4 DEF taskVars, argVars
  <2> QED BY ONLY Zenon, <1>0, <1>1, <1>2, <2>1, SameQueue, NeutralStep
<1> QED BY Zenon, <1>3, <1>4 DEF Boot

LEMMA WaitFnInputsOwn ==
    ASSUME Inv, NEW v \in Worker, WaitFnInputs(v)
    PROVE  OwnInv'
<1>0. /\ OwnInv /\ OwnTypeOK /\ v \in Vcpu /\ AtFrame(v) /\ Local(v)
      /\ pc[v] = "Inputs"
      /\ \/ /\ pc'[v] = "VcpuWait" /\ next[v] = NoTask
            /\ UNCHANGED <<task, ret>>
         \/ /\ pc'[v] = "ToRunning" /\ next[v] # NoTask
            /\ UNCHANGED <<task, ret>>
         \/ /\ pc'[v] = "Enqueue" /\ task'[v] \in Task /\ ret'[v] = "Inputs"
      /\ UNCHANGED <<retNext, next, currentTask, pendingFreeStack, workingTask,
                     workingTaskReady>>
  BY Zenon, WaitFnInputsLocal, StepFrame, VcpuFacts DEF Inv
<1>1. AtNeutral(v) /\ task[v] = NoTask
  BY ONLY Zenon, <1>0 DEF AtNeutral, Local, At, InScheduleQ, InGetNext,
     Holding,
     MayHold, Callers, SomePcs, NonePcs, Stolen
<1>z. 0 \in Vcpu /\ workingTask[0] = NoTask
  BY VcpuFacts DEF Inv, LocalInv, Local
<1>2. UNCHANGED <<queue, workingTask, workingTaskReady, currentTask,
                  pendingFreeStack, next>>
  BY Zenon DEF WaitFnInputs, Goto, ProcessInputMsg, CreateTask, CallScheduleQ,
     queueVars, wakeVars, taskVars, cpuVars, getVars, argVars
<1>3. CASE ProcessInputMsg(v, "Inputs")
  <2>1. Head(QInput) \in Task
    BY <1>3 DEF Inv, LocalInv, TypeOK, TaskSeq, ProcessInputMsg
  <2>2. PICK x \in Task : /\ life[x] = "Free"
                        /\ life' = [life EXCEPT ![x] = "Running"]
                        /\ ready' = [ready EXCEPT ![x] = TRUE]
                        /\ queueId' = [queueId EXCEPT ![x] = 0]
                        /\ task' = [task EXCEPT ![v] = x]
                        /\ vcpuId' = [vcpuId EXCEPT ![v] = 0]
    BY Zenon, <1>3, <2>1 DEF ProcessInputMsg, CreateTask, CallScheduleQ
  <2> QED BY ONLY Zenon, <1>0, <1>1, <1>2, <1>z, <2>2, SameQueue, NewTask
<1>4. CASE UNCHANGED <<taskVars, argVars>>
  <2>1. UNCHANGED <<ready, queueId, life, task, vcpuId>>
    BY <1>4 DEF taskVars, argVars
  <2> QED BY ONLY Zenon, <1>0, <1>1, <1>2, <2>1, SameQueue, NeutralStep
<1> QED BY Zenon, <1>3, <1>4 DEF WaitFnInputs

LEMMA WaitPollOwn ==
    ASSUME Inv, NEW v \in Worker, WaitPoll(v)
    PROVE  OwnInv'
<1>0. /\ OwnInv /\ OwnTypeOK /\ v \in Vcpu /\ AtFrame(v) /\ Local(v)
      /\ pc[v] = "Search"
      /\ \/ /\ pc'[v] = "Next" /\ retNext'[v] = "Wait"
            /\ UNCHANGED <<task, ret>>
         \/ /\ pc'[v] = "Enqueue" /\ task'[v] \in Task /\ ret'[v] = "Search"
            /\ UNCHANGED retNext
      /\ UNCHANGED <<next, currentTask, pendingFreeStack, workingTask,
                     workingTaskReady>>
  BY Zenon, WaitPollLocal, StepFrame, VcpuFacts DEF Inv
<1>1. AtNeutral(v) /\ task[v] = NoTask
  BY ONLY Zenon, <1>0 DEF AtNeutral, Local, At, InScheduleQ, InGetNext,
     Holding,
     MayHold, Callers, SomePcs, NonePcs, Stolen
<1>z. 0 \in Vcpu /\ workingTask[0] = NoTask
  BY VcpuFacts DEF Inv, LocalInv, Local
<1>2. UNCHANGED <<queue, workingTask, workingTaskReady, currentTask,
                  pendingFreeStack, next>>
  BY Zenon DEF WaitPoll, Goto, CallGetNext, WakeTask, ProcessInputMsg,
     CreateTask,
     CallScheduleQ, queueVars, wakeVars, taskVars, cpuVars, getVars, argVars
<1>3. CASE ProcessInputMsg(v, "Search")
  <2>1. Head(QInput) \in Task
    BY <1>3 DEF Inv, LocalInv, TypeOK, TaskSeq, ProcessInputMsg
  <2>2. PICK x \in Task : /\ life[x] = "Free"
                        /\ life' = [life EXCEPT ![x] = "Running"]
                        /\ ready' = [ready EXCEPT ![x] = TRUE]
                        /\ queueId' = [queueId EXCEPT ![x] = 0]
                        /\ task' = [task EXCEPT ![v] = x]
                        /\ vcpuId' = [vcpuId EXCEPT ![v] = 0]
    BY Zenon, <1>3, <2>1 DEF ProcessInputMsg, CreateTask, CallScheduleQ
  <2> QED BY ONLY Zenon, <1>0, <1>1, <1>2, <1>z, <2>2, SameQueue, NewTask
<1>4. CASE UNCHANGED <<taskVars, argVars>>
  <2>1. UNCHANGED <<ready, queueId, life, task, vcpuId>>
    BY <1>4 DEF taskVars, argVars
  <2> QED BY ONLY Zenon, <1>0, <1>1, <1>2, <2>1, SameQueue, NeutralStep
<1>5. CASE WakeTask(v, "Search")
  <2>1. PICK x \in Task : /\ life[x] = "Waiting"
                        /\ life' = [life EXCEPT ![x] = "Running"]
                        /\ task' = [task EXCEPT ![v] = x]
                        /\ vcpuId' = [vcpuId EXCEPT ![v] = queueId[x]]
                        /\ UNCHANGED <<ready, queueId>>
    BY Zenon, <1>5 DEF WakeTask, CallScheduleQ, queueVars, wakeVars, taskVars,
       cpuVars, getVars, argVars
  <2> QED BY ONLY Zenon, <1>0, <1>1, <1>2, <2>1, SameQueue, WokenTask
<1> QED BY Zenon, <1>3, <1>4, <1>5 DEF WaitPoll

LEMMA BlockOwn ==
    ASSUME Inv, NEW v \in Worker, Block(v)
    PROVE  OwnInv'
<1>0. /\ OwnInv /\ OwnTypeOK /\ v \in Vcpu /\ AtFrame(v) /\ Local(v)
      /\ pc[v] = "Run" /\ pc'[v] = "Wait"
      /\ UNCHANGED <<task, ret, retNext, next, currentTask, pendingFreeStack,
                     workingTask, workingTaskReady>>
  BY Zenon, BlockLocal, StepFrame, VcpuFacts DEF Inv
<1>1. /\ next[v] = NoTask /\ task[v] = NoTask /\ currentTask[v] \in Task
      /\ pc[v] # "SwitchToWait" /\ At(v) = "Run" /\ At(v)' # "Run"
  BY ONLY Zenon, <1>0 DEF Local, At, InScheduleQ, InGetNext, Holding, MayHold,
     Callers, SomePcs, NonePcs, Stolen, OwnTypeOK, TaskOrNone
<1>2. /\ life' = [life EXCEPT ![currentTask[v]] = "Waiting"]
      /\ UNCHANGED queue /\ UNCHANGED <<workingTask, workingTaskReady, ready,
                                        queueId, currentTask, pendingFreeStack,
                                        next, task, vcpuId>>
  BY Zenon DEF Block, Goto, queueVars, wakeVars, taskVars, cpuVars, getVars,
     argVars
<1> QED BY ONLY Zenon, <1>0, <1>1, <1>2, SameQueue, BlockTask

LEMMA YieldOwn ==
    ASSUME Inv, NEW v \in Worker, Yield(v)
    PROVE  OwnInv'
<1>0. /\ OwnInv /\ OwnTypeOK /\ v \in Vcpu /\ AtFrame(v) /\ Local(v)
      /\ pc[v] = "Run" /\ pc'[v] = "Enqueue" /\ task'[v] = currentTask[v]
      /\ ret'[v] = "Wait"
      /\ UNCHANGED <<retNext, next, currentTask, pendingFreeStack, workingTask,
                     workingTaskReady>>
  BY Zenon, YieldLocal, StepFrame, VcpuFacts DEF Inv
<1>1. /\ next[v] = NoTask /\ task[v] = NoTask /\ currentTask[v] \in Task
      /\ pc[v] # "SwitchToWait" /\ At(v) = "Run" /\ At(v)' # "Run"
  BY ONLY Zenon, <1>0 DEF Local, At, InScheduleQ, InGetNext, Holding, MayHold,
     Callers, SomePcs, NonePcs, Stolen, OwnTypeOK, TaskOrNone
<1>2. /\ task' = [task EXCEPT ![v] = currentTask[v]]
      /\ vcpuId' = [vcpuId EXCEPT ![v] = queueId[currentTask[v]]]
      /\ UNCHANGED queue /\ UNCHANGED <<workingTask, workingTaskReady, ready,
                                        queueId, life, currentTask,
                                        pendingFreeStack, next>>
  BY Zenon DEF Yield, Goto, CallScheduleQ, queueVars, wakeVars, taskVars,
     cpuVars,
     getVars, argVars
<1> QED BY ONLY Zenon, <1>0, <1>1, <1>2, SameQueue, YieldTask

LEMMA ExitOwn ==
    ASSUME Inv, NEW v \in Worker, Exit(v)
    PROVE  OwnInv'
<1>0. /\ OwnInv /\ OwnTypeOK /\ v \in Vcpu /\ AtFrame(v) /\ Local(v)
      /\ pc[v] = "Run" /\ pc'[v] = "SwitchToWait"
      /\ pendingFreeStack'[v] = currentTask[v]
      /\ UNCHANGED <<task, ret, retNext, next, currentTask, workingTask,
                     workingTaskReady>>
  BY Zenon, ExitLocal, StepFrame, VcpuFacts DEF Inv
<1>1. /\ next[v] = NoTask /\ task[v] = NoTask /\ currentTask[v] \in Task
      /\ pc[v] # "SwitchToWait" /\ At(v) = "Run" /\ At(v)' # "Run"
  BY ONLY Zenon, <1>0 DEF Local, At, InScheduleQ, InGetNext, Holding, MayHold,
     Callers, SomePcs, NonePcs, Stolen, OwnTypeOK, TaskOrNone
<1>2. /\ life' = [life EXCEPT ![currentTask[v]] = "Dead"]
      /\ pendingFreeStack' = [pendingFreeStack EXCEPT ![v] = currentTask[v]]
      /\ UNCHANGED queue /\ UNCHANGED <<workingTask, workingTaskReady, ready,
                                        queueId, currentTask, next, task,
                                        vcpuId>>
  BY Zenon DEF Exit, Goto, queueVars, wakeVars, taskVars, cpuVars, getVars,
     argVars
<1> QED BY ONLY Zenon, <1>0, <1>1, <1>2, SameQueue, ExitTask

LEMMA FreeStackOwn ==
    ASSUME Inv, NEW v \in Worker, FreeStack(v)
    PROVE  OwnInv'
<1>0. /\ OwnInv /\ OwnTypeOK /\ v \in Vcpu /\ AtFrame(v) /\ Local(v)
      /\ pc[v] = "Free" /\ pc'[v] = "Next" /\ retNext'[v] = "WaitFn"
      /\ pendingFreeStack'[v] = NoTask
      /\ UNCHANGED <<task, ret, next, currentTask, workingTask,
                     workingTaskReady>>
  BY ZenonT(40), FreeStackLocal, StepFrame, VcpuFacts DEF Inv
<1>z. 0 \in Vcpu /\ workingTask[0] = NoTask
  BY VcpuFacts DEF Inv, LocalInv, Local
<1>1. /\ next[v] = NoTask /\ task[v] = NoTask /\ currentTask[v] = NoTask
      /\ pendingFreeStack[v] \in Task /\ pc[v] # "SwitchToWait"
      /\ pc'[v] # "SwitchToWait"
      /\ At(v)' # "Run"
  BY ONLY Zenon, <1>0 DEF Local, At, InScheduleQ, InGetNext, Holding, MayHold,
     Callers, SomePcs, NonePcs, Stolen, OwnTypeOK, TaskOrNone
<1>2. /\ life' = [life EXCEPT ![pendingFreeStack[v]] = "Free"]
      /\ queueId' = [queueId EXCEPT ![pendingFreeStack[v]] = 0]
      /\ pendingFreeStack' = [pendingFreeStack EXCEPT ![v] = NoTask]
      /\ UNCHANGED queue /\ UNCHANGED <<workingTask, workingTaskReady, ready,
                                        currentTask, next, task, vcpuId>>
  BY Zenon DEF FreeStack, Goto, CallGetNext, queueVars, wakeVars, taskVars,
     cpuVars,
     getVars, argVars
<1> QED BY ONLY Zenon, <1>0, <1>1, <1>2, <1>z, SameQueue, FreeTask

-----------------------------------------------------------------------------
LEMMA OwnInit == Init => OwnInv
<1> SUFFICES ASSUME Init PROVE OwnInv
  BY Zenon
<1>1. \A q \in Vcpu : /\ queue[q] = <<>> /\ next[q] = NoTask /\ task[q] = NoTask
                      /\ currentTask[q] = NoTask /\ workingTask[q] = NoTask
                      /\ pendingFreeStack[q] = NoTask /\ ~workingTaskReady[q]
  BY Zenon DEF Init
<1>2. \A t \in Task : ready[t] /\ t # NoTask
  BY Zenon, SchedulerAssumption DEF Init
<1>3. \A q \in Vcpu : Distinct(queue[q]) /\ \A t : ~InQueue(q, t)
  BY <1>1 DEF Distinct, InQueue
<1>4. LiveEntries /\ OneEntry
  BY ONLY <1>1, <1>2, <1>3, SMTT(60) DEF LiveEntries, OneEntry, Slot, Holds
<1>5. QueueIds /\ SavedOrCurrent
  BY ONLY <1>1, <1>2, <1>3, SMTT(60) DEF QueueIds, SavedOrCurrent, Slot
<1>6. WorkingTasks /\ Running
  BY ONLY <1>1, <1>2, <1>3, SMTT(60) DEF WorkingTasks, Running, Slot, Holds
<1>7. Ended /\ OneFree
  BY ONLY <1>1, <1>2, <1>3, SMTT(60) DEF Ended, OneFree, Slot, Holds
<1> QED
  BY ONLY Zenon, <1>4, <1>5, <1>6, <1>7 DEF OwnInv

(* Every step keeps the invariant. *)
LEMMA OwnStep == Inv /\ [Next]_vars => OwnInv'
<1> SUFFICES ASSUME Inv, [Next]_vars PROVE OwnInv'
  BY Zenon
<1>1. CASE UNCHANGED vars
  <2>1. /\ UNCHANGED <<queue, workingTask, workingTaskReady, ready, queueId, life,
                      currentTask, pendingFreeStack, next, task, vcpuId, pc, ret>>
        /\ OwnInv
    BY Zenon, <1>1 DEF vars, queueVars, wakeVars, taskVars, cpuVars, getVars,
       argVars,
       Inv
  <2>2. LiveEntries' /\ OneEntry'
    BY ONLY <2>1, SMTT(60) DEF OwnInv, LiveEntries, OneEntry, Distinct, Slot,
       Holds, InQueue
  <2>3. QueueIds' /\ SavedOrCurrent'
    BY ONLY <2>1, SMTT(60) DEF OwnInv, QueueIds, SavedOrCurrent, Slot,
       InQueue, At
  <2>4. WorkingTasks' /\ Running'
    BY ONLY <2>1, SMTT(60) DEF OwnInv, WorkingTasks, Running, Slot, Holds,
       InQueue, At
  <2>5. Ended' /\ OneFree'
    BY ONLY <2>1, SMTT(60) DEF OwnInv, Ended, OneFree, Slot, Holds, InQueue
  <2> QED BY ONLY Zenon, <2>2, <2>3, <2>4, <2>5 DEF OwnInv
<1>2. ASSUME NEW a \in Vcpu, ScheduleStep(a) PROVE OwnInv'
  BY Zenon, <1>2, EnqueueOwn, IncReadyTaskCountOwn, ReadStateOwn, WakeOneOwn,
     WakeIdleCPUOwn DEF ScheduleStep
<1>3. ASSUME NEW v \in Worker, GetNextStep(v) PROVE OwnInv'
  BY Zenon, <1>3, NextTaskOwn, DecReadyTaskCountOwn, LoadReadyTaskCntOwn,
     StealOwn,
     SwapWoringTaskOwn, SetQueueIdOwn DEF GetNextStep
<1>4. ASSUME NEW v \in Worker, SwitchStep(v) PROVE OwnInv'
  BY Zenon, <1>4, ToRunningOwn, SwitchOwn, SwitchToWaitTaskOwn DEF SwitchStep
<1>5. ASSUME NEW v \in Worker, WaitStep(v) PROVE OwnInv'
  BY Zenon, <1>5, WaitToSearchOwn, WaitTimeoutOwn, WaitPollOwn DEF WaitStep
<1>6. ASSUME NEW v \in Worker, RunStep(v) PROVE OwnInv'
  BY Zenon, <1>6, BlockOwn, YieldOwn, RunWakeOwn, RunCloneOwn, ExitOwn
     DEF RunStep
<1>7. ASSUME NEW v \in Worker, IdleStep(v) PROVE OwnInv'
  BY ZenonT(40), <1>7, BootOwn, FreeStackOwn, WaitFnInputsOwn, VcpuWaitOwn,
     ContainsItemOwn,
     ToWaitingOwn, MaskSetOwn, EpollWaitOwn, ToSearchOwn, VcpuWaitMaskClearOwn
     DEF IdleStep
<1>8. CASE IOWake(0)
  BY Zenon, <1>8, IOWakeOwn
<1>9. CASE AQHostInputPush(0)
  BY Zenon, <1>9, AQHostInputPushOwn
<1> QED
  BY ZenonT(40), <1>1, <1>2, <1>3, <1>4, <1>5, <1>6, <1>7, <1>8, <1>9
     DEF Next, WorkerStep

(* Inv is inductive. *)
THEOREM Ownership == Spec => []Inv
<1>1. Init => Inv
  BY Zenon, LocalInit, OwnInit DEF Inv
<1>2. Inv /\ [Next]_vars => Inv'
  BY Zenon, LocalStep, OwnStep DEF Inv
<1> QED
  BY <1>1, <1>2, PTL DEF Spec

(* No task is on two vcpus, or on one and in the hands of another. *)
THEOREM Exclusive == Spec => []ExclusiveTask
<1>1. Inv => ExclusiveTask
  BY OwnTypes, VcpuFacts DEF Inv, OwnInv, OwnTypeOK, TaskOrNone, QueueIds,
     ExclusiveTask
<1> QED BY <1>1, Ownership, PTL

(* A vcpu switches only to a task whose registers are saved. *)
THEOREM Saves == Spec => []SwitchToSaved
<1>1. ASSUME Inv, NEW v \in Worker, pc[v] = "Switch" PROVE ready[next[v]]
  <2>1. OwnTypeOK /\ v \in Vcpu /\ Local(v)
    BY Zenon, <1>1, OwnTypes, VcpuFacts DEF Inv, LocalInv
  <2>2. /\ At(v) = "Switch" /\ At(v) \notin Stolen \cup {"SetQueueId"}
        /\ next[v] \in Task /\ next[v] # currentTask[v]
    BY Zenon, <1>1, <2>1 DEF Local, At, InScheduleQ, Holding, Stolen,
       OwnTypeOK,
       TaskOrNone
  <2> QED BY Zenon, <1>1, <2>1, <2>2 DEF Inv, OwnInv, QueueIds, SavedOrCurrent
<1>2. Inv => SwitchToSaved
  BY Zenon, <1>1 DEF SwitchToSaved
<1> QED BY <1>2, Ownership, PTL

(* Wait returns only to a task that was scheduled. *)
THEOREM NoSpurious == Spec => []NoSpuriousReturn
<1>1. ASSUME Inv, NEW v \in Worker, pc[v] = "Run"
      PROVE  life[currentTask[v]] = "Running"
  <2>1. OwnTypeOK /\ v \in Vcpu /\ Local(v)
    BY Zenon, <1>1, OwnTypes, VcpuFacts DEF Inv, LocalInv
  <2>2. At(v) = "Run" /\ currentTask[v] \in Task
    BY Zenon, <1>1, <2>1 DEF Local, At, InScheduleQ, OwnTypeOK, TaskOrNone
  <2> QED BY ZenonT(40), <1>1, <2>1, <2>2 DEF Inv, OwnInv, Running
<1>2. Inv => NoSpuriousReturn
  BY ZenonT(40), <1>1 DEF NoSpuriousReturn
<1> QED BY <1>2, Ownership, PTL

(* A freed task is referred to by no queue, slot or vcpu. *)
THEOREM Freed == Spec => []FreedUnreferenced
<1>1. ASSUME Inv, NEW t \in Task, life[t] = "Free", NEW q \in Vcpu
      PROVE  /\ ~InQueue(q, t) /\ ~Slot(q, t) /\ ~Holds(q, t)
             /\ currentTask[q] # t
  BY ZenonT(40), <1>1 DEF Inv, OwnInv, LiveEntries, Ended
<1>2. Inv => FreedUnreferenced
  BY Zenon, <1>1 DEF FreedUnreferenced
<1> QED BY <1>2, Ownership, PTL

(* A task has one entry in all queues, slots and hands together. *)
THEOREM Once == Spec => []ScheduledOnce
<1>1. ASSUME NEW t \in Task, NEW e \in Entries(t)
      PROVE  \/ \E q \in Vcpu : \E i \in 1 .. Len(queue[q]) :
                    queue[q][i] = t /\ e = <<"queue", q, i>>
             \/ \E q \in Vcpu : Slot(q, t) /\ e = <<"slot", q, 0>>
             \/ \E q \in Vcpu : Holds(q, t) /\ e = <<"held", q, 0>>
  <2>1. CASE e \in {<<"queue", d[1], d[2]>> :
                       d \in UNION {{q} \X {i \in 1 .. Len(queue[q]) :
                                               queue[q][i] = t} : q \in Vcpu}}
    <3>1. PICK q \in Vcpu :
             \E d \in {q} \X {i \in 1 .. Len(queue[q]) : queue[q][i] = t} :
                 e = <<"queue", d[1], d[2]>>
      BY Zenon, <2>1
    <3> QED BY Zenon, <3>1
  <2> QED BY Zenon, <2>1 DEF Entries
<1>2. ASSUME Inv, NEW t \in Task, NEW e \in Entries(t), NEW f \in Entries(t)
      PROVE  e = f
  <2>1. \A p, q \in Vcpu : /\ InQueue(p, t) => ~Slot(q, t) /\ ~Holds(q, t)
                           /\ Slot(p, t) => ~Holds(q, t)
                           /\ Holds(p, t) /\ Holds(q, t) => p = q
                           /\ Slot(p, t) /\ Slot(q, t) => p = q
                           /\ InQueue(p, t) /\ InQueue(q, t) => p = q
    <3>1. OneEntry /\ QueueIds
      BY Zenon, <1>2 DEF Inv, OwnInv
    <3>2. \A p, q \in Vcpu : /\ InQueue(p, t) => ~Slot(q, t) /\ ~Holds(q, t)
                             /\ Slot(p, t) => ~Holds(q, t)
                             /\ Holds(p, t) /\ Holds(q, t) => p = q
      BY <3>1, Zenon DEF OneEntry
    <3>3. \A q \in Vcpu : /\ InQueue(q, t) => queueId[t] = q
                          /\ Slot(q, t) => queueId[t] = q
      BY <3>1, Zenon DEF QueueIds
    <3> QED BY ONLY <3>2, <3>3, Zenon
  <2>2. \A q \in Vcpu : \A i, j \in 1 .. Len(queue[q]) :
            queue[q][i] = queue[q][j] => i = j
    BY Zenon, <1>2 DEF Inv, OwnInv, OneEntry, Distinct
  <2>3. \A q \in Vcpu : \A i \in 1 .. Len(queue[q]) :
            queue[q][i] = t => InQueue(q, t)
    BY Zenon DEF InQueue
  <2> QED BY ONLY <1>1, <1>2, <2>1, <2>2, <2>3
<1>3. Inv => ScheduledOnce
  BY Zenon, <1>2 DEF ScheduledOnce
<1> QED BY <1>3, Ownership, PTL

(* No worker sleeps in EpollWait on a task that ScheduleQ has put in its    *)
(* queue or its slot unless the wakeup is on its way, and when every worker *)
(* sleeps nothing is queued anywhere.                                       *)
THEOREM Wakes == Spec => []NoLostWakeup
<1>1. Init => WakeInv
  BY Zenon, WakeInit
<1>2. Inv /\ WakeInv /\ [Next]_vars => WakeInv'
  BY Zenon, WakeStep
<1>3. Inv /\ WakeInv => NoLostWakeup
  BY Zenon, WakeSuffices
<1> QED
  BY <1>1, <1>2, <1>3, Ownership, PTL DEF Spec

=============================================================================
