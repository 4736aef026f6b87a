--------------------------- MODULE SchedulerState ----------------------------
(***************************************************************************)
(* The state of the task scheduler (Scheduler.tla): its constants, its     *)
(* variables with their types, and what the properties say of a state.     *)
(***************************************************************************)
EXTENDS Integers, Sequences, FiniteSets

CONSTANTS
    Task,       \* the addresses a task can have; a freed one may be used again
    NoTask,     \* TaskId::New(0)
    vcpuCnt,    \* Scheduler.vcpuCnt, vcpu 0 included
    Mortal,     \* the tasks that may end and so free their address
    InputCap    \* bound on the control messages in QInput at one time

ASSUME SchedulerAssumption ==
    /\ vcpuCnt \in Nat /\ vcpuCnt >= 2
    /\ NoTask \notin Task
    /\ Mortal \subseteq Task
    /\ InputCap \in Nat

Vcpu == 0 .. vcpuCnt - 1
Worker == 1 .. vcpuCnt - 1
TaskOrNone == Task \cup {NoTask}

VARIABLES
    queue,             \* TaskQueueIntern.queue of each vcpu
    workingTask,       \* TaskQueueIntern.workingTask
    workingTaskReady,  \* TaskQueueIntern.workingTaskReady
    readyTaskCnt,      \* Scheduler.readyTaskCnt
    vcpuWaitMask,      \* Scheduler.vcpuWaitMask, as the set of its bits
    state,             \* CPULocal.state
    eventfd,           \* CPULocal.eventfd: is there something to read
    ready,             \* Context.ready: the registers of the task are saved
    queueId,           \* Task.queueId
    life,              \* the task's WaitState, or that it is dead or free
    QInput,            \* ShareSpace.QInput: control messages, each by the task
                       \* that ProcessInputMsgs creates to handle it
    pc,                \* where each vcpu is
    currentTask,       \* CPULocal.currentTask; NoTask stands for waitTask
    pendingFreeStack,  \* CPULocal.pendingFreeStack
    next,              \* the task GetNext found
    retNext,           \* the caller of GetNext
    task,              \* the arguments of ScheduleQ: the task,
    vcpuId,            \* its queue, afterwards the vcpu to wake,
    cpuAff,            \* and the affinity;
    ret,               \* where ScheduleQ returns to
    idx                \* loop index of Steal

queueVars == <<queue, workingTask, workingTaskReady>>
wakeVars == <<vcpuWaitMask, eventfd>>
taskVars == <<ready, queueId, life>>
cpuVars == <<currentTask, pendingFreeStack>>
getVars == <<next, retNext>>
argVars == <<task, vcpuId, cpuAff, ret>>
vars == <<queue, workingTask, workingTaskReady, readyTaskCnt, vcpuWaitMask,
          state, eventfd, ready, queueId, life, QInput, pc, currentTask,
          pendingFreeStack, next, retNext, task, vcpuId, cpuAff, ret,
          idx>>

-----------------------------------------------------------------------------
(* Task states: Free (no Task at this address), Running and Waiting (the    *)
(* WaitState of its waiter), Dead (left for ever, its stack not yet freed). *)
LifeStates == {"Free", "Running", "Waiting", "Dead"}

NoRet == "None"

PCs == {"Boot", "IO", "Enqueue", "IncReady", "ReadState", "WakeOne",
        "WakeIdle", "Next", "DecNext", "LoadReady", "Steal",
        "DecSteal", "Swap", "SetQueueId", "Search", "ToRunning", "Switch",
        "Run", "SwitchToWait", "Wait", "Free", "Inputs", "VcpuWait", "Input1",
        "Input2", "ToWaiting", "MaskSet", "EpollWait", "ToSearch",
        "MaskClear"}

RetNexts == {"Wait", "WaitFn", "Process1", "Process2", "MaskSet", NoRet}

TaskSeq == Seq(Task)

(* The type of every variable. *)
TypeOK ==
    /\ queue \in [Vcpu -> TaskSeq]
    /\ workingTask \in [Vcpu -> TaskOrNone]
    /\ workingTaskReady \in [Vcpu -> BOOLEAN]
    /\ readyTaskCnt \in Int
    /\ vcpuWaitMask \in SUBSET Worker
    /\ state \in [Vcpu -> {"Searching", "Waiting", "Running"}]
    /\ eventfd \in [Vcpu -> BOOLEAN]
    /\ ready \in [Task -> BOOLEAN]
    /\ queueId \in [Task -> Vcpu]
    /\ life \in [Task -> LifeStates]
    /\ QInput \in TaskSeq
    /\ pc \in [Vcpu -> PCs]
    /\ currentTask \in [Vcpu -> TaskOrNone]
    /\ pendingFreeStack \in [Vcpu -> TaskOrNone]
    /\ next \in [Vcpu -> TaskOrNone]
    /\ retNext \in [Vcpu -> RetNexts]
    /\ task \in [Vcpu -> TaskOrNone]
    /\ vcpuId \in [Vcpu -> Vcpu]
    /\ cpuAff \in [Vcpu -> BOOLEAN]
    /\ ret \in [Vcpu -> PCs \cup {NoRet}]
    /\ idx \in [Vcpu -> Vcpu]

(* t is a task that vcpu v has taken out of the queues, to run it or to    *)
(* put it back.                                                            *)
Holds(v, t) == next[v] = t \/ task[v] = t

InQueue(q, t) == \E i \in 1 .. Len(queue[q]) : queue[q][i] = t
Slot(q, t) == workingTaskReady[q] /\ workingTask[q] = t

(* context_swap: the old task's registers are saved before its flag is set. *)
Saved(v) == IF currentTask[v] = NoTask THEN ready
            ELSE [ready EXCEPT ![currentTask[v]] = TRUE]

=============================================================================
