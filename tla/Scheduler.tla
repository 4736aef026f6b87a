------------------------------ MODULE Scheduler ------------------------------
(***************************************************************************)
(* The task scheduler that QKernel (guest) and QVisor (host) share through *)
(* the ShareSpace: per-vcpu run queues with a working-task slot, work      *)
(* stealing, the wait mask and the eventfds that wake idle vcpus.          *)
(*                                                                         *)
(*   src/qlib/task_mgr.rs          Scheduler, TaskQueue                    *)
(*   src/qlib/kernel/taskMgr.rs    WaitFn, Wait, Yield, Steal, GetNext     *)
(*   src/qlib/vcpu_mgr.rs          VcpuState and its transitions           *)
(*   src/qvisor/src/kvm_vcpu.rs    VcpuWait, the host half of idling       *)
(*   src/qkernel/src/kernel_def.rs, syscall_entry.s   switch, context_swap *)
(*                                                                         *)
(* Every step is one access to shared memory or one critical section of a  *)
(* queue's QMutex, so all interleavings of vcpus are explored.  Vcpu 0 is  *)
(* the IO thread: it wakes tasks and never runs one.  The waiter of a task *)
(* appears only as its WaitState (waiter.rs): a task may be scheduled by   *)
(* somebody else only while that state is Waiting, and the waker takes it  *)
(* back to Running before it calls Schedule.                               *)
(***************************************************************************)
EXTENDS SchedulerState

Goto(a, l) == pc' = [pc EXCEPT ![a] = l]

-----------------------------------------------------------------------------
(* Call GetNext from l; it ends with GetNextSome or GetNextNone. *)
CallGetNext(v, l) ==
    /\ Goto(v, "Next")
    /\ retNext' = [retNext EXCEPT ![v] = l]

(* Where the callers go on: Wait and WaitFn switch to the task, VcpuWait    *)
(* returns it through its deferred calls.  Without a task Wait searches on, *)
(* WaitFn goes to the host, VcpuWait looks at QInput or falls asleep.       *)
AfterSome == [Wait |-> "ToRunning", WaitFn |-> "ToRunning",
              Process1 |-> "MaskClear", Process2 |-> "ToSearch",
              MaskSet |-> "ToSearch"]

AfterNone == [Wait |-> "Search", WaitFn |-> "VcpuWait",
              Process1 |-> "Input1", Process2 |-> "Input2",
              MaskSet |-> "EpollWait"]

GetNextSome(v) ==
    /\ Goto(v, AfterSome[retNext[v]])
    /\ retNext' = [retNext EXCEPT ![v] = NoRet]

GetNextNone(v) ==
    /\ Goto(v, AfterNone[retNext[v]])
    /\ retNext' = [retNext EXCEPT ![v] = NoRet]

(* Call ScheduleQ(t, q, aff) and continue at l. *)
CallScheduleQ(a, t, q, aff, l) ==
    /\ Goto(a, "Enqueue")
    /\ task' = [task EXCEPT ![a] = t]
    /\ vcpuId' = [vcpuId EXCEPT ![a] = q]
    /\ cpuAff' = [cpuAff EXCEPT ![a] = aff]
    /\ ret' = [ret EXCEPT ![a] = l]

(* Once the task is queued, a vcpu is left to be woken, if any. *)
WakeNext(a, w) == vcpuId' = [vcpuId EXCEPT ![a] = w] /\ UNCHANGED ret

ReturnScheduleQ(a) ==
    /\ Goto(a, ret[a])
    /\ vcpuId' = [vcpuId EXCEPT ![a] = 0]
    /\ ret' = [ret EXCEPT ![a] = NoRet]

Init ==
    /\ queue = [q \in Vcpu |-> <<>>]
    /\ workingTask = [q \in Vcpu |-> NoTask]
    /\ workingTaskReady = [q \in Vcpu |-> FALSE]
    /\ readyTaskCnt = 0
    /\ vcpuWaitMask = {}
    /\ state = [v \in Vcpu |-> "Searching"]
    /\ eventfd = [v \in Vcpu |-> FALSE]
    /\ ready = [t \in Task |-> TRUE]
    /\ queueId = [t \in Task |-> 0]
    /\ life = [t \in Task |-> "Free"]
    /\ QInput = <<>>
    /\ pc = [v \in Vcpu |-> IF v = 0 THEN "IO"
                            ELSE IF v = 1 THEN "Boot" ELSE "Next"]
    /\ currentTask = [v \in Vcpu |-> NoTask]
    /\ pendingFreeStack = [v \in Vcpu |-> NoTask]
    /\ next = [v \in Vcpu |-> NoTask]
    /\ retNext = [v \in Vcpu |-> IF v = 0 THEN NoRet ELSE "WaitFn"]
    /\ task = [v \in Vcpu |-> NoTask]
    /\ vcpuId = [v \in Vcpu |-> 0]
    /\ cpuAff = [v \in Vcpu |-> FALSE]
    /\ ret = [v \in Vcpu |-> NoRet]
    /\ idx = [v \in Vcpu |-> 0]

-----------------------------------------------------------------------------
(* ScheduleQ(task, vcpuId, cpuAff).                                        *)

(* Mutant: Enqueue returns true for the working slot as well. *)
(* TaskQueue::Enqueue: the owner's own task goes to the working slot. *)
Enqueue(a) ==
    LET t == task[a]
        q == vcpuId[a]
    IN  /\ pc[a] = "Enqueue"
        /\ IF cpuAff[a] /\ t = workingTask[q]
           THEN /\ workingTaskReady' = [workingTaskReady EXCEPT ![q] = TRUE]
                /\ Goto(a, "ReadState")
                /\ UNCHANGED queue
           ELSE /\ queue' = [queue EXCEPT ![q] = Append(@, t)]
                /\ Goto(a, "IncReady")
                /\ UNCHANGED workingTaskReady
        /\ task' = [task EXCEPT ![a] = NoTask]
        /\ cpuAff' = [cpuAff EXCEPT ![a] = FALSE]
        /\ UNCHANGED <<workingTask, readyTaskCnt, wakeVars, state, taskVars,
                       QInput, cpuVars, getVars, vcpuId, ret, idx>>

IncReadyTaskCount(a) ==
    /\ pc[a] = "IncReady"
    /\ readyTaskCnt' = readyTaskCnt + 1
    /\ Goto(a, "ReadState")
    /\ UNCHANGED <<queueVars, wakeVars, state, taskVars, QInput, cpuVars,
                   getVars, argVars, idx>>

(* CPULocal::Wakeup: write the eventfd of vcpu w.  The write is joined to *)
(* the read that decided on it; coming later it can only find w as it was *)
(* or leave a token that w reads later, as it may do here.                *)
Wakeup(w) == eventfd' = [eventfd EXCEPT ![w] = TRUE]

(* Mutant: a waiting owner is taken to find the task by itself. *)
ReadState_WaitingNotWoken(a) ==
    LET q == vcpuId[a]
    IN  /\ pc[a] = "ReadState"
        /\ \/ /\ q = 0 \/ state[q] = "Running"
              /\ Goto(a, "WakeOne")
              /\ WakeNext(a, 0)
           \/ q # 0 /\ state[q] # "Running" /\ ReturnScheduleQ(a)
        /\ UNCHANGED <<queueVars, readyTaskCnt, wakeVars, state, taskVars,
                       QInput, cpuVars, getVars, task, cpuAff, idx>>

(* Whom to wake follows from the state of the queue's owner. *)
ReadState(a) ==
    LET q == vcpuId[a]
    IN  /\ pc[a] = "ReadState"
        /\ \/ /\ q = 0 \/ state[q] = "Running"
              /\ Goto(a, "WakeOne")
              /\ WakeNext(a, 0)
              /\ UNCHANGED eventfd
           \/ /\ q # 0 /\ state[q] = "Waiting"
              /\ Wakeup(q)
              /\ ReturnScheduleQ(a)
           \/ /\ q # 0 /\ state[q] = "Searching"
              /\ ReturnScheduleQ(a)
              /\ UNCHANGED eventfd
        /\ UNCHANGED <<queueVars, readyTaskCnt, vcpuWaitMask, state, taskVars,
                       QInput, cpuVars, getVars, task, cpuAff, idx>>

(* WakeOne: load the mask and pick its lowest bit. *)
WakeOne(a) ==
    /\ pc[a] = "WakeOne"
    /\ \/ vcpuWaitMask = {} /\ ReturnScheduleQ(a)
       \/ \E w \in vcpuWaitMask :
             /\ \A u \in vcpuWaitMask : w <= u
             /\ WakeNext(a, w)
             /\ Goto(a, "WakeIdle")
    /\ UNCHANGED <<queueVars, readyTaskCnt, wakeVars, state, taskVars, QInput,
                   cpuVars, getVars, task, cpuAff, idx>>

(* WakeIdleCPU: fetch_and decides which of several wakers owns the bit, and *)
(* only that one writes the eventfd; the others load the mask again.        *)
WakeIdleCPU(a) ==
    LET w == vcpuId[a]
    IN  /\ pc[a] = "WakeIdle"
        /\ vcpuWaitMask' = vcpuWaitMask \ {w}
        /\ IF w \in vcpuWaitMask
           THEN Wakeup(w) /\ ReturnScheduleQ(a)
           ELSE /\ Goto(a, "WakeOne")
                /\ WakeNext(a, 0)
                /\ UNCHANGED eventfd
        /\ UNCHANGED <<queueVars, readyTaskCnt, state, taskVars, QInput,
                       cpuVars, getVars, task, cpuAff, idx>>

-----------------------------------------------------------------------------
(* GetNext of vcpu v.                                                      *)

(* Mutant: the working slot is not emptied. *)
NextTask_SlotKept(v) ==
    /\ pc[v] = "Next"
    /\ \/ /\ workingTaskReady[v]
          /\ next' = [next EXCEPT ![v] = workingTask[v]]
          /\ GetNextSome(v)
          /\ UNCHANGED queueVars
       \/ /\ ~workingTaskReady[v] /\ queue[v] # <<>>
          /\ queue' = [queue EXCEPT ![v] = Tail(@)]
          /\ workingTask' = [workingTask EXCEPT ![v] = Head(queue[v])]
          /\ next' = [next EXCEPT ![v] = Head(queue[v])]
          /\ Goto(v, "DecNext")
          /\ UNCHANGED <<workingTaskReady, retNext>>
       \/ /\ ~workingTaskReady[v] /\ queue[v] = <<>>
          /\ Goto(v, "LoadReady")
          /\ UNCHANGED <<queueVars, getVars>>
    /\ UNCHANGED <<readyTaskCnt, wakeVars, state, taskVars, QInput, cpuVars,
                   argVars, idx>>

(* TaskQueue::Next: the working slot first, then the head of the queue. *)
NextTask(v) ==
    /\ pc[v] = "Next"
    /\ \/ /\ workingTaskReady[v]
          /\ workingTaskReady' = [workingTaskReady EXCEPT ![v] = FALSE]
          /\ next' = [next EXCEPT ![v] = workingTask[v]]
          /\ GetNextSome(v)
          /\ UNCHANGED <<queue, workingTask>>
       \/ /\ ~workingTaskReady[v] /\ queue[v] # <<>>
          /\ queue' = [queue EXCEPT ![v] = Tail(@)]
          /\ workingTask' = [workingTask EXCEPT ![v] = Head(queue[v])]
          /\ next' = [next EXCEPT ![v] = Head(queue[v])]
          /\ Goto(v, "DecNext")
          /\ UNCHANGED <<workingTaskReady, retNext>>
       \/ /\ ~workingTaskReady[v] /\ queue[v] = <<>>
          /\ Goto(v, "LoadReady")
          /\ UNCHANGED <<queueVars, getVars>>
    /\ UNCHANGED <<readyTaskCnt, wakeVars, state, taskVars, QInput, cpuVars,
                   argVars, idx>>

(* DecReadyTaskCount, after Next and after a steal. *)
DecReadyTaskCount(v) ==
    /\ \/ pc[v] = "DecNext" /\ GetNextSome(v)
       \/ pc[v] = "DecSteal" /\ Goto(v, "Swap") /\ UNCHANGED retNext
    /\ readyTaskCnt' = readyTaskCnt - 1
    /\ UNCHANGED <<queueVars, wakeVars, state, taskVars, QInput, cpuVars,
                   next, argVars, idx>>

(* Mutant: off by one in the test of the global count. *)
LoadReadyTaskCnt_OffByOne(v) ==
    /\ pc[v] = "LoadReady"
    /\ IF readyTaskCnt <= 1 THEN GetNextNone(v)
       ELSE Goto(v, "Steal") /\ UNCHANGED retNext
    /\ UNCHANGED <<queueVars, readyTaskCnt, wakeVars, state, taskVars, QInput,
                   cpuVars, next, argVars, idx>>

(* Scheduler::Steal looks at no queue when the global count is zero. *)
LoadReadyTaskCnt(v) ==
    /\ pc[v] = "LoadReady"
    /\ IF readyTaskCnt = 0 THEN GetNextNone(v)
       ELSE Goto(v, "Steal") /\ UNCHANGED retNext
    /\ UNCHANGED <<queueVars, readyTaskCnt, wakeVars, state, taskVars, QInput,
                   cpuVars, next, argVars, idx>>

(* The queue that the i-th attempt of Scheduler::Steal looks at. *)
Victim(v, i) == IF i = 0 THEN 0 ELSE (i + v) % vcpuCnt

(* Somebody else is at, so perhaps inside, a critical section of queue q. *)
LockBusy(v, q) ==
    \E a \in Vcpu \ {v} :
        \/ pc[a] = "Enqueue" /\ vcpuId[a] = q
        \/ pc[a] \in {"Next", "Swap", "Search"} /\ a = q
        \/ pc[a] = "Steal" /\ Victim(a, idx[a]) = q

(* Mutant: the ready flag is not looked at. *)
StealFrom_AnyTask(v, q) ==
    /\ queue[q] # <<>>
    /\ next' = [next EXCEPT ![v] = Head(queue[q])]
    /\ queue' = [queue EXCEPT ![q] = Tail(@)]

(* TaskQueue::Steal takes the first task whose registers are saved; the   *)
(* ones before it are rotated to the back.                                *)
StealFrom(v, q) ==
    \E i \in 1 .. Len(queue[q]) :
        /\ ready[queue[q][i]]
        /\ \A j \in 1 .. i - 1 : ~ready[queue[q][j]]
        /\ next' = [next EXCEPT ![v] = queue[q][i]]
        /\ queue' = [queue EXCEPT ![q] =
                        SubSeq(@, i + 1, Len(@)) \o SubSeq(@, 1, i - 1)]

(* It takes none when there is none, or when try_lock fails. *)
StealNothing(v, q) ==
    \/ \A i \in 1 .. Len(queue[q]) : ~ready[queue[q][i]]
    \/ queue[q] # <<>> /\ LockBusy(v, q)

(* Mutant: one attempt too many. *)
Steal(v) ==
    LET q == Victim(v, idx[v])
    IN  /\ pc[v] = "Steal"
        /\ \/ /\ StealFrom(v, q)
              /\ Goto(v, "DecSteal")
              /\ idx' = [idx EXCEPT ![v] = 0]
              /\ UNCHANGED retNext
           \/ /\ StealNothing(v, q) /\ idx[v] < vcpuCnt - 1
              /\ idx' = [idx EXCEPT ![v] = @ + 1]
              /\ UNCHANGED <<pc, queue, getVars>>
           \/ /\ StealNothing(v, q) /\ idx[v] = vcpuCnt - 1
              /\ GetNextNone(v)
              /\ idx' = [idx EXCEPT ![v] = 0]
              /\ UNCHANGED <<queue, next>>
        /\ UNCHANGED <<workingTask, workingTaskReady, readyTaskCnt, wakeVars,
                       state, taskVars, QInput, cpuVars, argVars>>

(* SwapWoringTask: when the working task became ready meanwhile it is run *)
(* and the stolen task is scheduled again.                                *)
SwapWoringTask(v) ==
    /\ pc[v] = "Swap"
    /\ \/ /\ workingTaskReady[v]
          /\ workingTaskReady' = [workingTaskReady EXCEPT ![v] = FALSE]
          /\ next' = [next EXCEPT ![v] = workingTask[v]]
          /\ CallScheduleQ(v, next[v], queueId[next[v]], TRUE,
                           AfterSome[retNext[v]])
          /\ retNext' = [retNext EXCEPT ![v] = NoRet]
          /\ UNCHANGED workingTask
       \/ /\ ~workingTaskReady[v]
          /\ workingTask' = [workingTask EXCEPT ![v] = next[v]]
          /\ Goto(v, "SetQueueId")
          /\ UNCHANGED <<workingTaskReady, getVars, argVars>>
    /\ UNCHANGED <<queue, readyTaskCnt, wakeVars, state, taskVars, QInput,
                   cpuVars, idx>>

SetQueueId(v) ==
    /\ pc[v] = "SetQueueId"
    /\ queueId' = [queueId EXCEPT ![next[v]] = v]
    /\ GetNextSome(v)
    /\ UNCHANGED <<queueVars, readyTaskCnt, wakeVars, state, ready, life,
                   QInput, cpuVars, next, argVars, idx>>

-----------------------------------------------------------------------------
(* SwitchToRunning and switch.                                             *)

(* Without a switch when the task found is the current one. *)
ToRunning(v) ==
    /\ pc[v] = "ToRunning"
    /\ state' = [state EXCEPT ![v] = "Running"]
    /\ IF next[v] = currentTask[v]
       THEN Goto(v, "Run") /\ next' = [next EXCEPT ![v] = NoTask]
       ELSE Goto(v, "Switch") /\ UNCHANGED next
    /\ UNCHANGED <<queueVars, readyTaskCnt, wakeVars, taskVars, QInput,
                   cpuVars, retNext, argVars, idx>>

Switch(v) ==
    /\ pc[v] = "Switch"
    /\ ready' = [Saved(v) EXCEPT ![next[v]] = FALSE]
    /\ currentTask' = [currentTask EXCEPT ![v] = next[v]]
    /\ next' = [next EXCEPT ![v] = NoTask]
    /\ Goto(v, "Run")
    /\ UNCHANGED <<queueVars, readyTaskCnt, wakeVars, state, queueId, life,
                   QInput, pendingFreeStack, retNext, argVars, idx>>

(* The switch to waitTask; WaitFn goes on after its own switch. *)
SwitchToWaitTask(v) ==
    /\ pc[v] = "SwitchToWait"
    /\ ready' = Saved(v)
    /\ currentTask' = [currentTask EXCEPT ![v] = NoTask]
    /\ IF pendingFreeStack[v] = NoTask
       THEN CallGetNext(v, "WaitFn")
       ELSE Goto(v, "Free") /\ UNCHANGED retNext
    /\ UNCHANGED <<queueVars, readyTaskCnt, wakeVars, state, queueId, life,
                   QInput, pendingFreeStack, next, argVars, idx>>

-----------------------------------------------------------------------------
(* taskMgr::Wait, called by the current task.                              *)

WaitToSearch(v) ==
    /\ pc[v] = "Wait"
    /\ state' = [state EXCEPT ![v] = "Searching"]
    /\ CallGetNext(v, "Wait")
    /\ UNCHANGED <<queueVars, readyTaskCnt, wakeVars, taskVars, QInput,
                   cpuVars, next, argVars, idx>>

(* Mutant: the working task is reset although it became ready. *)
(* WAIT_CYCLES have passed: ResetWorkingTask, and leave for waitTask. *)
WaitTimeout(v) ==
    /\ pc[v] = "Search"
    /\ IF workingTaskReady[v]
       THEN /\ workingTaskReady' = [workingTaskReady EXCEPT ![v] = FALSE]
            /\ next' = [next EXCEPT ![v] = workingTask[v]]
            /\ Goto(v, "ToRunning")
            /\ UNCHANGED workingTask
       ELSE /\ workingTask' = [workingTask EXCEPT ![v] = NoTask]
            /\ Goto(v, "SwitchToWait")
            /\ UNCHANGED <<workingTaskReady, next>>
    /\ UNCHANGED <<queue, readyTaskCnt, wakeVars, state, taskVars, QInput,
                   cpuVars, retNext, argVars, idx>>

(* Mutant: Trigger leaves the state Waiting. *)
WakeTask_StateKept(a, l) ==
    \E t \in Task, aff \in BOOLEAN :
        /\ life[t] = "Waiting"
        /\ CallScheduleQ(a, t, queueId[t], aff, l)
        /\ UNCHANGED <<taskVars, QInput>>

(* The waiter of t is taken from Waiting to Running by one waker, which    *)
(* then calls Schedule: Waiter::Trigger, or a completed io_uring or qcall. *)
WakeTask(a, l) ==
    \E t \in Task, aff \in BOOLEAN :
        /\ life[t] = "Waiting"
        /\ life' = [life EXCEPT ![t] = "Running"]
        /\ CallScheduleQ(a, t, queueId[t], aff, l)
        /\ UNCHANGED <<ready, queueId, QInput>>

(* The address is not the one a queued control message will use. *)
Unclaimed(t) == \A i \in 1 .. Len(QInput) : QInput[i] # t

(* A new Task at a free address, ready, in queue 0. *)
CreateTask(a, t, l) ==
    /\ life[t] = "Free"
    /\ life' = [life EXCEPT ![t] = "Running"]
    /\ ready' = [ready EXCEPT ![t] = TRUE]
    /\ queueId' = [queueId EXCEPT ![t] = 0]
    /\ CallScheduleQ(a, t, 0, FALSE, l)

(* ProcessInputMsgs pops one message and creates the task that handles it. *)
ProcessInputMsg(a, l) ==
    /\ QInput # <<>>
    /\ QInput' = Tail(QInput)
    /\ CreateTask(a, Head(QInput), l)

(* One turn of the loop: PollAsyncMsg may wake tasks, then GetNext again. *)
WaitPoll(v) ==
    /\ pc[v] = "Search"
    /\ \/ CallGetNext(v, "Wait") /\ UNCHANGED <<taskVars, QInput, argVars>>
       \/ WakeTask(v, "Search") /\ UNCHANGED retNext
       \/ ProcessInputMsg(v, "Search") /\ UNCHANGED retNext
    /\ UNCHANGED <<queueVars, readyTaskCnt, wakeVars, state, cpuVars, next,
                   idx>>

-----------------------------------------------------------------------------
(* What the task running on v does.                                        *)

(* Waiter::Wait finds no event: the state becomes Waiting, then Wait(). *)
Block(v) ==
    /\ pc[v] = "Run"
    /\ life' = [life EXCEPT ![currentTask[v]] = "Waiting"]
    /\ Goto(v, "Wait")
    /\ UNCHANGED <<queueVars, readyTaskCnt, wakeVars, state, ready, queueId,
                   QInput, cpuVars, getVars, argVars, idx>>

(* Yield, from the timer interrupt or a system call; nothing to do when no *)
(* task is counted ready.                                                  *)
Yield(v) ==
    /\ pc[v] = "Run" /\ readyTaskCnt # 0
    /\ CallScheduleQ(v, currentTask[v], queueId[currentTask[v]], FALSE, "Wait")
    /\ UNCHANGED <<queueVars, readyTaskCnt, wakeVars, state, taskVars, QInput,
                   cpuVars, getVars, idx>>

(* Wake another task. *)
RunWake(v) ==
    /\ pc[v] = "Run"
    /\ WakeTask(v, "Run")
    /\ UNCHANGED <<queueVars, readyTaskCnt, wakeVars, state, cpuVars, getVars,
                   idx>>

(* clone: taskMgr::NewTask. *)
RunClone(v) ==
    /\ pc[v] = "Run"
    /\ \E t \in Task : Unclaimed(t) /\ CreateTask(v, t, "Run")
    /\ UNCHANGED <<queueVars, readyTaskCnt, wakeVars, state, QInput, cpuVars,
                   getVars, idx>>

(* Mutant: the stack is freed by the task that runs on it. *)
Exit_FreesItself(v) ==
    /\ pc[v] = "Run" /\ currentTask[v] \in Mortal
    /\ life' = [life EXCEPT ![currentTask[v]] = "Free"]
    /\ state' = [state EXCEPT ![v] = "Searching"]
    /\ Goto(v, "SwitchToWait")
    /\ UNCHANGED <<queueVars, readyTaskCnt, wakeVars, ready, queueId, QInput,
                   cpuVars, getVars, argVars, idx>>

(* The task ends: SetPendingFreeStack, then SwitchToNewTask's ToSearch. *)
Exit(v) ==
    /\ pc[v] = "Run" /\ currentTask[v] \in Mortal
    /\ life' = [life EXCEPT ![currentTask[v]] = "Dead"]
    /\ pendingFreeStack' = [pendingFreeStack EXCEPT ![v] = currentTask[v]]
    /\ state' = [state EXCEPT ![v] = "Searching"]
    /\ Goto(v, "SwitchToWait")
    /\ UNCHANGED <<queueVars, readyTaskCnt, wakeVars, ready, queueId, QInput,
                   currentTask, getVars, argVars, idx>>

-----------------------------------------------------------------------------
(* WaitFn, on the stack of waitTask.                                       *)

(* Worker 1 creates the root container's task before it enters WaitFn, if *)
(* the VM was configured with autoStart.                                  *)
Boot(v) ==
    /\ pc[v] = "Boot"
    /\ \/ \E t \in Task : Unclaimed(t) /\ CreateTask(v, t, "Next")
       \/ Goto(v, "Next") /\ UNCHANGED <<taskVars, argVars>>
    /\ UNCHANGED <<queueVars, readyTaskCnt, wakeVars, state, QInput, cpuVars,
                   getVars, idx>>

(* After the switch back: free the stack of the task that ended. *)
FreeStack(v) ==
    /\ pc[v] = "Free"
    /\ life' = [life EXCEPT ![pendingFreeStack[v]] = "Free"]
    /\ queueId' = [queueId EXCEPT ![pendingFreeStack[v]] = 0]
    /\ pendingFreeStack' = [pendingFreeStack EXCEPT ![v] = NoTask]
    /\ CallGetNext(v, "WaitFn")
    /\ UNCHANGED <<queueVars, readyTaskCnt, wakeVars, state, ready, QInput,
                   currentTask, next, argVars, idx>>

(* ProcessInputMsgs after VcpuWait; without a task VcpuWait is called again. *)
WaitFnInputs(v) ==
    /\ pc[v] = "Inputs"
    /\ \/ ProcessInputMsg(v, "Inputs")
       \/ /\ QInput = <<>>
          /\ Goto(v, IF next[v] = NoTask THEN "VcpuWait" ELSE "ToRunning")
          /\ UNCHANGED <<taskVars, QInput, argVars>>
    /\ UNCHANGED <<queueVars, readyTaskCnt, wakeVars, state, cpuVars, getVars,
                   idx>>

-----------------------------------------------------------------------------
(* CPULocal::VcpuWait, in the host.                                        *)

(* VcpuWaitMaskSet, then the first Process: a task or a control message    *)
(* ends the wait.                                                          *)
VcpuWait(v) ==
    /\ pc[v] = "VcpuWait"
    /\ vcpuWaitMask' = vcpuWaitMask \cup {v}
    /\ CallGetNext(v, "Process1")
    /\ UNCHANGED <<queueVars, readyTaskCnt, state, eventfd, taskVars, QInput,
                   cpuVars, next, argVars, idx>>

(* AQHostInputContainsItem, in the first Process and in the loop's. *)
ContainsItem(v) ==
    /\ \/ /\ pc[v] = "Input1"
          /\ Goto(v, IF QInput # <<>> THEN "MaskClear" ELSE "ToWaiting")
       \/ /\ pc[v] = "Input2"
          /\ Goto(v, IF QInput # <<>> THEN "ToSearch" ELSE "MaskSet")
    /\ UNCHANGED <<queueVars, readyTaskCnt, wakeVars, state, taskVars, QInput,
                   cpuVars, getVars, argVars, idx>>

ToWaiting(v) ==
    /\ pc[v] = "ToWaiting"
    /\ state' = [state EXCEPT ![v] = "Waiting"]
    /\ CallGetNext(v, "Process2")
    /\ UNCHANGED <<queueVars, readyTaskCnt, wakeVars, taskVars, QInput,
                   cpuVars, next, argVars, idx>>

(* VcpuWaitMaskSet: only when the bit was still set is GetNext tried again. *)
MaskSet(v) ==
    /\ pc[v] = "MaskSet"
    /\ vcpuWaitMask' = vcpuWaitMask \cup {v}
    /\ IF v \in vcpuWaitMask
       THEN CallGetNext(v, "MaskSet")
       ELSE Goto(v, "EpollWait") /\ UNCHANGED retNext
    /\ UNCHANGED <<queueVars, readyTaskCnt, state, eventfd, taskVars, QInput,
                   cpuVars, next, argVars, idx>>

(* epoll_wait and the blocking read that takes the eventfd back to zero. *)
EpollWait(v) ==
    /\ pc[v] = "EpollWait" /\ eventfd[v]
    /\ eventfd' = [eventfd EXCEPT ![v] = FALSE]
    /\ CallGetNext(v, "Process2")
    /\ UNCHANGED <<queueVars, readyTaskCnt, vcpuWaitMask, state, taskVars,
                   QInput, cpuVars, next, argVars, idx>>

(* Mutant: the state stays Waiting. *)
(* The deferred ToSearch and VcpuWaitMaskClear. *)
ToSearch(v) ==
    /\ pc[v] = "ToSearch"
    /\ state' = [state EXCEPT ![v] = "Searching"]
    /\ Goto(v, "MaskClear")
    /\ UNCHANGED <<queueVars, readyTaskCnt, wakeVars, taskVars, QInput,
                   cpuVars, getVars, argVars, idx>>

VcpuWaitMaskClear(v) ==
    /\ pc[v] = "MaskClear"
    /\ vcpuWaitMask' = vcpuWaitMask \ {v}
    /\ Goto(v, "Inputs")
    /\ UNCHANGED <<queueVars, readyTaskCnt, state, eventfd, taskVars, QInput,
                   cpuVars, getVars, argVars, idx>>

-----------------------------------------------------------------------------
(* The IO thread (vcpu 0): completions, timers and fd events wake tasks; a *)
(* connection on the control socket is AQHostInputPush.                    *)

IOWake(a) ==
    /\ pc[a] = "IO"
    /\ WakeTask(a, "IO")
    /\ UNCHANGED <<queueVars, readyTaskCnt, wakeVars, state, cpuVars, getVars,
                   idx>>

AQHostInputPush(a) ==
    /\ pc[a] = "IO" /\ Len(QInput) < InputCap
    /\ \E t \in Task : /\ life[t] = "Free" /\ Unclaimed(t)
                       /\ QInput' = Append(QInput, t)
    /\ Goto(a, "WakeOne")
    /\ ret' = [ret EXCEPT ![a] = "IO"]
    /\ UNCHANGED <<queueVars, readyTaskCnt, wakeVars, state, taskVars, cpuVars,
                   getVars, task, vcpuId, cpuAff, idx>>

-----------------------------------------------------------------------------
ScheduleStep(a) ==
    \/ Enqueue(a) \/ IncReadyTaskCount(a) \/ ReadState(a)
    \/ WakeOne(a) \/ WakeIdleCPU(a)

GetNextStep(v) ==
    \/ NextTask(v) \/ DecReadyTaskCount(v) \/ LoadReadyTaskCnt(v)
    \/ Steal(v) \/ SwapWoringTask(v) \/ SetQueueId(v)

SwitchStep(v) == ToRunning(v) \/ Switch(v) \/ SwitchToWaitTask(v)

WaitStep(v) == WaitToSearch(v) \/ WaitTimeout(v) \/ WaitPoll(v)

RunStep(v) == Block(v) \/ Yield(v) \/ RunWake(v) \/ RunClone(v) \/ Exit(v)

IdleStep(v) ==
    \/ Boot(v) \/ FreeStack(v) \/ WaitFnInputs(v)
    \/ VcpuWait(v) \/ ContainsItem(v) \/ ToWaiting(v) \/ MaskSet(v)
    \/ EpollWait(v) \/ ToSearch(v) \/ VcpuWaitMaskClear(v)

WorkerStep(v) ==
    \/ GetNextStep(v) \/ SwitchStep(v) \/ WaitStep(v)
    \/ RunStep(v) \/ IdleStep(v)

Next ==
    \/ \E a \in Vcpu : ScheduleStep(a)
    \/ \E v \in Worker : WorkerStep(v)
    \/ IOWake(0)
    \/ AQHostInputPush(0)

Spec == Init /\ [][Next]_vars

(* Each vcpu is a host thread, so it takes its next step sooner or later; a *)
(* running task need not do anything, but one that runs while tasks are     *)
(* counted ready is preempted: CheckVcpuTimeout interrupts it and the       *)
(* handler yields.  Nothing is assumed of wakers, nor of what tasks do.     *)
Fairness ==
    /\ \A a \in Vcpu : WF_vars(ScheduleStep(a))
    /\ \A v \in Worker : /\ WF_vars(GetNextStep(v))
                         /\ WF_vars(SwitchStep(v))
                         /\ WF_vars(WaitStep(v))
                         /\ WF_vars(IdleStep(v))
                         /\ WF_vars(Yield(v))

LiveSpec == Spec /\ Fairness

-----------------------------------------------------------------------------
(* Properties.                                                             *)

(* A task is never on two vcpus: the one running it, or still saving its   *)
(* registers, is the only one that may have taken it from a queue.  Next   *)
(* ignores the ready flag, so this rests on Steal's check of it and on the *)
(* queue a task is put in.                                                 *)
ExclusiveTask ==
    \A u, v \in Worker :
        (currentTask[u] # NoTask /\ currentTask[u] \in {currentTask[v], next[v]})
            => u = v

(* A vcpu resumes only a task whose registers are saved, although Next      *)
(* does not look at the ready flag: the queue it pops holds, of the tasks   *)
(* not saved, only its own current one, which needs no switch.              *)
SwitchToSaved == \A v \in Worker : pc[v] = "Switch" => ready[next[v]]

(* The places t is scheduled in: queue positions, working slots, vcpus. *)
Entries(t) ==
    {<<"queue", e[1], e[2]>> : e \in UNION {{q} \X {i \in 1 .. Len(queue[q]) :
                                                   queue[q][i] = t} : q \in Vcpu}}
    \cup {<<"slot", q, 0>> : q \in {q \in Vcpu : Slot(q, t)}}
    \cup {<<"held", v, 0>> : v \in {v \in Vcpu : Holds(v, t)}}

(* A task is scheduled once: it has one entry in all the queues, working   *)
(* slots and hands of vcpus together, so no wakeup runs it twice and the   *)
(* queue (capacity 512) can only fill up with 512 tasks.                   *)
ScheduledOnce == \A t \in Task : \A e, f \in Entries(t) : e = f

(* Wait() returns to its caller only after somebody scheduled the task:    *)
(* UCall and Call read their result right after Wait() without a loop.     *)
NoSpuriousReturn ==
    \A v \in Worker : pc[v] = "Run" => life[currentTask[v]] = "Running"

(* The stack of a task is freed, and its address used again, only when no  *)
(* queue, slot or vcpu refers to the task any more.                        *)
FreedUnreferenced ==
    \A t \in Task : life[t] = "Free" =>
        \A q \in Vcpu : /\ ~InQueue(q, t) /\ ~Slot(q, t) /\ ~Holds(q, t)
                        /\ currentTask[q] # t

Parked(v) == pc[v] = "EpollWait" /\ ~eventfd[v]

(* Nobody sleeps on work.  A vcpu whose queue or slot has a task has its   *)
(* eventfd written, or the ScheduleQ that put the task there is about to   *)
(* write it: only the owner runs what its slot holds.  And when every      *)
(* worker sleeps and no wakeup is on its way, nothing is queued anywhere,  *)
(* queue 0 included, which has no worker of its own.                       *)
NoLostWakeup ==
    /\ \A v \in Worker :
          (Parked(v) /\ (queue[v] # <<>> \/ workingTaskReady[v])) =>
              \E a \in Vcpu :
                  pc[a] \in {"IncReady", "ReadState"} /\ vcpuId[a] = v
    /\ ((\A v \in Worker : Parked(v)) /\ pc[0] = "IO") =>
          \A q \in Vcpu : queue[q] = <<>> /\ ~workingTaskReady[q]

(* A task woken with affinity is the next its vcpu runs, and a vcpu with   *)
(* tasks in its queue gets to run a task (or loses the queue to thieves):  *)
(* it neither sleeps nor searches for ever.                                *)
OwnerRuns ==
    \A v \in Worker :
        /\ \A t \in Task : Slot(v, t) ~> (pc[v] = "Run" /\ currentTask[v] = t)
        /\ (queue[v] # <<>>) ~> (pc[v] = "Run" \/ queue[v] = <<>>)

(* When a task is queued anywhere, some vcpu gets to run a task. *)
SomeTaskRuns ==
    (\E q \in Vcpu : queue[q] # <<>>) ~> (\E v \in Worker : pc[v] = "Run")

=============================================================================
