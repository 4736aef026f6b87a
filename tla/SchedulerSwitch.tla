--------------------------- MODULE SchedulerSwitch ---------------------------
(***************************************************************************)
(* Proofs about Scheduler: OwnInv is preserved by the effects that change  *)
(* which task runs: switching to one, leaving one, starting, blocking,     *)
(* waking, ending and freeing one.                                         *)
(***************************************************************************)
EXTENDS SchedulerInv, TLAPS

-----------------------------------------------------------------------------
(* The current task runs on. *)
LEMMA RunCurrent ==
    ASSUME OwnInv, OwnTypeOK, NEW v \in Vcpu, AtFrame(v), QueueFrame,
           next[v] \in Task, task[v] = NoTask, next[v] = currentTask[v],
           pc[v] # "SwitchToWait", pc'[v] # "SwitchToWait",
           At(v) \notin Stolen \cup {"SetQueueId"},
           At(v)' \notin Stolen \cup {"SetQueueId"},
           next' = [next EXCEPT ![v] = NoTask],
           UNCHANGED <<workingTask, workingTaskReady, ready, queueId, life,
                       currentTask, pendingFreeStack, task, vcpuId>>
    PROVE  OwnInv'
<1> USE SchedulerAssumption DEF OwnInv, OwnTypeOK, TaskOrNone, AtFrame,
        AtNeutral, QueueFrame
<1>1. LiveEntries'
  BY SMTT(60), Z3T(60) DEF LiveEntries, OneEntry, Running, Slot, Holds
<1>2. OneEntry'
  BY SMTT(60), Z3T(60) DEF OneEntry, LiveEntries, Running, Slot, Holds
<1>3. QueueIds'
  BY SMTT(60), Z3T(60) DEF QueueIds, OneEntry, LiveEntries, WorkingTasks,
     Ended, Slot, Holds
<1>4. SavedOrCurrent'
  BY Zenon DEF SavedOrCurrent, QueueIds
<1>5. WorkingTasks'
  BY SMTT(60), Z3T(60) DEF WorkingTasks, QueueIds, OneEntry, LiveEntries,
     Ended, Holds
<1>6. Running'
  BY SMTT(60), Z3T(60) DEF Running, OneEntry, LiveEntries, QueueIds, Slot,
     Holds
<1>7. Ended'
  BY SMTT(60), Z3T(60) DEF Ended, LiveEntries, QueueIds, Running, Holds
<1>8. OneFree'
  BY SMTT(60), Z3T(60) DEF OneFree, Ended, Running
<1> QED BY ONLY Zenon, <1>1, <1>2, <1>3, <1>4, <1>5, <1>6, <1>7, <1>8
           DEF OwnInv

(* context_swap to the task found. *)
LEMMA SwitchTask ==
    ASSUME OwnInv, OwnTypeOK, NEW v \in Vcpu, AtFrame(v), QueueFrame,
           next[v] \in Task, task[v] = NoTask, pc[v] # "SwitchToWait",
           pc'[v] # "SwitchToWait", At(v) \notin Stolen \cup {"SetQueueId"},
           At(v)' \notin Stolen \cup {"SetQueueId"},
           ready' = [Saved(v) EXCEPT ![next[v]] = FALSE],
           currentTask' = [currentTask EXCEPT ![v] = next[v]],
           next' = [next EXCEPT ![v] = NoTask],
           UNCHANGED <<workingTask, workingTaskReady, queueId, life,
                       pendingFreeStack, task, vcpuId>>
    PROVE  OwnInv'
<1> USE SchedulerAssumption DEF OwnInv, OwnTypeOK, TaskOrNone, AtFrame,
        AtNeutral, QueueFrame
<1>1. LiveEntries'
  BY SMTT(60), Z3T(60) DEF LiveEntries, OneEntry, Running, Slot, Holds
<1>2. OneEntry'
  BY SMTT(60), Z3T(60) DEF OneEntry, LiveEntries, Running, Slot, Holds
<1>3. QueueIds'
  BY SMTT(60), Z3T(60) DEF QueueIds, OneEntry, LiveEntries, WorkingTasks,
     Ended, Slot, Holds,
     Saved
<1>4. SavedOrCurrent'
  BY SMTT(60), Z3T(60) DEF SavedOrCurrent, QueueIds, Saved
<1>5. WorkingTasks'
  BY SMTT(60), Z3T(60) DEF WorkingTasks, QueueIds, OneEntry, LiveEntries,
     Ended, Holds
<1>6. Running'
  BY SMTT(60), Z3T(60) DEF Running, OneEntry, LiveEntries, QueueIds, Slot,
     Holds
<1>7. Ended'
  BY SMTT(60), Z3T(60) DEF Ended, LiveEntries, QueueIds, Running, Holds
<1>8. OneFree'
  BY SMTT(60), Z3T(60) DEF OneFree, Ended, Running
<1> QED BY ONLY Zenon, <1>1, <1>2, <1>3, <1>4, <1>5, <1>6, <1>7, <1>8
           DEF OwnInv

(* context_swap to the wait task. *)
LEMMA SwitchWait ==
    ASSUME OwnInv, OwnTypeOK, NEW v \in Vcpu, AtFrame(v), QueueFrame,
           next[v] = NoTask, task[v] = NoTask, currentTask[v] \in Task,
           pc[v] = "SwitchToWait", pc'[v] # "SwitchToWait", At(v)' # "Run",
           ready' = Saved(v),
           currentTask' = [currentTask EXCEPT ![v] = NoTask],
           UNCHANGED <<workingTask, workingTaskReady, queueId, life,
                       pendingFreeStack, next, task, vcpuId>>
    PROVE  OwnInv'
<1> USE SchedulerAssumption DEF OwnInv, OwnTypeOK, TaskOrNone, AtFrame,
        AtNeutral, QueueFrame
<1>1. LiveEntries'
  BY SMTT(60), Z3T(60) DEF LiveEntries, OneEntry, Running, Slot, Holds
<1>2. OneEntry'
  BY SMTT(60), Z3T(60) DEF OneEntry, LiveEntries, Running, Slot, Holds
<1>3. QueueIds'
  BY SMTT(60), Z3T(60) DEF QueueIds, OneEntry, LiveEntries, WorkingTasks,
     Ended, Slot, Holds,
     Saved
<1>4. SavedOrCurrent'
  BY SMTT(60), Z3T(60) DEF SavedOrCurrent, QueueIds, Saved
<1>5. WorkingTasks'
  BY SMTT(60), Z3T(60) DEF WorkingTasks, QueueIds, OneEntry, LiveEntries,
     Ended, Holds
<1>6. Running'
  BY SMTT(60), Z3T(60) DEF Running, OneEntry, LiveEntries, QueueIds, Slot,
     Holds
<1>7. Ended'
  BY SMTT(60), Z3T(60) DEF Ended, LiveEntries, QueueIds, Running, Holds
<1>8. OneFree'
  BY SMTT(60), Z3T(60) DEF OneFree, Ended, Running
<1> QED BY ONLY Zenon, <1>1, <1>2, <1>3, <1>4, <1>5, <1>6, <1>7, <1>8
           DEF OwnInv

(* ResetWorkingTask with an empty slot. *)
LEMMA ResetSlot ==
    ASSUME OwnInv, OwnTypeOK, NEW v \in Vcpu, AtFrame(v), QueueFrame,
           ~workingTaskReady[v], next[v] = NoTask, task[v] = NoTask,
           pendingFreeStack[v] = NoTask, At(v)' # "Run",
           workingTask' = [workingTask EXCEPT ![v] = NoTask],
           UNCHANGED <<workingTaskReady, ready, queueId, life, currentTask,
                       pendingFreeStack, next, task, vcpuId>>
    PROVE  OwnInv'
<1> USE SchedulerAssumption DEF OwnInv, OwnTypeOK, TaskOrNone, AtFrame,
        AtNeutral, QueueFrame
<1>1. LiveEntries'
  BY SMTT(60), Z3T(60) DEF LiveEntries, OneEntry, Running, Slot, Holds
<1>2. OneEntry'
  BY SMTT(60), Z3T(60) DEF OneEntry, LiveEntries, Running, Slot, Holds
<1>3. QueueIds'
  BY SMTT(60), Z3T(60) DEF QueueIds, OneEntry, LiveEntries, WorkingTasks,
     Ended, Slot, Holds
<1>4. SavedOrCurrent'
  BY Zenon DEF SavedOrCurrent, QueueIds
<1>5. WorkingTasks'
  BY SMTT(60), Z3T(60) DEF WorkingTasks, QueueIds, OneEntry, LiveEntries,
     Ended, Holds
<1>6. Running'
  BY SMTT(60), Z3T(60) DEF Running, OneEntry, LiveEntries, QueueIds, Slot,
     Holds
<1>7. Ended'
  BY SMTT(60), Z3T(60) DEF Ended, LiveEntries, QueueIds, Running, Holds
<1>8. OneFree'
  BY SMTT(60), Z3T(60) DEF OneFree, Ended, Running
<1> QED BY ONLY Zenon, <1>1, <1>2, <1>3, <1>4, <1>5, <1>6, <1>7, <1>8
           DEF OwnInv

(* A waker takes the task from Waiting to Running and schedules it. *)
LEMMA WokenTask ==
    ASSUME OwnInv, OwnTypeOK, NEW v \in Vcpu, AtFrame(v), QueueFrame,
           AtNeutral(v), NEW x \in Task, life[x] = "Waiting",
           task[v] = NoTask, life' = [life EXCEPT ![x] = "Running"],
           task' = [task EXCEPT ![v] = x],
           vcpuId' = [vcpuId EXCEPT ![v] = queueId[x]],
           UNCHANGED <<workingTask, workingTaskReady, ready, queueId,
                       currentTask, pendingFreeStack, next>>
    PROVE  OwnInv'
<1> USE SchedulerAssumption DEF OwnInv, OwnTypeOK, TaskOrNone, AtFrame,
        AtNeutral, QueueFrame
<1>a. \A q \in Vcpu : /\ ~InQueue(q, x) /\ ~Slot(q, x) /\ ~Holds(q, x)
                     /\ pendingFreeStack[q] # x
  BY SMTT(60), Z3T(60) DEF LiveEntries, Ended
<1>1. LiveEntries'
  BY Zenon, <1>a DEF LiveEntries, Slot, Holds
<1>2. OneEntry'
  BY SMTT(60), Z3T(60), <1>a DEF OneEntry, Slot, Holds
<1>3. QueueIds'
  BY SMTT(60), Z3T(60), <1>a DEF QueueIds, Slot
<1>4. SavedOrCurrent'
  BY Zenon, <1>a DEF SavedOrCurrent
<1>5. WorkingTasks'
  BY SMTT(60), Z3T(60), <1>a DEF WorkingTasks
<1>6. Running'
  BY SMTT(60), Z3T(60), <1>a DEF Running, Slot, Holds
<1>7. Ended'
  BY SMTT(60), Z3T(60), <1>a DEF Ended
<1>8. OneFree'
  BY SMTT(60), Z3T(60), <1>a DEF OneFree, Ended
<1> QED BY ONLY Zenon, <1>1, <1>2, <1>3, <1>4, <1>5, <1>6, <1>7, <1>8
           DEF OwnInv

(* A new task, scheduled in queue 0. *)
LEMMA NewTask ==
    ASSUME OwnInv, OwnTypeOK, NEW v \in Vcpu, AtFrame(v), QueueFrame,
           AtNeutral(v), NEW x \in Task, life[x] = "Free", task[v] = NoTask,
           0 \in Vcpu, workingTask[0] = NoTask,
           life' = [life EXCEPT ![x] = "Running"],
           ready' = [ready EXCEPT ![x] = TRUE],
           queueId' = [queueId EXCEPT ![x] = 0],
           task' = [task EXCEPT ![v] = x], vcpuId' = [vcpuId EXCEPT ![v] = 0],
           UNCHANGED <<workingTask, workingTaskReady, currentTask,
                       pendingFreeStack, next>>
    PROVE  OwnInv'
<1> USE SchedulerAssumption DEF OwnInv, OwnTypeOK, TaskOrNone, AtFrame,
        AtNeutral, QueueFrame
<1>a. \A q \in Vcpu : /\ ~InQueue(q, x) /\ ~Slot(q, x) /\ ~Holds(q, x)
                     /\ pendingFreeStack[q] # x /\ currentTask[q] # x
  BY SMTT(60), Z3T(60) DEF LiveEntries, Ended
<1>1. LiveEntries'
  BY Zenon, <1>a DEF LiveEntries, Slot, Holds
<1>2. OneEntry'
  BY SMTT(60), Z3T(60), <1>a DEF OneEntry, Slot, Holds
<1>3. QueueIds'
  BY SMTT(60), Z3T(60), <1>a DEF QueueIds, Slot, Holds
<1>4. SavedOrCurrent'
  BY Zenon, <1>a DEF SavedOrCurrent
<1>5. WorkingTasks'
  BY SMTT(60), Z3T(60), <1>a DEF WorkingTasks
<1>6. Running'
  BY SMTT(60), Z3T(60), <1>a DEF Running, Slot, Holds
<1>7. Ended'
  BY SMTT(60), Z3T(60), <1>a DEF Ended
<1>8. OneFree'
  BY SMTT(60), Z3T(60), <1>a DEF OneFree, Ended
<1> QED BY ONLY Zenon, <1>1, <1>2, <1>3, <1>4, <1>5, <1>6, <1>7, <1>8
           DEF OwnInv

(* The running task blocks. *)
LEMMA BlockTask ==
    ASSUME OwnInv, OwnTypeOK, NEW v \in Vcpu, AtFrame(v), QueueFrame,
           currentTask[v] \in Task, next[v] = NoTask, task[v] = NoTask,
           At(v) = "Run", pc[v] # "SwitchToWait", pc'[v] # "SwitchToWait",
           At(v)' # "Run", life' = [life EXCEPT ![currentTask[v]] = "Waiting"],
           UNCHANGED <<workingTask, workingTaskReady, ready, queueId,
                       currentTask, pendingFreeStack, next, task, vcpuId>>
    PROVE  OwnInv'
<1> USE SchedulerAssumption DEF OwnInv, OwnTypeOK, TaskOrNone, AtFrame,
        AtNeutral, QueueFrame
<1>a. /\ life[currentTask[v]] = "Running" /\ queueId[currentTask[v]] = v
      /\ \A q \in Vcpu : /\ ~InQueue(q, currentTask[v])
                        /\ ~Slot(q, currentTask[v]) /\ ~Holds(q, currentTask[v])
      /\ \A u \in Vcpu : currentTask[u] = currentTask[v] => u = v
  BY SMTT(60), Z3T(60) DEF Running, QueueIds
<1>1. LiveEntries'
  BY SMTT(60), Z3T(60), <1>a DEF LiveEntries, Slot, Holds
<1>2. OneEntry'
  BY SMTT(60), Z3T(60), <1>a DEF OneEntry, Slot, Holds
<1>3. QueueIds'
  BY SMTT(60), Z3T(60), <1>a DEF QueueIds, Slot
<1>4. SavedOrCurrent'
  BY Zenon, <1>a DEF SavedOrCurrent
<1>5. WorkingTasks'
  BY SMTT(60), Z3T(60), <1>a DEF WorkingTasks
<1>6. Running'
  BY SMTT(60), Z3T(60), <1>a DEF Running, Slot, Holds
<1>7. Ended'
  BY SMTT(60), Z3T(60), <1>a DEF Ended
<1>8. OneFree'
  BY SMTT(60), Z3T(60), <1>a DEF OneFree, Ended
<1> QED BY ONLY Zenon, <1>1, <1>2, <1>3, <1>4, <1>5, <1>6, <1>7, <1>8
           DEF OwnInv

(* The running task yields. *)
LEMMA YieldTask ==
    ASSUME OwnInv, OwnTypeOK, NEW v \in Vcpu, AtFrame(v), QueueFrame,
           currentTask[v] \in Task, next[v] = NoTask, task[v] = NoTask,
           At(v) = "Run", pc[v] # "SwitchToWait", pc'[v] # "SwitchToWait",
           At(v)' # "Run", task' = [task EXCEPT ![v] = currentTask[v]],
           vcpuId' = [vcpuId EXCEPT ![v] = queueId[currentTask[v]]],
           UNCHANGED <<workingTask, workingTaskReady, ready, queueId, life,
                       currentTask, pendingFreeStack, next>>
    PROVE  OwnInv'
<1> USE SchedulerAssumption DEF OwnInv, OwnTypeOK, TaskOrNone, AtFrame,
        AtNeutral, QueueFrame
<1>a. /\ life[currentTask[v]] = "Running" /\ queueId[currentTask[v]] = v
      /\ \A q \in Vcpu : /\ ~InQueue(q, currentTask[v])
                        /\ ~Slot(q, currentTask[v]) /\ ~Holds(q, currentTask[v])
      /\ \A u \in Vcpu : currentTask[u] = currentTask[v] => u = v
  BY SMTT(60), Z3T(60) DEF Running, QueueIds
<1>1. LiveEntries'
  BY SMTT(60), Z3T(60), <1>a DEF LiveEntries, Slot, Holds
<1>2. OneEntry'
  BY SMTT(60), Z3T(60), <1>a DEF OneEntry, Slot, Holds
<1>3. QueueIds'
  BY SMTT(60), Z3T(60), <1>a DEF QueueIds, Slot
<1>4. SavedOrCurrent'
  BY Zenon, <1>a DEF SavedOrCurrent
<1>5. WorkingTasks'
  BY SMTT(60), Z3T(60), <1>a DEF WorkingTasks
<1>6. Running'
  BY SMTT(60), Z3T(60), <1>a DEF Running, Slot, Holds
<1>7. Ended'
  BY SMTT(60), Z3T(60), <1>a DEF Ended
<1>8. OneFree'
  BY SMTT(60), Z3T(60), <1>a DEF OneFree, Ended
<1> QED BY ONLY Zenon, <1>1, <1>2, <1>3, <1>4, <1>5, <1>6, <1>7, <1>8
           DEF OwnInv

(* The running task ends. *)
LEMMA ExitTask ==
    ASSUME OwnInv, OwnTypeOK, NEW v \in Vcpu, AtFrame(v), QueueFrame,
           currentTask[v] \in Task, next[v] = NoTask, task[v] = NoTask,
           At(v) = "Run", pc'[v] = "SwitchToWait", At(v)' # "Run",
           life' = [life EXCEPT ![currentTask[v]] = "Dead"],
           pendingFreeStack' = [pendingFreeStack EXCEPT ![v] = currentTask[v]],
           UNCHANGED <<workingTask, workingTaskReady, ready, queueId,
                       currentTask, next, task, vcpuId>>
    PROVE  OwnInv'
<1> USE SchedulerAssumption DEF OwnInv, OwnTypeOK, TaskOrNone, AtFrame,
        AtNeutral, QueueFrame
<1>a. /\ life[currentTask[v]] = "Running" /\ queueId[currentTask[v]] = v
      /\ \A q \in Vcpu : /\ ~InQueue(q, currentTask[v])
                        /\ ~Slot(q, currentTask[v]) /\ ~Holds(q, currentTask[v])
      /\ \A u \in Vcpu : currentTask[u] = currentTask[v] => u = v
  BY SMTT(60), Z3T(60) DEF Running, QueueIds
<1>1. LiveEntries'
  BY SMTT(60), Z3T(60), <1>a DEF LiveEntries, Slot, Holds
<1>2. OneEntry'
  BY SMTT(60), Z3T(60), <1>a DEF OneEntry, Slot, Holds
<1>3. QueueIds'
  BY SMTT(60), Z3T(60), <1>a DEF QueueIds, Slot
<1>4. SavedOrCurrent'
  BY Zenon, <1>a DEF SavedOrCurrent
<1>5. WorkingTasks'
  BY SMTT(60), Z3T(60), <1>a DEF WorkingTasks
<1>6. Running'
  BY SMTT(60), Z3T(60), <1>a DEF Running, Slot, Holds
<1>7. Ended'
  BY SMTT(60), Z3T(60), <1>a DEF Ended
<1>8. OneFree'
  BY SMTT(60), Z3T(60), <1>a DEF OneFree, Ended
<1> QED BY ONLY Zenon, <1>1, <1>2, <1>3, <1>4, <1>5, <1>6, <1>7, <1>8
           DEF OwnInv

(* The stack of the ended task is freed. *)
LEMMA FreeTask ==
    ASSUME OwnInv, OwnTypeOK, NEW v \in Vcpu, AtFrame(v), QueueFrame,
           pendingFreeStack[v] \in Task, currentTask[v] = NoTask,
           next[v] = NoTask, task[v] = NoTask, 0 \in Vcpu,
           workingTask[0] = NoTask, pc[v] # "SwitchToWait",
           pc'[v] # "SwitchToWait", At(v)' # "Run",
           life' = [life EXCEPT ![pendingFreeStack[v]] = "Free"],
           queueId' = [queueId EXCEPT ![pendingFreeStack[v]] = 0],
           pendingFreeStack' = [pendingFreeStack EXCEPT ![v] = NoTask],
           UNCHANGED <<workingTask, workingTaskReady, ready, currentTask,
                       next, task, vcpuId>>
    PROVE  OwnInv'
<1> USE SchedulerAssumption DEF OwnInv, OwnTypeOK, TaskOrNone, AtFrame,
        AtNeutral, QueueFrame
<1>a. /\ life[pendingFreeStack[v]] = "Dead"
      /\ \A q \in Vcpu : /\ ~InQueue(q, pendingFreeStack[v])
                        /\ ~Slot(q, pendingFreeStack[v])
                        /\ ~Holds(q, pendingFreeStack[v])
                        /\ currentTask[q] # pendingFreeStack[v]
  BY SMTT(60), Z3T(60) DEF Ended, OneFree, LiveEntries
<1>1. LiveEntries'
  BY SMTT(60), Z3T(60), <1>a DEF LiveEntries, Slot, Holds
<1>2. OneEntry'
  BY SMTT(60), Z3T(60), <1>a DEF OneEntry, Slot, Holds
<1>3. QueueIds'
  BY SMTT(60), Z3T(60), <1>a DEF QueueIds, Slot, Holds
<1>4. SavedOrCurrent'
  BY SMTT(60), Z3T(60), <1>a DEF SavedOrCurrent
<1>5. WorkingTasks'
  BY SMTT(60), Z3T(60), <1>a DEF WorkingTasks
<1>6. Running'
  BY SMTT(60), Z3T(60), <1>a DEF Running, Slot, Holds
<1>7. Ended'
  BY SMTT(60), Z3T(60), <1>a DEF Ended, OneFree
<1>8. OneFree'
  BY SMTT(60), Z3T(60), <1>a DEF OneFree, Ended
<1> QED BY ONLY Zenon, <1>1, <1>2, <1>3, <1>4, <1>5, <1>6, <1>7, <1>8
           DEF OwnInv

=============================================================================
