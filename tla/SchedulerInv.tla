---------------------------- MODULE SchedulerInv -----------------------------
(***************************************************************************)
(* The inductive invariant of Scheduler.  LocalInv: the types, and what    *)
(* each vcpu's own variables say of each other at each program counter.    *)
(* OwnInv: who owns a task; it relates the queues, the working slots, what *)
(* the vcpus hold and run, queueId and the ready flags.                    *)
(***************************************************************************)
EXTENDS SchedulerState

(* The program counters inside ScheduleQ and inside GetNext, those at which *)
(* next holds or may hold a task, and the callers of ScheduleQ.             *)
InScheduleQ == {"Enqueue", "IncReady", "ReadState", "WakeOne", "WakeIdle"}
InGetNext == {"Next", "DecNext", "LoadReady", "Steal", "DecSteal", "Swap",
              "SetQueueId"}
Holding == {"DecNext", "DecSteal", "Swap", "SetQueueId", "ToRunning", "Switch"}
MayHold == {"MaskClear", "ToSearch", "Inputs"}
Callers == {"Run", "Wait", "Search", "Next", "Inputs", "IO", "ToRunning",
            "MaskClear", "ToSearch"}

(* Where GetNext returns to, with a task and without. *)
SomePcs == {"ToRunning", "MaskClear", "ToSearch"}
NonePcs == {"Search", "VcpuWait", "Input1", "Input2", "EpollWait"}

(* The place of a vcpu when a pending ScheduleQ is looked through. *)
At(v) == IF pc[v] \in InScheduleQ THEN ret[v] ELSE pc[v]

(* What each vcpu's own variables say of each other. *)
Local(v) ==
    /\ pc[v] \in InScheduleQ => ret[v] \in Callers
    /\ (At(v) = "IO") <=> (v = 0)
    /\ (task[v] # NoTask) <=> (pc[v] = "Enqueue")
    /\ retNext[v] # NoRet <=> At(v) \in InGetNext \cup {"Boot"}
    /\ At(v) \in Holding => next[v] # NoTask
    /\ next[v] # NoTask => At(v) \in Holding \cup MayHold
    /\ At(v) \in {"Run", "Wait", "Search", "SwitchToWait"} =>
           currentTask[v] # NoTask
    /\ retNext[v] = "Wait" => currentTask[v] # NoTask
    /\ At(v) = "Free" => currentTask[v] = NoTask /\ pendingFreeStack[v] # NoTask
    /\ pendingFreeStack[v] # NoTask => At(v) \in {"SwitchToWait", "Free"}
    /\ v = 0 => currentTask[v] = NoTask /\ workingTask[v] = NoTask
    /\ workingTaskReady[v] => workingTask[v] # NoTask
    /\ pc[v] = "Switch" => next[v] # currentTask[v]

LocalInv == TypeOK /\ \A v \in Vcpu : Local(v)

(* What a step of one vcpu leaves of the variables of another. *)
Same(v) == /\ pc'[v] = pc[v] /\ task'[v] = task[v] /\ ret'[v] = ret[v]
           /\ retNext'[v] = retNext[v]
           /\ next'[v] = next[v] /\ currentTask'[v] = currentTask[v]
           /\ pendingFreeStack'[v] = pendingFreeStack[v]
           /\ workingTask'[v] = workingTask[v]
           /\ workingTaskReady'[v] =>
                  workingTaskReady[v] \/ workingTask[v] # NoTask

Frame(v) == \A u \in Vcpu : u # v => Same(u)

-----------------------------------------------------------------------------
(* Pcs at which GetNext holds a stolen task. *)
Stolen == {"DecSteal", "Swap"}

(* No task is twice in the sequence. *)
Distinct(s) == \A i, j \in 1 .. Len(s) : s[i] = s[j] => i = j

(* Scheduled tasks are live ones. *)
LiveEntries ==
    \A t \in Task, q \in Vcpu :
        InQueue(q, t) \/ Slot(q, t) \/ Holds(q, t) => life[t] = "Running"

(* At most one entry, pair by pair. *)
OneEntry ==
    /\ \A q \in Vcpu : Distinct(queue[q])
    /\ \A t \in Task, p, q \in Vcpu :
           /\ InQueue(p, t) => ~Slot(q, t) /\ ~Holds(q, t)
           /\ Slot(p, t) => ~Holds(q, t)
           /\ Holds(p, t) /\ Holds(q, t) => p = q
    /\ \A v \in Vcpu : next[v] = task[v] => next[v] = NoTask

(* A task is in the queue, or on its way to the queue, that queueId names, *)
(* and so is the vcpu that runs it; the working slot is the current task's.*)
QueueIds ==
    \A t \in Task, v \in Vcpu :
        /\ InQueue(v, t) => queueId[t] = v
        /\ task[v] = t => vcpuId[v] = queueId[t]
        /\ Slot(v, t) => currentTask[v] = t
        /\ currentTask[v] = t => queueId[t] = v /\ ~ready[t]
        /\ next[v] = t => IF At(v) \in Stolen \cup {"SetQueueId"}
                          THEN ready[t] ELSE queueId[t] = v

(* A task is saved or on the vcpu that queueId names. *)
SavedOrCurrent == \A t \in Task : ready[t] \/ currentTask[queueId[t]] = t

(* What workingTask stands for. *)
WorkingTasks ==
    \A t \in Task, v \in Vcpu :
        /\ (/\ workingTask[v] = t /\ queueId[t] = v
            /\ life[t] \in {"Running", "Waiting"})
               => currentTask[v] = t \/ next[v] = t
        /\ next[v] = t /\ At(v) \notin Stolen => workingTask[v] = t

(* A running task has no entry. *)
Running ==
    \A t \in Task, v \in Vcpu : At(v) = "Run" /\ currentTask[v] = t =>
        /\ life[t] = "Running"
        /\ \A q \in Vcpu : ~InQueue(q, t) /\ ~Slot(q, t) /\ ~Holds(q, t)

(* An ended task stays with its vcpu. *)
Ended ==
    \A t \in Task, v \in Vcpu :
        /\ pendingFreeStack[v] = t => life[t] = "Dead"
        /\ currentTask[v] = t /\ life[t] \notin {"Running", "Waiting"}
               => pc[v] = "SwitchToWait" /\ pendingFreeStack[v] = t
        /\ pc[v] = "SwitchToWait" /\ currentTask[v] = t =>
               \/ pendingFreeStack[v] = t
               \/ pendingFreeStack[v] = NoTask /\ workingTask[v] = NoTask

(* No two vcpus free the same stack. *)
OneFree ==
    \A u, v \in Vcpu : pendingFreeStack[u] = pendingFreeStack[v] =>
                           u = v \/ pendingFreeStack[u] = NoTask

OwnInv == /\ LiveEntries /\ OneEntry /\ QueueIds /\ SavedOrCurrent
          /\ WorkingTasks /\ Running /\ Ended /\ OneFree

Inv == LocalInv /\ OwnInv

-----------------------------------------------------------------------------
(* Facts the proofs pass around. *)
(* The types of the variables that Local speaks of. *)
LocalTypeOK ==
    /\ workingTask \in [Vcpu -> TaskOrNone]
    /\ workingTaskReady \in [Vcpu -> BOOLEAN]
    /\ pc \in [Vcpu -> PCs] /\ ret \in [Vcpu -> PCs \cup {NoRet}]
    /\ currentTask \in [Vcpu -> TaskOrNone]
    /\ pendingFreeStack \in [Vcpu -> TaskOrNone]
    /\ next \in [Vcpu -> TaskOrNone] /\ retNext \in [Vcpu -> RetNexts]
    /\ task \in [Vcpu -> TaskOrNone]

(* The types of the variables that OwnInv speaks of. *)
OwnTypeOK ==
    /\ next \in [Vcpu -> TaskOrNone] /\ task \in [Vcpu -> TaskOrNone]
    /\ currentTask \in [Vcpu -> TaskOrNone]
    /\ pendingFreeStack \in [Vcpu -> TaskOrNone]
    /\ workingTask \in [Vcpu -> TaskOrNone]
    /\ workingTaskReady \in [Vcpu -> BOOLEAN]
    /\ ready \in [Task -> BOOLEAN] /\ queueId \in [Task -> Vcpu]
    /\ life \in [Task -> LifeStates] /\ vcpuId \in [Vcpu -> Vcpu]

(* What a step of v does to the queues, to the places of the vcpus, and to  *)
(* the place of v when it leaves the tasks where they are.                  *)
QueueFrame ==
    /\ \A q \in Vcpu : Distinct(queue[q])' = Distinct(queue[q])
    /\ \A q \in Vcpu, t \in Task : InQueue(q, t)' = InQueue(q, t)

AtFrame(v) == \A u \in Vcpu : u # v => At(u)' = At(u) /\ pc'[u] = pc[u]

AtNeutral(v) ==
    /\ next[v] # NoTask =>
           /\ At(v)' \in Stolen <=> At(v) \in Stolen
           /\ At(v)' = "SetQueueId" <=> At(v) = "SetQueueId"
    /\ At(v)' = "Run" => At(v) = "Run"
    /\ pc'[v] = "SwitchToWait" <=> pc[v] = "SwitchToWait"

=============================================================================
