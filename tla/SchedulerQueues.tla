--------------------------- MODULE SchedulerQueues ---------------------------
(***************************************************************************)
(* Proofs about Scheduler: the queues, the slots and the wakeups.  First,  *)
(* who owns a task: each lemma says that one kind of effect on the queues  *)
(* and on what the vcpus hold preserves OwnInv, whichever action has it.   *)
(* Then, that no wakeup is lost: WakeInv says what the eventfds, the ready *)
(* count and the callers of ScheduleQ promise to a worker that has looked  *)
(* for tasks in vain; it is inductive relative to Inv, and NoLostWakeup    *)
(* follows from both.                                                      *)
(***************************************************************************)
EXTENDS Scheduler, SchedulerInv, FiniteSetTheorems, TLAPS

-----------------------------------------------------------------------------
(* Sequences. *)
In(s, x) == \E i \in 1 .. Len(s) : s[i] = x

LEMMA AppendIn ==
    ASSUME NEW T, NEW s \in Seq(T), NEW y \in T
    PROVE  /\ \A x : In(Append(s, y), x) <=> In(s, x) \/ x = y
           /\ Distinct(s) /\ ~In(s, y) => Distinct(Append(s, y))
  BY SMTT(60), Z3T(60) DEF In, Distinct

LEMMA TailIn ==
    ASSUME NEW T, NEW s \in Seq(T), s # <<>>, Distinct(s)
    PROVE  /\ \A x : In(Tail(s), x) <=> In(s, x) /\ x # Head(s)
           /\ In(s, Head(s)) /\ Distinct(Tail(s))
<1>1. /\ Len(Tail(s)) = Len(s) - 1 /\ Len(s) \in Nat /\ Len(s) > 0
      /\ \A i \in 1 .. Len(s) - 1 : Tail(s)[i] = s[i + 1]
      /\ Head(s) = s[1]
  BY SMTT(60), Z3T(60)
<1> QED
  <2> DEFINE r == Tail(s)
             n == Len(s)
             h == Head(s)
  <2>1. /\ Len(r) = n - 1 /\ n \in Nat /\ n > 0 /\ n = Len(s)
        /\ \A i \in 1 .. n - 1 : r[i] = s[i + 1]
        /\ h = s[1]
    BY Zenon, <1>1
  <2> HIDE DEF r, n, h
  <2>2. \A x : In(r, x) <=> In(s, x) /\ x # h
    <3>1. ASSUME NEW x, In(r, x) PROVE In(s, x) /\ x # h
      BY ONLY SMTT(60), Z3T(60), <3>1, <2>1, Distinct(s) DEF In, Distinct
    <3>2. ASSUME NEW x, In(s, x), x # h PROVE In(r, x)
      <4>1. PICK i \in 1 .. n : s[i] = x
        BY ONLY Zenon, <3>2, <2>1 DEF In
      <4>2. i - 1 \in 1 .. n - 1 /\ r[i - 1] = x
        BY ONLY SMTT(60), Z3T(60), <4>1, <2>1, <3>2
      <4> QED BY ONLY Zenon, <4>2, <2>1 DEF In
    <3> QED BY Zenon, <3>1, <3>2
  <2>3. In(s, h) /\ Distinct(r)
    BY ONLY SMTT(60), Z3T(60), <2>1, Distinct(s) DEF In, Distinct
  <2> QED BY Zenon, <2>2, <2>3 DEF r, n, h

Rotate(s, i) == SubSeq(s, i + 1, Len(s)) \o SubSeq(s, 1, i - 1)

LEMMA RotateIn ==
    ASSUME NEW T, NEW s \in Seq(T), NEW i \in 1 .. Len(s), Distinct(s)
    PROVE  /\ \A x : In(Rotate(s, i), x) <=> In(s, x) /\ x # s[i]
           /\ Distinct(Rotate(s, i))
<1> DEFINE n == Len(s)
           a == SubSeq(s, i + 1, n)
           b == SubSeq(s, 1, i - 1)
           r == a \o b
<1>1. /\ Len(r) = n - 1 /\ n \in Nat /\ n = Len(s) /\ i \in 1 .. n
      /\ \A k \in 1 .. n - i : r[k] = s[k + i]
      /\ \A k \in 1 .. i - 1 : r[k + (n - i)] = s[k]
  <2>0. n \in Nat /\ i \in 1 .. n /\ n = Len(s) /\ i \in Int
    BY SMTT(60), Z3T(60)
  <2>1. a \in Seq(T) /\ Len(a) = n - i /\ \A k \in 1 .. n - i : a[k] = s[k + i]
    BY SMTT(60), Z3T(60)
  <2>2. b \in Seq(T) /\ Len(b) = i - 1 /\ \A k \in 1 .. i - 1 : b[k] = s[k]
    BY SMTT(60), Z3T(60)
  <2> HIDE DEF a, b, n
  <2>3. /\ Len(r) = Len(a) + Len(b)
        /\ \A k \in 1 .. Len(a) + Len(b) :
               r[k] = IF k <= Len(a) THEN a[k] ELSE b[k - Len(a)]
    BY SMTT(60), Z3T(60), <2>1, <2>2
  <2> HIDE DEF r
  <2>4. \A k \in 1 .. n - i : r[k] = s[k + i]
    BY ONLY SMTT(60), Z3T(60), <2>0, <2>1, <2>2, <2>3
  <2>5. \A k \in 1 .. i - 1 : r[k + (n - i)] = s[k]
    <3> TAKE k \in 1 .. i - 1
    <3>1. k + (n - i) \in 1 .. n - 1 /\ ~(k + (n - i) <= n - i)
          /\ (k + (n - i)) - (n - i) = k
      BY ONLY SMTT(60), Z3T(60), <2>0, k \in 1 .. i - 1
    <3>2. Len(a) + Len(b) = n - 1
      BY ONLY SMTT(60), Z3T(60), <2>0, <2>1, <2>2
    <3> QED BY ONLY Zenon, <3>1, <3>2, <2>0, <2>1, <2>2, <2>3, k \in 1 .. i - 1
  <2> QED BY ONLY SMTT(60), Z3T(60), <2>0, <2>1, <2>2, <2>3, <2>4, <2>5
<1>2. r = Rotate(s, i)
  BY Zenon DEF Rotate
<1> HIDE DEF r, n, a, b
(* The index in s of the k-th element of r. *)
<1> DEFINE f(k) == IF k <= n - i THEN k + i ELSE k - (n - i)
<1>3. ASSUME NEW k \in 1 .. n - 1
      PROVE  f(k) \in 1 .. n /\ f(k) # i /\ r[k] = s[f(k)]
  <2>1. CASE k <= n - i
    BY ONLY SMTT(60), Z3T(60), <2>1, <1>1, <1>3
  <2>2. CASE ~(k <= n - i)
    <3>1. k - (n - i) \in 1 .. i - 1 /\ (k - (n - i)) + (n - i) = k
      BY ONLY SMTT(60), Z3T(60), <1>1, <1>3, <2>2
    <3>2. r[k] = s[k - (n - i)]
      BY ONLY Zenon, <3>1, <1>1
    <3>3. k - (n - i) \in 1 .. n /\ k - (n - i) # i
      BY ONLY <3>1, <1>1
    <3> QED BY ONLY Zenon, <3>2, <3>3, <2>2
  <2> QED BY Zenon, <2>1, <2>2
<1>4. ASSUME NEW x, In(r, x) PROVE In(s, x) /\ x # s[i]
  <2>1. PICK k \in 1 .. n - 1 : r[k] = x
    BY ONLY Zenon, <1>4, <1>1 DEF In
  <2> HIDE DEF f
  <2> QED BY ONLY SMTT(60), Z3T(60), <2>1, <1>1, <1>3, Distinct(s) DEF In,
             Distinct
<1>5. ASSUME NEW x, In(s, x), x # s[i] PROVE In(r, x)
  <2>1. PICK j \in 1 .. n : s[j] = x
    BY ONLY Zenon, <1>5, <1>1 DEF In
  <2>2. CASE j > i
    <3>1. j - i \in 1 .. n - i /\ (j - i) + i = j /\ j - i \in 1 .. Len(r)
      BY ONLY SMTT(60), Z3T(60), <2>1, <2>2, <1>1
    <3> QED BY ONLY Zenon, <3>1, <2>1, <1>1 DEF In
  <2>3. CASE j < i
    <3>1. j \in 1 .. i - 1 /\ j + (n - i) \in 1 .. Len(r)
      BY ONLY SMTT(60), Z3T(60), <2>1, <2>3, <1>1
    <3> QED BY ONLY Zenon, <3>1, <2>1, <1>1 DEF In
  <2> QED BY ONLY SMTT(60), Z3T(60), <2>1, <2>2, <2>3, <1>1, <1>5
<1>6. Distinct(r)
  <2> SUFFICES ASSUME NEW k \in 1 .. n - 1, NEW l \in 1 .. n - 1, r[k] = r[l]
               PROVE  k = l
    BY Zenon, <1>1 DEF Distinct
  <2>1. f(k) = f(l)
    <3> HIDE DEF f
    <3> QED BY ONLY SMTT(60), Z3T(60), <1>1, <1>3, r[k] = r[l], Distinct(s),
               k \in 1 .. n - 1,
          l \in 1 .. n - 1 DEF Distinct
  <2> QED BY ONLY SMTT(60), Z3T(60), <2>1, <1>1, k \in 1 .. n - 1,
             l \in 1 .. n - 1
<1> QED BY Zenon, <1>2, <1>4, <1>5, <1>6

-----------------------------------------------------------------------------
LEMMA OwnTypes == LocalInv => OwnTypeOK
  BY Zenon DEF LocalInv, TypeOK, OwnTypeOK

LEMMA SameQueue == UNCHANGED queue => QueueFrame
  BY Zenon DEF QueueFrame, InQueue, Distinct

(* A step that only moves v along. *)
LEMMA NeutralStep ==
    ASSUME OwnInv, OwnTypeOK, NEW v \in Vcpu, AtFrame(v), AtNeutral(v),
           task[v] = NoTask, QueueFrame,
           \A u \in Vcpu : u # v => vcpuId'[u] = vcpuId[u],
           UNCHANGED <<workingTask, workingTaskReady, ready, queueId, life,
                       currentTask, pendingFreeStack, next, task>>
    PROVE  OwnInv'
<1> USE SchedulerAssumption DEF OwnInv, OwnTypeOK, TaskOrNone, AtFrame,
        AtNeutral, QueueFrame
<1>1. LiveEntries'
  BY Zenon DEF LiveEntries, Slot, Holds
<1>2. OneEntry'
  BY SMTT(60), Z3T(60) DEF OneEntry, Slot, Holds
<1>3. QueueIds'
  BY SMTT(60), Z3T(60) DEF QueueIds, Slot
<1>4. SavedOrCurrent'
  BY Zenon DEF SavedOrCurrent
<1>5. WorkingTasks'
  BY SMTT(60), Z3T(60) DEF WorkingTasks
<1>6. Running'
  BY SMTT(60), Z3T(60) DEF Running, Slot, Holds
<1>7. Ended'
  BY SMTT(60), Z3T(60) DEF Ended
<1>8. OneFree'
  BY Zenon DEF OneFree
<1> QED BY ONLY Zenon, <1>1, <1>2, <1>3, <1>4, <1>5, <1>6, <1>7, <1>8
           DEF OwnInv

(* Enqueue in the working slot: the task is the current one of that vcpu. *)
LEMMA EnqueueSlot ==
    ASSUME OwnInv, OwnTypeOK, NEW v \in Vcpu, AtFrame(v), QueueFrame,
           AtNeutral(v), task[v] \in Task, workingTask[vcpuId[v]] = task[v],
           workingTaskReady' = [workingTaskReady EXCEPT ![vcpuId[v]] = TRUE],
           task' = [task EXCEPT ![v] = NoTask],
           UNCHANGED <<workingTask, ready, queueId, life, currentTask,
                       pendingFreeStack, next, vcpuId>>
    PROVE  OwnInv'
<1> USE SchedulerAssumption DEF OwnInv, OwnTypeOK, TaskOrNone, AtFrame,
        AtNeutral, QueueFrame
<1>a. currentTask[vcpuId[v]] = task[v] /\ queueId[task[v]] = vcpuId[v]
  BY SMTT(60), Z3T(60) DEF QueueIds, WorkingTasks, OneEntry, LiveEntries, Holds
<1>1. LiveEntries'
  BY SMTT(60), Z3T(60), <1>a DEF LiveEntries, Slot, Holds
<1>2. OneEntry'
  BY SMTT(60), Z3T(60), <1>a DEF OneEntry, Slot, Holds
<1>3. QueueIds'
  BY SMTT(60), Z3T(60), <1>a DEF QueueIds, Slot
<1>4. SavedOrCurrent'
  BY Zenon, <1>a DEF SavedOrCurrent
<1>5. WorkingTasks'
  BY SMTT(60), Z3T(60), <1>a DEF WorkingTasks
<1>6. Running'
  BY SMTT(60), Z3T(60), <1>a DEF Running, Slot, Holds
<1>7. Ended'
  BY SMTT(60), Z3T(60), <1>a DEF Ended
<1>8. OneFree'
  BY Zenon, <1>a DEF OneFree
<1> QED BY ONLY Zenon, <1>1, <1>2, <1>3, <1>4, <1>5, <1>6, <1>7, <1>8
           DEF OwnInv

(* Enqueue at the end of the queue that queueId names. *)
LEMMA EnqueueQueue ==
    ASSUME OwnInv, OwnTypeOK, NEW v \in Vcpu, AtFrame(v), AtNeutral(v),
           task[v] \in Task, \A q \in Vcpu : Distinct(queue[q])',
           \A q \in Vcpu, t \in Task : 
               InQueue(q, t)' <=>
                   InQueue(q, t) \/ (q = vcpuId[v] /\ t = task[v]),
           task' = [task EXCEPT ![v] = NoTask],
           UNCHANGED <<workingTask, workingTaskReady, ready, queueId, life,
                       currentTask, pendingFreeStack, next, vcpuId>>
    PROVE  OwnInv'
<1> USE SchedulerAssumption DEF OwnInv, OwnTypeOK, TaskOrNone, AtFrame,
        AtNeutral, QueueFrame
<1>1. LiveEntries'
  BY Zenon DEF LiveEntries, Slot, Holds
<1>2. OneEntry'
  BY SMTT(60), Z3T(60) DEF OneEntry, Slot, Holds
<1>3. QueueIds'
  BY SMTT(60), Z3T(60) DEF QueueIds, Slot
<1>4. SavedOrCurrent'
  BY Zenon DEF SavedOrCurrent, QueueIds
<1>5. WorkingTasks'
  BY SMTT(60), Z3T(60) DEF WorkingTasks
<1>6. Running'
  BY SMTT(60), Z3T(60) DEF Running, Slot, Holds
<1>7. Ended'
  BY SMTT(60), Z3T(60) DEF Ended
<1>8. OneFree'
  BY Zenon DEF OneFree
<1> QED BY ONLY Zenon, <1>1, <1>2, <1>3, <1>4, <1>5, <1>6, <1>7, <1>8
           DEF OwnInv

(* Next or ResetWorkingTask takes the task out of the working slot. *)
LEMMA TakeSlot ==
    ASSUME OwnInv, OwnTypeOK, NEW v \in Vcpu, AtFrame(v), QueueFrame,
           workingTaskReady[v], workingTask[v] \in Task, next[v] = NoTask,
           task[v] = NoTask, pc[v] # "SwitchToWait", pc'[v] # "SwitchToWait",
           At(v)' # "Run", At(v)' \notin Stolen \cup {"SetQueueId"},
           workingTaskReady' = [workingTaskReady EXCEPT ![v] = FALSE],
           next' = [next EXCEPT ![v] = workingTask[v]],
           UNCHANGED <<workingTask, ready, queueId, life, currentTask,
                       pendingFreeStack, task, vcpuId>>
    PROVE  OwnInv'
<1> USE SchedulerAssumption DEF OwnInv, OwnTypeOK, TaskOrNone, AtFrame,
        AtNeutral, QueueFrame
<1>a. \A p \in Vcpu : Slot(p, workingTask[v]) <=> p = v
  BY SMTT(60), Z3T(60) DEF QueueIds, Slot
<1>1. LiveEntries'
  BY SMTT(60), Z3T(60), <1>a DEF LiveEntries, Slot, Holds
<1>2. OneEntry'
  BY SMTT(60), Z3T(60), <1>a DEF OneEntry, Slot, Holds
<1>3. QueueIds'
  BY SMTT(60), Z3T(60), <1>a DEF QueueIds, Slot
<1>4. SavedOrCurrent'
  BY Zenon, <1>a DEF SavedOrCurrent
<1>5. WorkingTasks'
  BY SMTT(60), Z3T(60), <1>a DEF WorkingTasks
<1>6. Running'
  BY SMTT(60), Z3T(60), <1>a DEF Running, Slot, Holds
<1>7. Ended'
  BY SMTT(60), Z3T(60), <1>a DEF Ended
<1>8. OneFree'
  BY Zenon, <1>a DEF OneFree
<1> QED BY ONLY Zenon, <1>1, <1>2, <1>3, <1>4, <1>5, <1>6, <1>7, <1>8
           DEF OwnInv

(* Next takes the head of the queue, which becomes the working task. *)
LEMMA TakeHead ==
    ASSUME OwnInv, OwnTypeOK, NEW v \in Vcpu, AtFrame(v), NEW x \in Task,
           InQueue(v, x), ~workingTaskReady[v], next[v] = NoTask,
           task[v] = NoTask, pc[v] # "SwitchToWait", pc'[v] # "SwitchToWait",
           At(v)' # "Run", At(v)' \notin Stolen \cup {"SetQueueId"},
           \A q \in Vcpu : Distinct(queue[q])',
           \A q \in Vcpu, t \in Task :
               InQueue(q, t)' <=> InQueue(q, t) /\ ~(q = v /\ t = x),
           workingTask' = [workingTask EXCEPT ![v] = x],
           next' = [next EXCEPT ![v] = x],
           UNCHANGED <<workingTaskReady, ready, queueId, life, currentTask,
                       pendingFreeStack, task, vcpuId>>
    PROVE  OwnInv'
<1> USE SchedulerAssumption DEF OwnInv, OwnTypeOK, TaskOrNone, AtFrame,
        AtNeutral, QueueFrame
<1>a. \A q \in Vcpu : InQueue(q, x) <=> q = v
  BY SMTT(60), Z3T(60) DEF QueueIds
<1>1. LiveEntries'
  BY Zenon, <1>a DEF LiveEntries, Slot, Holds
<1>2. OneEntry'
  BY SMTT(60), Z3T(60), <1>a DEF OneEntry, Slot, Holds
<1>3. QueueIds'
  BY SMTT(60), Z3T(60), <1>a DEF QueueIds, OneEntry, Slot
<1>4. SavedOrCurrent'
  BY Zenon, <1>a DEF SavedOrCurrent
<1>5. WorkingTasks'
  BY SMTT(60), Z3T(60), <1>a DEF WorkingTasks
<1>6. Running'
  BY SMTT(60), Z3T(60), <1>a DEF Running, Slot, Holds
<1>7. Ended'
  BY SMTT(60), Z3T(60), <1>a DEF Ended
<1>8. OneFree'
  BY Zenon, <1>a DEF OneFree
<1> QED BY ONLY Zenon, <1>1, <1>2, <1>3, <1>4, <1>5, <1>6, <1>7, <1>8
           DEF OwnInv

(* Steal takes a saved task out of the queue of p. *)
LEMMA TakeStolen ==
    ASSUME OwnInv, OwnTypeOK, NEW v \in Vcpu, AtFrame(v), NEW x \in Task,
           NEW p \in Vcpu, InQueue(p, x), ready[x], next[v] = NoTask,
           task[v] = NoTask, pc[v] # "SwitchToWait", pc'[v] # "SwitchToWait",
           At(v)' # "Run", At(v)' \in Stolen,
           \A q \in Vcpu : Distinct(queue[q])',
           \A q \in Vcpu, t \in Task :
               InQueue(q, t)' <=> InQueue(q, t) /\ ~(q = p /\ t = x),
           next' = [next EXCEPT ![v] = x],
           UNCHANGED <<workingTask, workingTaskReady, ready, queueId, life,
                       currentTask, pendingFreeStack, task, vcpuId>>
    PROVE  OwnInv'
<1> USE SchedulerAssumption DEF OwnInv, OwnTypeOK, TaskOrNone, AtFrame,
        AtNeutral, QueueFrame
<1>a. \A q \in Vcpu : InQueue(q, x) <=> q = p
  BY SMTT(60), Z3T(60) DEF QueueIds
<1>1. LiveEntries'
  BY SMTT(60), Z3T(60), <1>a DEF LiveEntries, Slot, Holds
<1>2. OneEntry'
  BY SMTT(60), Z3T(60), <1>a DEF OneEntry, Slot, Holds
<1>3. QueueIds'
  BY SMTT(60), Z3T(60), <1>a DEF QueueIds, Slot
<1>4. SavedOrCurrent'
  BY Zenon, <1>a DEF SavedOrCurrent
<1>5. WorkingTasks'
  BY SMTT(60), Z3T(60), <1>a DEF WorkingTasks
<1>6. Running'
  BY SMTT(60), Z3T(60), <1>a DEF Running, Slot, Holds
<1>7. Ended'
  BY SMTT(60), Z3T(60), <1>a DEF Ended
<1>8. OneFree'
  BY Zenon, <1>a DEF OneFree
<1> QED BY ONLY Zenon, <1>1, <1>2, <1>3, <1>4, <1>5, <1>6, <1>7, <1>8
           DEF OwnInv

(* SwapWoringTask finds the slot ready: the stolen task is scheduled again. *)
LEMMA SwapSlot ==
    ASSUME OwnInv, OwnTypeOK, NEW v \in Vcpu, AtFrame(v), QueueFrame,
           workingTaskReady[v], workingTask[v] \in Task, next[v] \in Task,
           task[v] = NoTask, pc[v] # "SwitchToWait", pc'[v] # "SwitchToWait",
           At(v)' # "Run", At(v)' \notin Stolen \cup {"SetQueueId"},
           workingTaskReady' = [workingTaskReady EXCEPT ![v] = FALSE],
           next' = [next EXCEPT ![v] = workingTask[v]],
           task' = [task EXCEPT ![v] = next[v]],
           vcpuId' = [vcpuId EXCEPT ![v] = queueId[next[v]]],
           UNCHANGED <<workingTask, ready, queueId, life, currentTask,
                       pendingFreeStack>>
    PROVE  OwnInv'
<1> USE SchedulerAssumption DEF OwnInv, OwnTypeOK, TaskOrNone, AtFrame,
        AtNeutral, QueueFrame
<1>a. \A p \in Vcpu : Slot(p, workingTask[v]) <=> p = v
  BY SMTT(60), Z3T(60) DEF QueueIds, Slot
<1>1. LiveEntries'
  BY SMTT(60), Z3T(60), <1>a DEF LiveEntries, Slot, Holds
<1>2. OneEntry'
  BY SMTT(60), Z3T(60), <1>a DEF OneEntry, Slot, Holds
<1>3. QueueIds'
  BY SMTT(60), Z3T(60), <1>a DEF QueueIds, OneEntry, Slot, Holds
<1>4. SavedOrCurrent'
  BY Zenon, <1>a DEF SavedOrCurrent
<1>5. WorkingTasks'
  BY SMTT(60), Z3T(60), <1>a DEF WorkingTasks
<1>6. Running'
  BY SMTT(60), Z3T(60), <1>a DEF Running, Slot, Holds
<1>7. Ended'
  BY SMTT(60), Z3T(60), <1>a DEF Ended
<1>8. OneFree'
  BY Zenon, <1>a DEF OneFree
<1> QED BY ONLY Zenon, <1>1, <1>2, <1>3, <1>4, <1>5, <1>6, <1>7, <1>8
           DEF OwnInv

(* SwapWoringTask: the stolen task becomes the working task. *)
LEMMA SwapTake ==
    ASSUME OwnInv, OwnTypeOK, NEW v \in Vcpu, AtFrame(v), QueueFrame,
           ~workingTaskReady[v], next[v] \in Task, task[v] = NoTask,
           pc[v] # "SwitchToWait", pc'[v] # "SwitchToWait", At(v)' # "Run",
           At(v) \in Stolen, At(v)' = "SetQueueId",
           workingTask' = [workingTask EXCEPT ![v] = next[v]],
           UNCHANGED <<workingTaskReady, ready, queueId, life, currentTask,
                       pendingFreeStack, next, task, vcpuId>>
    PROVE  OwnInv'
<1> USE SchedulerAssumption DEF OwnInv, OwnTypeOK, TaskOrNone, AtFrame,
        AtNeutral, QueueFrame
<1>1. LiveEntries'
  BY Zenon DEF LiveEntries, Slot, Holds
<1>2. OneEntry'
  BY SMTT(60), Z3T(60) DEF OneEntry, Slot, Holds
<1>3. QueueIds'
  BY SMTT(60), Z3T(60) DEF QueueIds, Slot
<1>4. SavedOrCurrent'
  BY Zenon DEF SavedOrCurrent
<1>5. WorkingTasks'
  BY SMTT(60), Z3T(60) DEF WorkingTasks
<1>6. Running'
  BY SMTT(60), Z3T(60) DEF Running, Slot, Holds
<1>7. Ended'
  BY SMTT(60), Z3T(60) DEF Ended
<1>8. OneFree'
  BY Zenon DEF OneFree
<1> QED BY ONLY Zenon, <1>1, <1>2, <1>3, <1>4, <1>5, <1>6, <1>7, <1>8
           DEF OwnInv

(* The stolen task moves to its new vcpu. *)
LEMMA MoveQueueId ==
    ASSUME OwnInv, OwnTypeOK, NEW v \in Vcpu, AtFrame(v), QueueFrame,
           next[v] \in Task, task[v] = NoTask, pc[v] # "SwitchToWait",
           pc'[v] # "SwitchToWait", At(v)' # "Run", At(v) = "SetQueueId",
           At(v)' \notin Stolen \cup {"SetQueueId"},
           queueId' = [queueId EXCEPT ![next[v]] = v],
           UNCHANGED <<workingTask, workingTaskReady, ready, life,
                       currentTask, pendingFreeStack, next, task, vcpuId>>
    PROVE  OwnInv'
<1> USE SchedulerAssumption DEF OwnInv, OwnTypeOK, TaskOrNone, AtFrame,
        AtNeutral, QueueFrame
<1>a. /\ ready[next[v]] /\ \A u \in Vcpu : currentTask[u] # next[v]
      /\ \A q \in Vcpu : /\ ~InQueue(q, next[v]) /\ ~Slot(q, next[v])
                        /\ task[q] # next[v] /\ (next[q] = next[v] => q = v)
  BY SMTT(60), Z3T(60) DEF QueueIds, OneEntry, Holds
<1>1. LiveEntries'
  BY Zenon, <1>a DEF LiveEntries, Slot, Holds
<1>2. OneEntry'
  BY SMTT(60), Z3T(60), <1>a DEF OneEntry, Slot, Holds
<1>3. QueueIds'
  BY SMTT(60), Z3T(60), <1>a DEF QueueIds, Slot
<1>4. SavedOrCurrent'
  BY Zenon, <1>a DEF SavedOrCurrent
<1>5. WorkingTasks'
  BY SMTT(60), Z3T(60), <1>a DEF WorkingTasks, Stolen
<1>6. Running'
  BY SMTT(60), Z3T(60), <1>a DEF Running, Slot, Holds
<1>7. Ended'
  BY SMTT(60), Z3T(60), <1>a DEF Ended
<1>8. OneFree'
  BY Zenon, <1>a DEF OneFree
<1> QED BY ONLY Zenon, <1>1, <1>2, <1>3, <1>4, <1>5, <1>6, <1>7, <1>8
           DEF OwnInv

-----------------------------------------------------------------------------
(* The calls of GetNext between ToWaiting and ToSearch, and the places at  *)
(* which a worker has found nothing in its own queue since ToWaiting.      *)
Sleepy == {"Process2", "MaskSet"}
Idling == {"Input2", "MaskSet", "EpollWait"}
PastOwn(v) == \/ pc[v] \in Idling
              \/ pc[v] \in {"LoadReady", "Steal"} /\ retNext[v] \in Sleepy

(* A worker that may fall asleep has announced it: its state is Waiting.   *)
StateWaiting == \A v \in Worker :
    pc[v] \in Idling \/ retNext[v] \in Sleepy => state[v] = "Waiting"

(* A ScheduleQ that has put a task in v's queue and has not yet read v's   *)
(* state; having read Waiting, it writes v's eventfd.                      *)
Announced(v) ==
    \E a \in Vcpu : pc[a] \in {"IncReady", "ReadState"} /\ vcpuId[a] = v

(* A worker that has found nothing in its own queue, and has something in  *)
(* it now, is told: its eventfd is readable or is about to be.             *)
Told == \A v \in Worker :
    PastOwn(v) /\ (queue[v] # <<>> \/ workingTaskReady[v]) =>
        eventfd[v] \/ Announced(v)

(* v sleeps, or will for all it can still see: its eventfd is not readable *)
(* and the rest of its Steal no longer reaches queue 0.                    *)
Asleep(v) ==
    /\ ~eventfd[v]
    /\ \/ pc[v] \in Idling
       \/ pc[v] = "Steal" /\ retNext[v] \in Sleepy /\ idx[v] > vcpuCnt - v

(* Queue 0 has no worker of its own: some worker is awake to steal from it, *)
(* or vcpu 0 is still inside the ScheduleQ that wakes one.                  *)
Served ==
    queue[0] # <<>> => \/ \E v \in Worker : ~Asleep(v)
                       \/ pc[0] \in {"IncReady", "ReadState"}

(* No task that waits belongs to queue 0, so no wakeup of vcpu 0 puts one   *)
(* there; and idx is 0 outside the loop of Steal.                           *)
Homes ==
    /\ \A t \in Task : life[t] = "Waiting" => queueId[t] # 0
    /\ pc[0] \in {"Enqueue", "IncReady", "ReadState"} => vcpuId[0] # 0
    /\ \A v \in Vcpu : pc[v] # "Steal" => idx[v] = 0

(* readyTaskCnt counts the queued tasks, but for the vcpus that have        *)
(* changed a queue and not yet the count.                                   *)
Queued == {t \in Task : \E q \in Vcpu : InQueue(q, t)}
Leaving == {v \in Vcpu : pc[v] \in {"DecNext", "DecSteal"}}
Entering == {v \in Vcpu : pc[v] = "IncReady"}
Counted ==
    /\ IsFiniteSet(Queued)
    /\ readyTaskCnt = Cardinality(Queued) + Cardinality(Leaving)
                        - Cardinality(Entering)

WakeInv == StateWaiting /\ Told /\ Served /\ Homes /\ Counted

-----------------------------------------------------------------------------
LEMMA Vcpus == /\ 0 \in Vcpu /\ Worker \subseteq Vcpu /\ 0 \notin Worker
               /\ \A v \in Vcpu : v # 0 => v \in Worker
               /\ IsFiniteSet(Vcpu)
<1>1. IsFiniteSet(Vcpu)
  BY SchedulerAssumption, FS_Interval DEF Vcpu
<1> QED
  BY <1>1, SchedulerAssumption DEF Vcpu, Worker

(* Where GetNext returns to: the two calls between ToWaiting and ToSearch  *)
(* fall asleep when they find nothing, the others do not.                  *)
LEMMA After ==
    \A r \in RetNexts \ {NoRet} :
        /\ AfterSome[r] \in SomePcs
        /\ r \in Sleepy => AfterNone[r] \in Idling
        /\ r \notin Sleepy => AfterNone[r] \in {"Search", "VcpuWait", "Input1"}
<1>1. /\ AfterSome["Wait"] = "ToRunning" /\ AfterSome["WaitFn"] = "ToRunning"
      /\ AfterSome["Process1"] = "MaskClear"
      /\ AfterSome["Process2"] = "ToSearch" /\ AfterSome["MaskSet"] = "ToSearch"
      /\ AfterNone["Wait"] = "Search" /\ AfterNone["WaitFn"] = "VcpuWait"
      /\ AfterNone["Process1"] = "Input1" /\ AfterNone["Process2"] = "Input2"
      /\ AfterNone["MaskSet"] = "EpollWait"
  BY DEF AfterSome, AfterNone
<1> QED
  BY Zenon, <1>1 DEF RetNexts, NoRet, SomePcs, Sleepy, Idling

(* Nothing is queued, taken or counted. *)
Counting == {"IncReady", "DecNext", "DecSteal"}
Uncounted(v) == /\ UNCHANGED <<queue, readyTaskCnt>>
                /\ \A u \in Vcpu : u # v => pc'[u] = pc[u]
                /\ pc[v] \notin Counting /\ pc'[v] \notin Counting

LEMMA CountedSame ==
    ASSUME Counted, NEW v, Uncounted(v)
    PROVE  Counted'
<1>1. Queued' = Queued
  BY Zenon DEF Queued, InQueue, Uncounted
<1>2. Leaving' = Leaving /\ Entering' = Entering
  BY Zenon DEF Leaving, Entering, Uncounted, Counting
<1> QED
  BY <1>1, <1>2, Zenon DEF Counted, Uncounted

(* A step of v, after which v neither sleeps nor is about to, that adds    *)
(* nothing to a queue or a slot and that no sleeping vcpu waits for.       *)
Moves(v) ==
    /\ \A u \in Vcpu : /\ queue'[u] # <<>> => queue[u] # <<>>
                       /\ workingTaskReady'[u] => workingTaskReady[u]
    /\ \A u \in Vcpu : u # v => /\ pc'[u] = pc[u]
                                /\ retNext'[u] = retNext[u]
                                /\ state'[u] = state[u]
                                /\ vcpuId'[u] = vcpuId[u]
                                /\ idx'[u] = idx[u]
                                /\ eventfd[u] => eventfd'[u]
    /\ pc[v] \notin {"IncReady", "ReadState"}
    /\ pc'[v] \notin Idling \cup {"LoadReady", "Steal", "IncReady", "ReadState"}
    /\ idx'[v] = 0
    /\ v # 0 /\ retNext'[v] \in Sleepy => state'[v] = "Waiting"
    /\ v = 0 /\ pc'[v] = "Enqueue" => vcpuId'[0] # 0
    /\ \A t \in Task : life'[t] = "Waiting" => queueId'[t] # 0

LEMMA MovesWake ==
    ASSUME TypeOK, WakeInv, NEW v \in Vcpu, Moves(v)
    PROVE  StateWaiting' /\ Told' /\ Served' /\ Homes'
<1> USE Vcpus DEF Moves
<1>1. StateWaiting'
  BY SMTT(30), Z3T(30) DEF WakeInv, StateWaiting
<1>2. Told'
  <2> SUFFICES ASSUME NEW u \in Worker, PastOwn(u)',
                      (queue[u] # <<>> \/ workingTaskReady[u])'
               PROVE  (eventfd[u] \/ Announced(u))'
    BY Zenon DEF Told
  <2>1. u # v
    BY Zenon DEF PastOwn
  <2>2. PastOwn(u)
    BY <2>1 DEF PastOwn
  <2>3. eventfd[u] \/ Announced(u)
    BY <2>2, Zenon DEF WakeInv, Told
  <2>4. CASE Announced(u)
    <3>1. PICK a \in Vcpu : pc[a] \in {"IncReady", "ReadState"} /\ vcpuId[a] = u
      BY Zenon, <2>4 DEF Announced
    <3> QED
      BY Zenon, <3>1 DEF Announced
  <2> QED
    BY Zenon, <2>1, <2>3, <2>4
<1>3. Served'
  <2> SUFFICES ASSUME queue'[0] # <<>>
               PROVE  \/ \E u \in Worker : ~Asleep(u)'
                      \/ pc'[0] \in {"IncReady", "ReadState"}
    BY Zenon DEF Served
  <2>1. CASE v \in Worker
    <3>1. ~Asleep(v)'
      BY Zenon DEF Asleep
    <3> QED
      BY Zenon, <2>1, <3>1
  <2>2. CASE v = 0
    <3>1. PICK u \in Worker : ~Asleep(u)
      BY Zenon, <2>2 DEF WakeInv, Served
    <3>2. ~Asleep(u)'
      BY ZenonT(30), <2>2, <3>1 DEF Asleep
    <3> QED
      BY Zenon, <3>2
  <2> QED
    BY <2>1, <2>2
<1>4. Homes'
  <2>1. pc'[0] \in {"Enqueue", "IncReady", "ReadState"} => vcpuId'[0] # 0
    BY Zenon DEF WakeInv, Homes
  <2>2. \A u \in Vcpu : pc'[u] # "Steal" => idx'[u] = 0
    BY DEF WakeInv, Homes
  <2> QED
    BY <2>1, <2>2, Zenon DEF Homes
<1> QED
  BY Zenon, <1>1, <1>2, <1>3, <1>4

(* Where v is, and what its variables say there. *)
LEMMA Place ==
    ASSUME Inv, WakeInv, NEW v \in Vcpu
    PROVE  /\ pc[v] \in InScheduleQ => ret[v] \in Callers
           /\ pc[v] \notin InScheduleQ =>
                 (retNext[v] # NoRet <=> pc[v] \in InGetNext \cup {"Boot"})
           /\ (v # 0 /\ (pc[v] \in Idling \/ retNext[v] \in Sleepy)) =>
                  state[v] = "Waiting"
           /\ pc[v] # "Steal" => idx[v] = 0
           /\ \A t \in Task : life[t] = "Waiting" => queueId[t] # 0
<1>1. Local(v)
  BY DEF Inv, LocalInv
<1>2. (v # 0 /\ (pc[v] \in Idling \/ retNext[v] \in Sleepy)) =>
          state[v] = "Waiting"
  BY Zenon, Vcpus DEF WakeInv, StateWaiting
<1> QED
  BY <1>1, <1>2, Zenon DEF Local, At, WakeInv, Homes

(* The types of the variables WakeInv speaks of. *)
LEMMA Shapes ==
    ASSUME Inv
    PROVE  /\ pc \in [Vcpu -> PCs] /\ retNext \in [Vcpu -> RetNexts]
           /\ workingTaskReady \in [Vcpu -> BOOLEAN]
           /\ state \in [Vcpu -> {"Searching", "Waiting", "Running"}]
           /\ eventfd \in [Vcpu -> BOOLEAN] /\ queueId \in [Task -> Vcpu]
           /\ life \in [Task -> LifeStates] /\ vcpuId \in [Vcpu -> Vcpu]
           /\ queue \in [Vcpu -> TaskSeq] /\ idx \in [Vcpu -> Vcpu]
  BY DEF Inv, LocalInv, TypeOK

-----------------------------------------------------------------------------
(* The steps after which the vcpu that takes them is awake. *)
LEMMA WakeOneWake ==
    ASSUME Inv, WakeInv, NEW v \in Vcpu, WakeOne(v) PROVE WakeInv'
<1>0. ret[v] \in Callers
  BY Zenon, Place DEF WakeOne, InScheduleQ
<1>1. Moves(v)
  BY <1>0, SMTT(30), Z3T(30), Vcpus, Place, Shapes DEF WakeOne, Goto, WakeNext,
     ReturnScheduleQ, queueVars, wakeVars, taskVars, cpuVars, getVars, Moves,
     Idling, Sleepy, Callers
<1>2. Uncounted(v)
  BY Zenon, <1>0, Vcpus, Shapes DEF WakeOne, Goto, WakeNext, ReturnScheduleQ,
     queueVars, wakeVars, taskVars, cpuVars, getVars, Uncounted, Counting,
     Callers
<1> QED
  BY Zenon, <1>1, <1>2, Vcpus, MovesWake, CountedSame DEF WakeInv, Inv,
     LocalInv

LEMMA WakeIdleCPUWake ==
    ASSUME Inv, WakeInv, NEW v \in Vcpu, WakeIdleCPU(v) PROVE WakeInv'
<1>0. ret[v] \in Callers
  BY Zenon, Place DEF WakeIdleCPU, InScheduleQ
<1>1. Moves(v)
  BY SMTT(30), Z3T(30), <1>0, Vcpus, Place, Shapes DEF WakeIdleCPU, Goto,
     WakeNext,
     ReturnScheduleQ, Wakeup, queueVars, taskVars, cpuVars, getVars, Moves,
     Idling, Sleepy, Callers
<1>2. Uncounted(v)
  BY ZenonT(40), <1>0, Vcpus, Shapes DEF WakeIdleCPU, Goto, WakeNext,
     ReturnScheduleQ,
     Wakeup, queueVars, taskVars, cpuVars, getVars, Uncounted, Counting,
     Callers
<1> QED
  BY <1>1, <1>2, Vcpus, MovesWake, CountedSame DEF WakeInv, Inv, LocalInv

LEMMA SwapWoringTaskWake ==
    ASSUME Inv, WakeInv, NEW v \in Worker, SwapWoringTask(v) PROVE WakeInv'
<1>1. Moves(v)
  BY SMTT(30), Z3T(30), Vcpus, Place, Shapes DEF SwapWoringTask, Goto,
     CallScheduleQ, wakeVars,
     taskVars, cpuVars, getVars, argVars, Moves, Idling, Sleepy, InScheduleQ,
     InGetNext, NoRet
<1>2. Uncounted(v)
  BY Zenon, Vcpus, Shapes DEF SwapWoringTask, Goto, CallScheduleQ, wakeVars,
     taskVars, cpuVars, getVars, argVars, Uncounted, Counting
<1> QED
  BY Zenon, <1>1, <1>2, Vcpus, MovesWake, CountedSame DEF WakeInv, Inv,
     LocalInv

LEMMA SetQueueIdWake ==
    ASSUME Inv, WakeInv, NEW v \in Worker, SetQueueId(v) PROVE WakeInv'
<1>0. AfterSome[retNext[v]] \in SomePcs
  BY Zenon, Vcpus, Place, Shapes, After DEF SetQueueId, InScheduleQ, InGetNext
<1>1. Moves(v)
  BY Zenon, <1>0, Vcpus, Place, Shapes DEF SetQueueId, GetNextSome, Goto,
     queueVars,
     wakeVars, cpuVars, argVars, Moves, Idling, Sleepy, SomePcs, NoRet
<1>2. Uncounted(v)
  BY Zenon, <1>0, Vcpus, Shapes DEF SetQueueId, GetNextSome, Goto, queueVars,
     wakeVars, cpuVars, argVars, Uncounted, Counting, SomePcs
<1> QED
  BY <1>1, <1>2, Vcpus, MovesWake, CountedSame DEF WakeInv, Inv, LocalInv

LEMMA ToRunningWake ==
    ASSUME Inv, WakeInv, NEW v \in Worker, ToRunning(v) PROVE WakeInv'
<1>1. Moves(v)
  BY ZenonT(40), Vcpus, Place, Shapes DEF ToRunning, Goto, queueVars,
     wakeVars, taskVars,
     cpuVars, argVars, Moves, Idling, Sleepy, InScheduleQ, InGetNext, NoRet
<1>2. Uncounted(v)
  BY Zenon, Vcpus, Shapes DEF ToRunning, Goto, queueVars, wakeVars, taskVars,
     cpuVars, argVars, Uncounted, Counting
<1> QED
  BY <1>1, <1>2, Vcpus, MovesWake, CountedSame DEF WakeInv, Inv, LocalInv

LEMMA SwitchWake ==
    ASSUME Inv, WakeInv, NEW v \in Worker, Switch(v) PROVE WakeInv'
<1>1. Moves(v)
  BY Zenon, Vcpus, Place, Shapes DEF Switch, Goto, queueVars, wakeVars,
     argVars,
     Moves, Idling, Sleepy, InScheduleQ, InGetNext, NoRet
<1>2. Uncounted(v)
  BY Zenon, Vcpus, Shapes DEF Switch, Goto, queueVars, wakeVars, argVars,
     Uncounted,
     Counting
<1> QED
  BY <1>1, <1>2, Vcpus, MovesWake, CountedSame DEF WakeInv, Inv, LocalInv

LEMMA SwitchToWaitTaskWake ==
    ASSUME Inv, WakeInv, NEW v \in Worker, SwitchToWaitTask(v) PROVE WakeInv'
<1>1. Moves(v)
  BY ZenonT(40), Vcpus, Place, Shapes DEF SwitchToWaitTask, Goto,
     CallGetNext, queueVars,
     wakeVars, argVars, Moves, Idling, Sleepy, InScheduleQ, InGetNext, NoRet
<1>2. Uncounted(v)
  BY Zenon, Vcpus, Shapes DEF SwitchToWaitTask, Goto, CallGetNext, queueVars,
     wakeVars, argVars, Uncounted, Counting
<1> QED
  BY <1>1, <1>2, Vcpus, MovesWake, CountedSame DEF WakeInv, Inv, LocalInv

LEMMA WaitToSearchWake ==
    ASSUME Inv, WakeInv, NEW v \in Worker, WaitToSearch(v) PROVE WakeInv'
<1>1. Moves(v)
  BY Zenon, Vcpus, Place, Shapes DEF WaitToSearch, CallGetNext, Goto,
     queueVars,
     wakeVars, taskVars, cpuVars, argVars, Moves, Idling, Sleepy,
     InScheduleQ, InGetNext, NoRet
<1>2. Uncounted(v)
  BY Zenon, Vcpus, Shapes DEF WaitToSearch, CallGetNext, Goto, queueVars,
     wakeVars,
     taskVars, cpuVars, argVars, Uncounted, Counting
<1> QED
  BY <1>1, <1>2, Vcpus, MovesWake, CountedSame DEF WakeInv, Inv, LocalInv

LEMMA WaitTimeoutWake ==
    ASSUME Inv, WakeInv, NEW v \in Worker, WaitTimeout(v) PROVE WakeInv'
<1>1. Moves(v)
  BY ZenonT(40), Vcpus, Place, Shapes DEF WaitTimeout, Goto, wakeVars,
     taskVars, cpuVars,
     argVars, Moves, Idling, Sleepy, InScheduleQ, InGetNext, NoRet
<1>2. Uncounted(v)
  BY Vcpus, Shapes DEF WaitTimeout, Goto, wakeVars, taskVars, cpuVars,
     argVars, Uncounted, Counting
<1> QED
  BY <1>1, <1>2, Vcpus, MovesWake, CountedSame DEF WakeInv, Inv, LocalInv

LEMMA WaitPollWake ==
    ASSUME Inv, WakeInv, NEW v \in Worker, WaitPoll(v) PROVE WakeInv'
<1>1. Moves(v)
  BY SMTT(30), Z3T(30), Vcpus, Place, Shapes DEF WaitPoll, CallGetNext,
     WakeTask,
     ProcessInputMsg, Goto, CallScheduleQ, CreateTask, queueVars, wakeVars,
     taskVars, cpuVars, argVars, Moves, Idling, Sleepy, InScheduleQ,
     InGetNext, NoRet
<1>2. Uncounted(v)
  BY Zenon, Vcpus, Shapes DEF WaitPoll, CallGetNext, WakeTask, ProcessInputMsg,
     Goto, CallScheduleQ, CreateTask, queueVars, wakeVars, taskVars, cpuVars,
     argVars, Uncounted, Counting
<1> QED
  BY <1>1, <1>2, Vcpus, MovesWake, CountedSame DEF WakeInv, Inv, LocalInv

LEMMA BlockWake ==
    ASSUME Inv, WakeInv, NEW v \in Worker, Block(v) PROVE WakeInv'
<1>0. \A t \in Task : currentTask[v] = t => queueId[t] = v
  BY Zenon, Vcpus DEF Inv, OwnInv, QueueIds
<1>1. Moves(v)
  BY Zenon, <1>0, Vcpus, Place, Shapes DEF Block, Goto, queueVars, wakeVars,
     cpuVars, getVars, argVars, Moves, Idling, Sleepy, InScheduleQ,
     InGetNext, NoRet
<1>2. Uncounted(v)
  BY Zenon, Vcpus, Shapes DEF Block, Goto, queueVars, wakeVars, cpuVars,
     getVars,
     argVars, Uncounted, Counting
<1> QED
  BY <1>1, <1>2, Vcpus, MovesWake, CountedSame DEF WakeInv, Inv, LocalInv

LEMMA YieldWake ==
    ASSUME Inv, WakeInv, NEW v \in Worker, Yield(v) PROVE WakeInv'
<1>1. Moves(v)
  BY Zenon, Vcpus, Place, Shapes DEF Yield, CallScheduleQ, Goto, queueVars,
     wakeVars, taskVars, cpuVars, getVars, Moves, Idling, Sleepy,
     InScheduleQ, InGetNext, NoRet
<1>2. Uncounted(v)
  BY Zenon, Vcpus, Shapes DEF Yield, CallScheduleQ, Goto, queueVars, wakeVars,
     taskVars, cpuVars, getVars, Uncounted, Counting
<1> QED
  BY <1>1, <1>2, Vcpus, MovesWake, CountedSame DEF WakeInv, Inv, LocalInv

LEMMA RunWakeWake ==
    ASSUME Inv, WakeInv, NEW v \in Worker, RunWake(v) PROVE WakeInv'
<1>1. Moves(v)
  BY SMTT(30), Z3T(30), Vcpus, Place, Shapes DEF RunWake, WakeTask,
     CallScheduleQ, Goto,
     queueVars, wakeVars, cpuVars, getVars, Moves, Idling, Sleepy,
     InScheduleQ, InGetNext, NoRet
<1>2. Uncounted(v)
  BY ZenonT(40), Vcpus, Shapes DEF RunWake, WakeTask, CallScheduleQ, Goto,
     queueVars,
     wakeVars, cpuVars, getVars, Uncounted, Counting
<1> QED
  BY <1>1, <1>2, Vcpus, MovesWake, CountedSame DEF WakeInv, Inv, LocalInv

LEMMA RunCloneWake ==
    ASSUME Inv, WakeInv, NEW v \in Worker, RunClone(v) PROVE WakeInv'
<1>1. Moves(v)
  BY SMTT(30), Z3T(30), Vcpus, Place, Shapes DEF RunClone, CreateTask,
     CallScheduleQ, Goto,
     queueVars, wakeVars, cpuVars, getVars, Moves, Idling, Sleepy,
     InScheduleQ, InGetNext, NoRet
<1>2. Uncounted(v)
  BY Zenon, Vcpus, Shapes DEF RunClone, CreateTask, CallScheduleQ, Goto,
     queueVars,
     wakeVars, cpuVars, getVars, Uncounted, Counting
<1> QED
  BY <1>1, <1>2, Vcpus, MovesWake, CountedSame DEF WakeInv, Inv, LocalInv

LEMMA ExitWake ==
    ASSUME Inv, WakeInv, NEW v \in Worker, Exit(v) PROVE WakeInv'
<1>1. Moves(v)
  BY Zenon, Vcpus, Place, Shapes DEF Exit, Goto, queueVars, wakeVars, getVars,
     argVars, Moves, Idling, Sleepy, InScheduleQ, InGetNext, NoRet
<1>2. Uncounted(v)
  BY SMTT(30), Z3T(30), Vcpus, Shapes DEF Exit, Goto, queueVars, wakeVars,
     getVars, argVars,
     Uncounted, Counting
<1> QED
  BY <1>1, <1>2, Vcpus, MovesWake, CountedSame DEF WakeInv, Inv, LocalInv

LEMMA BootWake ==
    ASSUME Inv, WakeInv, NEW v \in Worker, Boot(v) PROVE WakeInv'
<1>1. Moves(v)
  BY SMTT(30), Z3T(30), Vcpus, Place, Shapes DEF Boot, Goto, CreateTask,
     CallScheduleQ,
     queueVars, wakeVars, taskVars, cpuVars, getVars, argVars, Moves, Idling,
     Sleepy, InScheduleQ, InGetNext, NoRet
<1>2. Uncounted(v)
  BY SMTT(30), Z3T(30), Vcpus, Shapes DEF Boot, Goto, CreateTask,
     CallScheduleQ, queueVars,
     wakeVars, taskVars, cpuVars, getVars, argVars, Uncounted, Counting
<1> QED
  BY <1>1, <1>2, Vcpus, MovesWake, CountedSame DEF WakeInv, Inv, LocalInv

LEMMA FreeStackWake ==
    ASSUME Inv, WakeInv, NEW v \in Worker, FreeStack(v) PROVE WakeInv'
<1>1. Moves(v)
  BY Vcpus, Place, Shapes DEF FreeStack, CallGetNext, Goto, queueVars,
     wakeVars, argVars, Moves, Idling, Sleepy, InScheduleQ, InGetNext, NoRet
<1>2. Uncounted(v)
  BY ZenonT(40), Vcpus, Shapes DEF FreeStack, CallGetNext, Goto, queueVars,
     wakeVars,
     argVars, Uncounted, Counting
<1> QED
  BY <1>1, <1>2, Vcpus, MovesWake, CountedSame DEF WakeInv, Inv, LocalInv

LEMMA WaitFnInputsWake ==
    ASSUME Inv, WakeInv, NEW v \in Worker, WaitFnInputs(v) PROVE WakeInv'
<1>1. Moves(v)
  BY SMTT(30), Z3T(30), Vcpus, Place, Shapes DEF WaitFnInputs, Goto,
     ProcessInputMsg,
     CreateTask, CallScheduleQ, queueVars, wakeVars, taskVars, cpuVars,
     getVars, argVars, Moves, Idling, Sleepy, InScheduleQ, InGetNext, NoRet
<1>2. Uncounted(v)
  BY SMTT(30), Z3T(30), Vcpus, Shapes DEF WaitFnInputs, Goto,
     ProcessInputMsg, CreateTask,
     CallScheduleQ, queueVars, wakeVars, taskVars, cpuVars, getVars, argVars,
     Uncounted, Counting
<1> QED
  BY <1>1, <1>2, Vcpus, MovesWake, CountedSame DEF WakeInv, Inv, LocalInv

LEMMA VcpuWaitWake ==
    ASSUME Inv, WakeInv, NEW v \in Worker, VcpuWait(v) PROVE WakeInv'
<1>1. Moves(v)
  BY Zenon, Vcpus, Place, Shapes DEF VcpuWait, CallGetNext, Goto, queueVars,
     taskVars, cpuVars, argVars, Moves, Idling, Sleepy, InScheduleQ,
     InGetNext, NoRet
<1>2. Uncounted(v)
  BY Zenon, Vcpus, Shapes DEF VcpuWait, CallGetNext, Goto, queueVars, taskVars,
     cpuVars, argVars, Uncounted, Counting
<1> QED
  BY <1>1, <1>2, Vcpus, MovesWake, CountedSame DEF WakeInv, Inv, LocalInv

LEMMA ToWaitingWake ==
    ASSUME Inv, WakeInv, NEW v \in Worker, ToWaiting(v) PROVE WakeInv'
<1>1. Moves(v)
  BY Zenon, Vcpus, Place, Shapes DEF ToWaiting, CallGetNext, Goto, queueVars,
     wakeVars, taskVars, cpuVars, argVars, Moves, Idling, Sleepy,
     InScheduleQ, InGetNext, NoRet
<1>2. Uncounted(v)
  BY ZenonT(40), Vcpus, Shapes DEF ToWaiting, CallGetNext, Goto, queueVars,
     wakeVars,
     taskVars, cpuVars, argVars, Uncounted, Counting
<1> QED
  BY <1>1, <1>2, Vcpus, MovesWake, CountedSame DEF WakeInv, Inv, LocalInv

LEMMA EpollWaitWake ==
    ASSUME Inv, WakeInv, NEW v \in Worker, EpollWait(v) PROVE WakeInv'
<1>1. Moves(v)
  BY Zenon, Vcpus, Place, Shapes DEF EpollWait, CallGetNext, Goto, queueVars,
     taskVars, cpuVars, argVars, Moves, Idling, Sleepy, InScheduleQ,
     InGetNext, NoRet
<1>2. Uncounted(v)
  BY ZenonT(40), Vcpus, Shapes DEF EpollWait, CallGetNext, Goto, queueVars,
     taskVars,
     cpuVars, argVars, Uncounted, Counting
<1> QED
  BY <1>1, <1>2, Vcpus, MovesWake, CountedSame DEF WakeInv, Inv, LocalInv

LEMMA ToSearchWake ==
    ASSUME Inv, WakeInv, NEW v \in Worker, ToSearch(v) PROVE WakeInv'
<1>1. Moves(v)
  BY Zenon, Vcpus, Place, Shapes DEF ToSearch, Goto, queueVars, wakeVars,
     taskVars,
     cpuVars, getVars, argVars, Moves, Idling, Sleepy, InScheduleQ,
     InGetNext, NoRet
<1>2. Uncounted(v)
  BY Zenon, Vcpus, Shapes DEF ToSearch, Goto, queueVars, wakeVars, taskVars,
     cpuVars, getVars, argVars, Uncounted, Counting
<1> QED
  BY <1>1, <1>2, Vcpus, MovesWake, CountedSame DEF WakeInv, Inv, LocalInv

LEMMA VcpuWaitMaskClearWake ==
    ASSUME Inv, WakeInv, NEW v \in Worker, VcpuWaitMaskClear(v) PROVE WakeInv'
<1>1. Moves(v)
  BY Zenon, Vcpus, Place, Shapes DEF VcpuWaitMaskClear, Goto, queueVars,
     taskVars,
     cpuVars, getVars, argVars, Moves, Idling, Sleepy, InScheduleQ,
     InGetNext, NoRet
<1>2. Uncounted(v)
  BY Zenon, Vcpus, Shapes DEF VcpuWaitMaskClear, Goto, queueVars, taskVars,
     cpuVars,
     getVars, argVars, Uncounted, Counting
<1> QED
  BY <1>1, <1>2, Vcpus, MovesWake, CountedSame DEF WakeInv, Inv, LocalInv

LEMMA IOWakeWake ==
    ASSUME Inv, WakeInv, IOWake(0) PROVE WakeInv'
<1>1. Moves(0)
  BY SMTT(30), Z3T(30), Vcpus, Place, Shapes DEF IOWake, WakeTask,
     CallScheduleQ, Goto,
     queueVars, wakeVars, cpuVars, getVars, Moves, Idling, Sleepy,
     InScheduleQ, InGetNext, NoRet
<1>2. Uncounted(0)
  BY Zenon, Vcpus, Shapes DEF IOWake, WakeTask, CallScheduleQ, Goto, queueVars,
     wakeVars, cpuVars, getVars, Uncounted, Counting
<1> QED
  BY Zenon, <1>1, <1>2, Vcpus, MovesWake, CountedSame DEF WakeInv, Inv,
     LocalInv

LEMMA AQHostInputPushWake ==
    ASSUME Inv, WakeInv, AQHostInputPush(0) PROVE WakeInv'
<1>1. Moves(0)
  BY Zenon, Vcpus, Place, Shapes DEF AQHostInputPush, Goto, queueVars,
     wakeVars,
     taskVars, cpuVars, getVars, Moves, Idling, Sleepy, InScheduleQ,
     InGetNext, NoRet
<1>2. Uncounted(0)
  BY Zenon, Vcpus, Shapes DEF AQHostInputPush, Goto, queueVars, wakeVars,
     taskVars,
     cpuVars, getVars, Uncounted, Counting
<1> QED
  BY <1>1, <1>2, Vcpus, MovesWake, CountedSame DEF WakeInv, Inv, LocalInv

-----------------------------------------------------------------------------
(* The steps that queue a task, announce it, count it or take it. *)

(* One more queued task, and one more vcpu that has yet to count it. *)
LEMMA CountedEnqueue ==
    ASSUME Counted, NEW v \in Vcpu, NEW t \in Task, NEW q \in Vcpu,
           \A u \in Vcpu : u # v => pc'[u] = pc[u],
           pc[v] = "Enqueue", pc'[v] = "IncReady",
           \A p \in Vcpu, x \in Task :
               InQueue(p, x)' <=> InQueue(p, x) \/ (p = q /\ x = t),
           \A p \in Vcpu : ~InQueue(p, t),
           readyTaskCnt' = readyTaskCnt
    PROVE  Counted'
<1>1. Queued' = Queued \cup {t} /\ t \notin Queued
  BY Zenon DEF Queued
<1>2. Entering' = Entering \cup {v} /\ v \notin Entering
  BY Zenon DEF Entering
<1>3. Leaving' = Leaving
  BY DEF Leaving
<1>4. IsFiniteSet(Entering) /\ IsFiniteSet(Leaving)
  BY Vcpus, FS_Subset, Zenon DEF Entering, Leaving
<1>5. /\ IsFiniteSet(Queued') /\ Cardinality(Queued') = Cardinality(Queued) + 1
      /\ Cardinality(Entering') = Cardinality(Entering) + 1
      /\ Cardinality(Queued) \in Nat /\ Cardinality(Entering) \in Nat
      /\ Cardinality(Leaving) \in Nat
  BY <1>1, <1>2, <1>4, FS_AddElement, FS_CardinalityType, Zenon DEF Counted
<1> QED
  BY <1>3, <1>5 DEF Counted

(* One task less in the queues, and one more vcpu that has yet to count. *)
LEMMA CountedTake ==
    ASSUME Counted, NEW v \in Vcpu, NEW t \in Task, NEW q \in Vcpu,
           \A u \in Vcpu : u # v => pc'[u] = pc[u],
           pc[v] \notin Counting, pc'[v] \in {"DecNext", "DecSteal"},
           \A p \in Vcpu, x \in Task : InQueue(p, x)' <=> InQueue(p, x) /\ x # t,
           InQueue(q, t),
           readyTaskCnt' = readyTaskCnt
    PROVE  Counted'
<1>1. Queued' = Queued \ {t} /\ t \in Queued
  BY Zenon DEF Queued
<1>2. Leaving' = Leaving \cup {v} /\ v \notin Leaving
  BY Zenon DEF Leaving, Counting
<1>3. Entering' = Entering
  BY DEF Entering, Counting
<1>4. IsFiniteSet(Entering) /\ IsFiniteSet(Leaving)
  BY Vcpus, FS_Subset, Zenon DEF Entering, Leaving
<1>5. /\ IsFiniteSet(Queued') /\ Cardinality(Queued') = Cardinality(Queued) - 1
      /\ Cardinality(Leaving') = Cardinality(Leaving) + 1
      /\ Cardinality(Queued) \in Nat /\ Cardinality(Entering) \in Nat
      /\ Cardinality(Leaving) \in Nat
  BY ZenonT(40), <1>1, <1>2, <1>4, FS_AddElement, FS_RemoveElement,
     FS_CardinalityType,
     Zenon DEF Counted
<1> QED
  BY <1>3, <1>5 DEF Counted

(* A vcpu counts the task it has queued or taken. *)
LEMMA CountedDone ==
    ASSUME Counted, NEW v \in Vcpu, UNCHANGED queue,
           \A u \in Vcpu : u # v => pc'[u] = pc[u],
           pc'[v] \notin Counting, pc[v] \in Counting,
           readyTaskCnt' = IF pc[v] = "IncReady" THEN readyTaskCnt + 1
                           ELSE readyTaskCnt - 1
    PROVE  Counted'
<1>1. Queued' = Queued
  BY Zenon DEF Queued, InQueue
<1>4. IsFiniteSet(Entering) /\ IsFiniteSet(Leaving)
  BY Vcpus, FS_Subset, Zenon DEF Entering, Leaving
<1>5. /\ Cardinality(Queued) \in Nat /\ Cardinality(Entering) \in Nat
      /\ Cardinality(Leaving) \in Nat
  BY <1>4, FS_CardinalityType, Zenon DEF Counted
<1>6. CASE pc[v] = "IncReady"
  <2>1. Entering' = Entering \ {v} /\ v \in Entering /\ Leaving' = Leaving
    BY <1>6 DEF Entering, Leaving, Counting
  <2>2. Cardinality(Entering') = Cardinality(Entering) - 1
    BY <2>1, <1>4, FS_RemoveElement, Zenon
  <2> QED
    BY SMTT(30), Z3T(30), <1>1, <1>5, <1>6, <2>1, <2>2 DEF Counted
<1>7. CASE pc[v] # "IncReady"
  <2>1. Leaving' = Leaving \ {v} /\ v \in Leaving /\ Entering' = Entering
    BY <1>7 DEF Entering, Leaving, Counting
  <2>2. Cardinality(Leaving') = Cardinality(Leaving) - 1
    BY <2>1, <1>4, FS_RemoveElement, Zenon
  <2> QED
    BY SMTT(30), Z3T(30), <1>1, <1>5, <1>7, <2>1, <2>2 DEF Counted
<1> QED
  BY <1>6, <1>7

(* ScheduleQ queues the task: the caller announces it. *)
LEMMA EnqueueWake ==
    ASSUME Inv, WakeInv, NEW v \in Vcpu, Enqueue(v) PROVE WakeInv'
<1>1. task[v] \in Task /\ vcpuId[v] \in Vcpu
  <2>1. Local(v) /\ task[v] \in TaskOrNone /\ vcpuId[v] \in Vcpu
    BY DEF Inv, LocalInv, TypeOK
  <2> QED
    BY <2>1, Zenon DEF Local, TaskOrNone, Enqueue
<1>2. PICK t \in Task, q \in Vcpu : t = task[v] /\ q = vcpuId[v]
  BY <1>1, Zenon
<1>3. /\ pc[v] = "Enqueue" /\ pc'[v] \in {"IncReady", "ReadState"}
      /\ UNCHANGED <<retNext, state, vcpuId, idx, eventfd, life, queueId,
                     readyTaskCnt>>
      /\ \A u \in Vcpu : u # v => pc'[u] = pc[u]
      /\ \A u \in Vcpu : u # q => /\ queue'[u] = queue[u]
                                  /\ workingTaskReady'[u] = workingTaskReady[u]
  BY Zenon, <1>2, Shapes DEF Enqueue, Goto, wakeVars, taskVars, getVars
<1>4. StateWaiting'
  BY Zenon, <1>3, Vcpus DEF WakeInv, StateWaiting, Idling
<1>5. Told'
  <2> SUFFICES ASSUME NEW u \in Worker, PastOwn(u)',
                      (queue[u] # <<>> \/ workingTaskReady[u])'
               PROVE  (eventfd[u] \/ Announced(u))'
    BY Zenon DEF Told
  <2>1. CASE u = q
    BY Zenon, <2>1, <1>2, <1>3 DEF Announced
  <2>2. CASE u # q
    <3>1. u # v /\ PastOwn(u)
      BY Zenon, <1>3, Vcpus DEF PastOwn, Idling
    <3>2. eventfd[u] \/ Announced(u)
      BY Zenon, <2>2, <3>1, <1>3, Vcpus DEF WakeInv, Told
    <3> QED
      BY Zenon, <3>2, <1>3 DEF Announced
  <2> QED
    BY <2>1, <2>2
<1>6. Served'
  <2>1. v # 0 => v \in Worker /\ ~Asleep(v)'
    BY <1>3, Vcpus DEF Asleep, Idling
  <2> QED
    BY Zenon, <2>1, <1>3 DEF Served
<1>7. Homes'
  <2>1. pc'[0] \in {"Enqueue", "IncReady", "ReadState"} => vcpuId'[0] # 0
    BY Zenon, <1>3, Vcpus DEF WakeInv, Homes
  <2>2. \A u \in Vcpu : pc'[u] # "Steal" => idx'[u] = 0
    BY Zenon, <1>3 DEF WakeInv, Homes
  <2> QED
    BY <2>1, <2>2, <1>3, Zenon DEF WakeInv, Homes
<1>8. Counted'
  <2>1. CASE cpuAff[v] /\ t = workingTask[q]
    <3>1. Uncounted(v)
      BY <2>1, <1>2, <1>3, Shapes, ZenonT(30) DEF Enqueue, Goto, Uncounted,
         Counting
    <3> QED
      BY <3>1, CountedSame DEF WakeInv
  <2>2. CASE ~(cpuAff[v] /\ t = workingTask[q])
    <3>1. pc'[v] = "IncReady" /\ queue' = [queue EXCEPT ![q] = Append(@, t)]
      BY Zenon, <2>2, <1>2, Shapes DEF Enqueue, Goto
    <3>2. queue'[q] = Append(queue[q], t) /\ queue[q] \in Seq(Task)
      BY Zenon, <3>1, Shapes DEF TaskSeq
    <3>3. \A x : In(queue'[q], x) <=> In(queue[q], x) \/ x = t
      BY <3>2, AppendIn
    <3>4. \A p \in Vcpu, x \in Task :
              InQueue(p, x)' <=> InQueue(p, x) \/ (p = q /\ x = t)
      <4>1. \A x : InQueue(q, x)' <=> InQueue(q, x) \/ x = t
        BY <3>3, Zenon DEF InQueue, In
      <4>2. ASSUME NEW p \in Vcpu, NEW x \in Task, p # q
            PROVE  InQueue(p, x)' <=> InQueue(p, x)
        <5>1. queue'[p] = queue[p]
          BY Zenon, <4>2, <1>3
        <5> QED
          BY Zenon, <5>1 DEF InQueue
      <4> QED
        BY <4>1, <4>2, Zenon
    <3>5. \A p \in Vcpu : ~InQueue(p, t)
      <4>1. Holds(v, t)
        BY Zenon, <1>2 DEF Holds
      <4> QED
        BY <4>1, Zenon DEF Inv, OwnInv, OneEntry
    <3>6. /\ Counted /\ pc[v] = "Enqueue" /\ readyTaskCnt' = readyTaskCnt
          /\ \A u \in Vcpu : u # v => pc'[u] = pc[u]
      BY <1>3 DEF WakeInv
    <3> QED
      BY <3>1, <3>4, <3>5, <3>6, CountedEnqueue, Zenon
  <2> QED
    BY Zenon, <2>1, <2>2
<1> QED
  BY <1>4, <1>5, <1>6, <1>7, <1>8, Zenon DEF WakeInv

(* The count follows; the caller still announces the task. *)
LEMMA IncReadyTaskCountWake ==
    ASSUME Inv, WakeInv, NEW v \in Vcpu, IncReadyTaskCount(v) PROVE WakeInv'
<1>1. /\ pc[v] = "IncReady" /\ pc'[v] = "ReadState"
      /\ UNCHANGED <<queue, workingTaskReady, retNext, state, vcpuId, idx,
                     eventfd, life, queueId>>
      /\ \A u \in Vcpu : u # v => pc'[u] = pc[u]
      /\ readyTaskCnt' = readyTaskCnt + 1
  BY Zenon, Shapes DEF IncReadyTaskCount, Goto, queueVars, wakeVars, taskVars,
     getVars, argVars
<1>2. StateWaiting'
  BY Zenon, <1>1, Vcpus DEF WakeInv, StateWaiting, Idling
<1>3. Told'
  <2> SUFFICES ASSUME NEW u \in Worker, PastOwn(u)',
                      (queue[u] # <<>> \/ workingTaskReady[u])'
               PROVE  (eventfd[u] \/ Announced(u))'
    BY Zenon DEF Told
  <2>1. PastOwn(u)
    BY <1>1, Vcpus DEF PastOwn, Idling
  <2>2. eventfd[u] \/ Announced(u)
    BY <2>1, <1>1, Zenon DEF WakeInv, Told
  <2> QED
    BY <2>2, <1>1 DEF Announced
<1>4. Served'
  <2>1. v # 0 => v \in Worker /\ ~Asleep(v)'
    BY Zenon, <1>1, Vcpus DEF Asleep, Idling
  <2> QED
    BY Zenon, <2>1, <1>1 DEF Served
<1>5. Homes'
  <2>1. pc'[0] \in {"Enqueue", "IncReady", "ReadState"} => vcpuId'[0] # 0
    BY Zenon, <1>1, Vcpus DEF WakeInv, Homes
  <2>2. \A u \in Vcpu : pc'[u] # "Steal" => idx'[u] = 0
    BY Zenon, <1>1 DEF WakeInv, Homes
  <2> QED
    BY <2>1, <2>2, <1>1, Zenon DEF WakeInv, Homes
<1>6. Counted'
  BY <1>1, CountedDone DEF WakeInv, Counting
<1> QED
  BY <1>2, <1>3, <1>4, <1>5, <1>6, Zenon DEF WakeInv

(* A worker that is past its own look is Waiting, so the reader of its     *)
(* state writes its eventfd.                                               *)
LEMMA ReadStateWake ==
    ASSUME Inv, WakeInv, NEW v \in Vcpu, ReadState(v) PROVE WakeInv'
<1>0. PICK q \in Vcpu : q = vcpuId[v]
  BY Zenon, Shapes
<1>1. /\ pc[v] = "ReadState" /\ pc'[v] \in Callers \cup {"WakeOne"}
      /\ UNCHANGED <<queue, workingTaskReady, readyTaskCnt, retNext, state,
                     idx, life, queueId>>
      /\ \A u \in Vcpu : u # v => pc'[u] = pc[u] /\ vcpuId'[u] = vcpuId[u]
      /\ \A u \in Vcpu : eventfd[u] => eventfd'[u]
      /\ q # 0 /\ state[q] = "Waiting" => eventfd'[q]
  BY SMTT(30), Z3T(30), <1>0, Shapes, Place DEF ReadState, Goto, Wakeup,
     WakeNext, ReturnScheduleQ,
     InScheduleQ, queueVars, wakeVars, taskVars, getVars
<1>2. pc'[v] \notin Idling \cup Counting \cup {"LoadReady", "Steal", "Enqueue",
                                               "IncReady", "ReadState"}
  BY Zenon, <1>1 DEF Idling, Counting, Callers
<1>3. StateWaiting'
  BY Zenon, <1>1, <1>2, Vcpus DEF WakeInv, StateWaiting
<1>4. Told'
  <2> SUFFICES ASSUME NEW u \in Worker, PastOwn(u)',
                      (queue[u] # <<>> \/ workingTaskReady[u])'
               PROVE  (eventfd[u] \/ Announced(u))'
    BY Zenon DEF Told
  <2>1. u # v /\ PastOwn(u)
    BY Zenon, <1>1, <1>2, Vcpus DEF PastOwn
  <2>2. eventfd[u] \/ Announced(u)
    BY <2>1, <1>1, Zenon DEF WakeInv, Told
  <2>3. state[u] = "Waiting"
    BY <2>1, Zenon DEF WakeInv, StateWaiting, PastOwn
  <2>4. CASE u = q
    BY ZenonT(40), <2>3, <2>4, <1>1, Vcpus
  <2>5. CASE u # q
    BY ZenonT(40), <2>2, <2>5, <1>0, <1>1, Vcpus DEF Announced
  <2> QED
    BY <2>4, <2>5
<1>5. Served'
  <2>1. v # 0 => v \in Worker /\ ~Asleep(v)'
    BY <1>2, Vcpus DEF Asleep
  <2>2. CASE v = 0
    <3>1. q \in Worker /\ q # v
      BY Zenon, <2>2, <1>0, <1>1, Vcpus DEF WakeInv, Homes
    <3>2. Asleep(q)' => Asleep(q) /\ ~eventfd'[q]
      BY <3>1, <1>1 DEF Asleep
    <3>3. Asleep(q) => state[q] = "Waiting"
      BY <3>1, Zenon DEF WakeInv, StateWaiting, Asleep
    <3> QED
      BY <3>1, <3>2, <3>3, <1>1, Vcpus, Zenon DEF Served
  <2> QED
    BY Zenon, <2>1, <2>2 DEF Served
<1>6. Homes'
  <2>1. pc'[0] \in {"Enqueue", "IncReady", "ReadState"} => vcpuId'[0] # 0
    BY Zenon, <1>1, <1>2, Vcpus DEF WakeInv, Homes
  <2>2. \A u \in Vcpu : pc'[u] # "Steal" => idx'[u] = 0
    BY <1>1 DEF WakeInv, Homes
  <2> QED
    BY <2>1, <2>2, <1>1, Zenon DEF WakeInv, Homes
<1>7. Counted'
  <2>1. Uncounted(v)
    BY Zenon, <1>1, <1>2 DEF Uncounted, Counting
  <2> QED
    BY Zenon, <2>1, CountedSame DEF WakeInv
<1> QED
  BY <1>3, <1>4, <1>5, <1>6, <1>7, Zenon DEF WakeInv

(* A step of a worker on its way to sleep: it has found nothing of its own, *)
(* and it does not fall asleep as the last one while queue 0 has a task.    *)
Drowsy(v) ==
    /\ UNCHANGED <<queue, workingTaskReady, eventfd, state, vcpuId, life,
                   queueId>>
    /\ \A u \in Vcpu : u # v => /\ pc'[u] = pc[u] /\ idx'[u] = idx[u]
                                /\ retNext'[u] = retNext[u]
    /\ pc[v] \notin {"IncReady", "ReadState"}
    /\ pc'[v] # "Steal" => idx'[v] = 0
    /\ pc'[v] \in Idling \/ retNext'[v] \in Sleepy => state[v] = "Waiting"
    /\ PastOwn(v)' => PastOwn(v) \/ (queue[v] = <<>> /\ ~workingTaskReady[v])
    /\ queue[0] # <<>> /\ Asleep(v)' => \/ Asleep(v)
                                        \/ \E a \in Worker \ {v} : ~Asleep(a)
                                        \/ pc[0] = "IncReady"

LEMMA DrowsyWake ==
    ASSUME TypeOK, WakeInv, NEW v \in Worker, Drowsy(v)
    PROVE  StateWaiting' /\ Told' /\ Served' /\ Homes'
<1>1. /\ UNCHANGED <<queue, workingTaskReady, eventfd, state, vcpuId, life,
                     queueId>>
      /\ \A u \in Vcpu : u # v => /\ pc'[u] = pc[u] /\ idx'[u] = idx[u]
                                  /\ retNext'[u] = retNext[u]
  BY DEF Drowsy
<1>2. \A u \in Worker : u # v => PastOwn(u)' = PastOwn(u) /\ Asleep(u)' = Asleep(u)
  BY <1>1, Vcpus, Zenon DEF PastOwn, Asleep
<1>3. StateWaiting'
  BY Zenon, <1>1, Vcpus DEF WakeInv, StateWaiting, Drowsy
<1>4. Told'
  <2> SUFFICES ASSUME NEW u \in Worker, PastOwn(u)',
                      (queue[u] # <<>> \/ workingTaskReady[u])'
               PROVE  (eventfd[u] \/ Announced(u))'
    BY Zenon DEF Told
  <2>1. PastOwn(u)
    BY <1>1, <1>2, Zenon DEF Drowsy
  <2>2. eventfd[u] \/ Announced(u)
    BY <2>1, <1>1, Zenon DEF WakeInv, Told
  <2> QED
    BY <2>2, <1>1 DEF Announced, Drowsy
<1>5. Served'
  <2> SUFFICES ASSUME queue[0] # <<>>, \A u \in Worker : Asleep(u)'
               PROVE  pc'[0] \in {"IncReady", "ReadState"}
    BY <1>1, Zenon DEF Served
  <2>1. Asleep(v) \/ pc[0] = "IncReady"
    BY <1>2, Zenon DEF Drowsy
  <2>2. pc[0] \in {"IncReady", "ReadState"}
    BY <2>1, <1>2, Zenon DEF WakeInv, Served
  <2> QED
    BY Zenon, <2>2, <1>1, Vcpus
<1>6. Homes'
  <2>1. pc'[0] \in {"Enqueue", "IncReady", "ReadState"} => vcpuId'[0] # 0
    BY Zenon, <1>1, Vcpus DEF WakeInv, Homes
  <2>2. \A u \in Vcpu : pc'[u] # "Steal" => idx'[u] = 0
    BY Zenon, <1>1 DEF WakeInv, Homes, Drowsy
  <2> QED
    BY <2>1, <2>2, <1>1, Zenon DEF WakeInv, Homes
<1> QED
  BY ZenonT(40), <1>3, <1>4, <1>5, <1>6

(* VcpuWait between its two looks at the queues. *)
LEMMA ContainsItemWake ==
    ASSUME Inv, WakeInv, NEW v \in Worker, ContainsItem(v) PROVE WakeInv'
<1>1. CASE pc'[v] = "MaskSet"
  <2>1. Drowsy(v) /\ Uncounted(v)
    BY Zenon, <1>1, Vcpus, Place, Shapes DEF ContainsItem, Goto, Drowsy,
       Uncounted,
       Counting, Idling, PastOwn, Asleep, queueVars, wakeVars, taskVars,
       getVars, argVars
  <2> QED
    BY Zenon, <2>1, Vcpus, DrowsyWake, CountedSame DEF WakeInv, Inv, LocalInv
<1>2. CASE pc'[v] # "MaskSet"
  <2>1. Moves(v) /\ Uncounted(v)
    BY ZenonT(40), <1>2, Vcpus, Place, Shapes DEF ContainsItem, Goto, Moves,
       Uncounted,
       Counting, Idling, Sleepy, InScheduleQ, InGetNext, NoRet, queueVars,
       wakeVars, taskVars, getVars, argVars
  <2> QED
    BY Zenon, <2>1, Vcpus, MovesWake, CountedSame DEF WakeInv, Inv, LocalInv
<1> QED
  BY Zenon, <1>1, <1>2

LEMMA MaskSetWake ==
    ASSUME Inv, WakeInv, NEW v \in Worker, MaskSet(v) PROVE WakeInv'
<1>1. CASE v \notin vcpuWaitMask
  <2>1. Drowsy(v) /\ Uncounted(v)
    BY ZenonT(40), <1>1, Vcpus, Place, Shapes DEF MaskSet, Goto, Drowsy,
       Uncounted,
       Counting, Idling, PastOwn, Asleep, queueVars, taskVars, argVars
  <2> QED
    BY <2>1, Vcpus, DrowsyWake, CountedSame DEF WakeInv, Inv, LocalInv
<1>2. CASE v \in vcpuWaitMask
  <2>1. Moves(v) /\ Uncounted(v)
    BY ZenonT(40), <1>2, Vcpus, Place, Shapes DEF MaskSet, Goto, CallGetNext,
       Moves,
       Uncounted, Counting, Idling, Sleepy, queueVars, taskVars, argVars
  <2> QED
    BY <2>1, Vcpus, MovesWake, CountedSame DEF WakeInv, Inv, LocalInv
<1> QED
  BY ZenonT(40), <1>1, <1>2

(* TaskQueue::Next: a task is found, or v has nothing of its own. *)
LEMMA NextTaskWake ==
    ASSUME Inv, WakeInv, NEW v \in Worker, NextTask(v) PROVE WakeInv'
<1>0. v \in Vcpu /\ pc[v] = "Next" /\ queue[v] \in Seq(Task)
  BY Zenon, Vcpus, Shapes DEF NextTask, TaskSeq
<1>1. retNext[v] \in RetNexts \ {NoRet}
  BY Zenon, <1>0, Place, Shapes DEF InScheduleQ, InGetNext
<1>2. CASE workingTaskReady[v]
  <2>0. AfterSome[retNext[v]] \in SomePcs
    BY ZenonT(40), <1>1, After
  <2>1. Moves(v) /\ Uncounted(v)
    BY SMTT(30), Z3T(30), <1>0, <1>2, <2>0, Vcpus, Place, Shapes
       DEF NextTask, GetNextSome, Goto,
       Moves, Uncounted, Counting, Idling, Sleepy, SomePcs, NoRet, wakeVars,
       taskVars, argVars
  <2> QED
    BY Zenon, <1>0, <2>1, MovesWake, CountedSame DEF WakeInv, Inv, LocalInv
<1>3. CASE ~workingTaskReady[v] /\ queue[v] # <<>>
  <2>1. /\ queue' = [queue EXCEPT ![v] = Tail(@)] /\ pc'[v] = "DecNext"
        /\ UNCHANGED readyTaskCnt
        /\ \A u \in Vcpu : u # v => pc'[u] = pc[u] /\ queue'[u] = queue[u]
    BY ZenonT(40), <1>0, <1>3, Shapes DEF NextTask, Goto
  <2>2. Moves(v)
    BY SMTT(30), Z3T(30), <1>0, <1>3, <2>1, Vcpus, Place, Shapes
       DEF NextTask, Goto, Moves,
       Idling, Sleepy, wakeVars, taskVars, argVars
  <2>3. PICK t \in Task : t = Head(queue[v])
    BY SMTT(30), Z3T(30), <1>0, <1>3
  <2>4. /\ \A x : In(queue'[v], x) <=> In(queue[v], x) /\ x # t
        /\ In(queue[v], t)
    <3>1. Distinct(queue[v])
      BY <1>0, Zenon DEF Inv, OwnInv, OneEntry
    <3>2. queue'[v] = Tail(queue[v])
      BY Zenon, <1>0, <2>1, Shapes
    <3> QED
      BY ZenonT(40), <1>0, <1>3, <2>3, <3>1, <3>2, TailIn
  <2>5. InQueue(v, t)
    BY <2>4, Zenon DEF InQueue, In
  <2>6. \A p \in Vcpu, x \in Task : InQueue(p, x)' <=> InQueue(p, x) /\ x # t
    <3>1. \A x : InQueue(v, x)' <=> InQueue(v, x) /\ x # t
      BY <2>4, Zenon DEF InQueue, In
    <3>2. ASSUME NEW p \in Vcpu, NEW x \in Task, p # v
          PROVE  InQueue(p, x)' <=> InQueue(p, x) /\ x # t
      <4>1. queue'[p] = queue[p]
        BY Zenon, <3>2, <2>1
      <4>2. InQueue(p, x)' <=> InQueue(p, x)
        BY <4>1 DEF InQueue
      <4>3. ~InQueue(p, t)
        BY <1>0, <2>5, <3>2, Zenon DEF Inv, OwnInv, QueueIds
      <4> QED
        BY <4>2, <4>3, Zenon
    <3> QED
      BY <3>1, <3>2, Zenon
  <2>7. Counted /\ pc[v] \notin Counting
    BY <1>0 DEF WakeInv, Counting
  <2>8. Counted'
    BY <1>0, <2>1, <2>5, <2>6, <2>7, CountedTake, Zenon
  <2> QED
    BY Zenon, <1>0, <2>2, <2>8, MovesWake DEF WakeInv, Inv, LocalInv
<1>4. CASE ~workingTaskReady[v] /\ queue[v] = <<>>
  <2>1. Drowsy(v) /\ Uncounted(v)
    BY SMTT(30), Z3T(30), <1>0, <1>4, Place, Shapes DEF NextTask, Goto,
       Drowsy, Uncounted,
       Counting, Idling, PastOwn, Asleep, queueVars, getVars, wakeVars,
       taskVars, argVars
  <2> QED
    BY ZenonT(40), <1>0, <2>1, DrowsyWake, CountedSame DEF WakeInv, Inv,
       LocalInv
<1> QED
  BY Zenon, <1>2, <1>3, <1>4

LEMMA DecReadyTaskCountWake ==
    ASSUME Inv, WakeInv, NEW v \in Worker, DecReadyTaskCount(v) PROVE WakeInv'
<1>0. /\ v \in Vcpu /\ pc[v] \in {"DecNext", "DecSteal"}
      /\ UNCHANGED queue /\ readyTaskCnt' = readyTaskCnt - 1
  BY Zenon, Vcpus DEF DecReadyTaskCount, queueVars
<1>1. AfterSome[retNext[v]] \in SomePcs
  BY ZenonT(40), <1>0, Place, Shapes, After DEF InScheduleQ, InGetNext
<1>2. Moves(v) /\ pc'[v] \notin Counting
  BY SMTT(30), Z3T(30), <1>0, <1>1, Vcpus, Place, Shapes
     DEF DecReadyTaskCount, GetNextSome, Goto,
     Moves, Counting, Idling, Sleepy, SomePcs, NoRet, queueVars, wakeVars,
     taskVars, argVars
<1>3. Counted'
  BY Zenon, <1>0, <1>2, CountedDone DEF Moves, Counting, WakeInv
<1> QED
  BY Zenon, <1>0, <1>2, <1>3, MovesWake DEF WakeInv, Inv, LocalInv

(* The count is zero although queue 0 has a task: somebody is about to     *)
(* count a task.                                                           *)
LEMMA SomeoneEnters ==
    ASSUME Counted, readyTaskCnt = 0, queue[0] # <<>>, queue[0] \in Seq(Task)
    PROVE  \E a \in Vcpu : pc[a] = "IncReady"
<1>1. IsFiniteSet(Entering) /\ IsFiniteSet(Leaving)
  BY Vcpus, FS_Subset, Zenon DEF Entering, Leaving
<1>2. Cardinality(Queued) \in Nat /\ Cardinality(Leaving) \in Nat
  BY <1>1, FS_CardinalityType, Zenon DEF Counted
<1>3. InQueue(0, queue[0][1]) /\ queue[0][1] \in Task
  BY DEF InQueue
<1>4. Queued # {}
  BY <1>3, Vcpus, Zenon DEF Queued
<1>5. Cardinality(Queued) # 0
  BY <1>4, FS_EmptySet, Zenon DEF Counted
<1>6. Cardinality(Entering) # 0
  BY <1>2, <1>5 DEF Counted
<1>7. Entering # {}
  BY <1>6, FS_EmptySet, Zenon
<1> QED
  BY <1>7 DEF Entering

(* Scheduler::Steal. *)
LEMMA LoadReadyTaskCntWake ==
    ASSUME Inv, WakeInv, NEW v \in Worker, LoadReadyTaskCnt(v) PROVE WakeInv'
<1>0. v \in Vcpu /\ pc[v] = "LoadReady" /\ queue[0] \in Seq(Task)
  BY Zenon, Vcpus, Shapes DEF LoadReadyTaskCnt, TaskSeq
<1>1. retNext[v] \in RetNexts \ {NoRet}
  BY Zenon, <1>0, Place, Shapes DEF InScheduleQ, InGetNext
<1>2. Uncounted(v)
  BY ZenonT(40), <1>0, <1>1, After, Shapes DEF LoadReadyTaskCnt, GetNextNone,
     Goto,
     Uncounted, Counting, Idling, queueVars
<1>5. /\ UNCHANGED <<queue, workingTaskReady, eventfd, state, vcpuId, life,
                     queueId, idx>>
      /\ \A u \in Vcpu : u # v => pc'[u] = pc[u] /\ retNext'[u] = retNext[u]
      /\ idx[v] = 0
      /\ retNext[v] \in Sleepy => state[v] = "Waiting" /\ PastOwn(v)
  BY Zenon, <1>0, Vcpus, Place, Shapes DEF LoadReadyTaskCnt, GetNextNone, Goto,
     PastOwn, queueVars, wakeVars, taskVars, argVars
<1>3. CASE readyTaskCnt = 0
  <2>1. queue[0] # <<>> => \/ \E a \in Worker \ {v} : ~Asleep(a)
                           \/ pc[0] = "IncReady"
    <3> SUFFICES ASSUME queue[0] # <<>> PROVE \/ \E a \in Worker \ {v} : ~Asleep(a)
                                              \/ pc[0] = "IncReady"
      BY Zenon
    <3>1. PICK a \in Vcpu : pc[a] = "IncReady"
      BY Zenon, <1>0, <1>3, SomeoneEnters DEF WakeInv
    <3>2. a # v /\ ~Asleep(a)
      BY Zenon, <1>0, <3>1 DEF Asleep, Idling
    <3> QED
      BY Zenon, <3>1, <3>2, Vcpus
  <2>2. /\ retNext[v] \in Sleepy => AfterNone[retNext[v]] \in Idling
        /\ retNext[v] \notin Sleepy =>
               AfterNone[retNext[v]] \in {"Search", "VcpuWait", "Input1"}
    BY Zenon, <1>1, After
  <2>3. pc'[v] = AfterNone[retNext[v]] /\ retNext'[v] = NoRet
    BY Zenon, <1>0, <1>3, Shapes DEF LoadReadyTaskCnt, GetNextNone, Goto
  <2>4. /\ pc'[v] \in Idling => retNext[v] \in Sleepy
        /\ pc'[v] \notin {"LoadReady", "Steal"} /\ retNext'[v] \notin Sleepy
    BY Zenon, <2>2, <2>3 DEF Idling, Sleepy, NoRet
  <2>5. PastOwn(v)' => PastOwn(v)
    BY Zenon, <1>5, <2>4 DEF PastOwn
  <2>6. Drowsy(v)
    BY ZenonT(40), <1>0, <1>5, <2>1, <2>4, <2>5 DEF Drowsy
  <2> QED
    BY Zenon, <1>0, <1>2, <2>6, DrowsyWake, CountedSame DEF WakeInv, Inv,
       LocalInv
<1>4. CASE readyTaskCnt # 0
  <2>1. /\ pc'[v] = "Steal" /\ idx'[v] = 0 /\ UNCHANGED retNext
    BY Zenon, <1>0, <1>4, Place, Shapes DEF LoadReadyTaskCnt, Goto
  <2>2. ~Asleep(v)'
    BY SMTT(30), Z3T(30), <2>1, SchedulerAssumption DEF Asleep, Idling, Worker
  <2>3. PastOwn(v)' => PastOwn(v)
    BY Zenon, <1>5, <2>1 DEF PastOwn, Idling
  <2>4. Drowsy(v)
    BY Zenon, <1>0, <1>5, <2>1, <2>2, <2>3 DEF Drowsy, Idling
  <2> QED
    BY <1>0, <1>2, <2>4, DrowsyWake, CountedSame DEF WakeInv, Inv, LocalInv
<1> QED
  BY Zenon, <1>3, <1>4

(* The attempt that looks at queue 0 for the second time. *)
LEMMA VictimZero ==
    ASSUME NEW v \in Worker, NEW i \in Vcpu
    PROVE  /\ i # 0 /\ Victim(v, i) = 0 => i = vcpuCnt - v
           /\ i = vcpuCnt - v => Victim(v, i) = 0
  BY SMTT(30), Z3T(30), SchedulerAssumption DEF Victim, Worker, Vcpu

(* What queue 0 holds is saved, so that look fails only because somebody   *)
(* else has the lock, and that one is awake.                               *)
LEMMA StealBusy ==
    ASSUME Inv, WakeInv, NEW v \in Worker, pc[v] = "Steal",
           queue[0] # <<>>, StealNothing(v, 0)
    PROVE  \E a \in Worker \ {v} : ~Asleep(a)
<1>1. queue[0] \in Seq(Task) /\ currentTask[0] = NoTask /\ NoTask \notin Task
  BY Zenon, Vcpus, Shapes, SchedulerAssumption DEF Inv, LocalInv, Local,
     TaskSeq
<1>2. PICK t \in Task : t = queue[0][1] /\ 1 \in 1 .. Len(queue[0])
  BY SMTT(30), Z3T(30), <1>1
<1>3. InQueue(0, t)
  BY Zenon, <1>2 DEF InQueue
<1>4. queueId[t] = 0
  BY <1>3, Vcpus, Zenon DEF Inv, OwnInv, QueueIds
<1>5. ready[t]
  BY <1>1, <1>4, Zenon DEF Inv, OwnInv, SavedOrCurrent
<1>6. LockBusy(v, 0)
  BY <1>2, <1>5, Zenon DEF StealNothing
<1>7. PICK a \in Vcpu \ {v} :
          \/ pc[a] = "Enqueue" /\ vcpuId[a] = 0
          \/ pc[a] \in {"Next", "Swap", "Search"} /\ a = 0
          \/ pc[a] = "Steal" /\ Victim(a, idx[a]) = 0
  BY <1>6, Zenon DEF LockBusy
<1>8. pc[0] \notin {"Next", "Swap", "Search", "Steal"}
  <2>1. Local(0)
    BY Zenon, Vcpus DEF Inv, LocalInv
  <2> QED
    BY Zenon, <2>1 DEF Local, At, InScheduleQ
<1>9. a \in Worker
  BY Zenon, <1>7, <1>8, Vcpus DEF WakeInv, Homes
<1>10. CASE pc[a] = "Enqueue"
  BY Zenon, <1>7, <1>9, <1>10 DEF Asleep, Idling
<1>11. CASE pc[a] = "Steal" /\ Victim(a, idx[a]) = 0
  <2>1. idx[a] \in Vcpu
    BY Zenon, <1>9, Vcpus, Shapes
  <2>2. idx[a] = 0 \/ idx[a] = vcpuCnt - a
    BY Zenon, <1>9, <1>11, <2>1, VictimZero
  <2>3. ~(idx[a] > vcpuCnt - a)
    BY SMTT(30), Z3T(30), <1>9, <2>2, SchedulerAssumption DEF Worker
  <2>4. ~Asleep(a)
    BY Zenon, <1>11, <2>3 DEF Asleep, Idling
  <2> QED
    BY Zenon, <1>7, <1>9, <2>4
<1> QED
  BY Zenon, <1>7, <1>9, <1>10, <1>11, Vcpus

LEMMA StealWake ==
    ASSUME Inv, WakeInv, NEW v \in Worker, Steal(v) PROVE WakeInv'
<1>0. v \in Vcpu /\ pc[v] = "Steal" /\ idx[v] \in Vcpu
  BY Zenon, Vcpus, Shapes DEF Steal
<1>1. PICK q \in Vcpu : q = Victim(v, idx[v])
  BY SMTT(30), Z3T(30), <1>0, SchedulerAssumption DEF Victim, Vcpu
<1>2. retNext[v] \in RetNexts \ {NoRet}
  BY Zenon, <1>0, Place, Shapes DEF InScheduleQ, InGetNext
<1>3. /\ UNCHANGED <<workingTaskReady, eventfd, state, vcpuId, life, queueId,
                     readyTaskCnt>>
      /\ \A u \in Vcpu : u # v => /\ pc'[u] = pc[u] /\ idx'[u] = idx[u]
                                  /\ retNext'[u] = retNext[u]
      /\ retNext[v] \in Sleepy => state[v] = "Waiting" /\ PastOwn(v)
      /\ \A t \in Task : life[t] = "Waiting" => queueId[t] # 0
  BY ZenonT(40), <1>0, Vcpus, Place, Shapes DEF Steal, GetNextNone, Goto,
     PastOwn, getVars,
     wakeVars, taskVars, argVars
<1>4. CASE StealFrom(v, q) /\ Goto(v, "DecSteal")
           /\ idx' = [idx EXCEPT ![v] = 0] /\ UNCHANGED retNext
  <2>1. PICK i \in 1 .. Len(queue[q]) :
            queue' = [queue EXCEPT ![q] =
                         SubSeq(@, i + 1, Len(@)) \o SubSeq(@, 1, i - 1)]
    BY Zenon, <1>4 DEF StealFrom
  <2>2. /\ queue[q] \in Seq(Task) /\ queue'[q] = Rotate(queue[q], i)
        /\ \A u \in Vcpu : u # q => queue'[u] = queue[u]
    BY Zenon, <2>1, Shapes DEF Rotate, TaskSeq
  <2>3. PICK t \in Task : t = queue[q][i]
    BY <2>2
  <2>4. \A x : In(queue'[q], x) <=> In(queue[q], x) /\ x # t
    <3>1. Distinct(queue[q])
      BY Zenon DEF Inv, OwnInv, OneEntry
    <3> QED
      BY <2>2, <2>3, <3>1, RotateIn
  <2>5. InQueue(q, t)
    BY <2>3 DEF InQueue
  <2>6. \A p \in Vcpu, x \in Task : InQueue(p, x)' <=> InQueue(p, x) /\ x # t
    <3>1. \A x : InQueue(q, x)' <=> InQueue(q, x) /\ x # t
      BY <2>4, Zenon DEF InQueue, In
    <3>2. ASSUME NEW p \in Vcpu, NEW x \in Task, p # q
          PROVE  InQueue(p, x)' <=> InQueue(p, x) /\ x # t
      <4>1. queue'[p] = queue[p]
        BY Zenon, <3>2, <2>2
      <4>2. InQueue(p, x)' <=> InQueue(p, x)
        BY Zenon, <4>1 DEF InQueue
      <4>3. ~InQueue(p, t)
        BY <2>5, <3>2, Zenon DEF Inv, OwnInv, QueueIds
      <4> QED
        BY <4>2, <4>3, Zenon
    <3> QED
      BY <3>1, <3>2, Zenon
  <2>7. pc'[v] = "DecSteal" /\ idx'[v] = 0 /\ retNext'[v] = retNext[v]
    BY Zenon, <1>0, <1>4, Shapes DEF Goto
  <2>8. Counted'
    <3>1. Counted /\ pc[v] \notin Counting
      BY Zenon, <1>0 DEF WakeInv, Counting
    <3> QED
      BY <1>0, <1>3, <2>5, <2>6, <2>7, <3>1, CountedTake, Zenon
  <2>9. queue[q] # <<>>
    BY SMTT(30), Z3T(30), <2>2
  <2>10. Moves(v)
    BY Zenon, <1>0, <1>3, <2>2, <2>7, <2>9, Vcpus DEF Moves, Idling
  <2> QED
    BY Zenon, <1>0, <2>8, <2>10, MovesWake DEF WakeInv, Inv, LocalInv
<1>5. CASE StealNothing(v, q) /\ idx[v] < vcpuCnt - 1
           /\ idx' = [idx EXCEPT ![v] = @ + 1] /\ UNCHANGED <<pc, queue, getVars>>
  <2>1. idx'[v] = idx[v] + 1
    BY Zenon, <1>0, <1>5, Shapes
  <2>2. queue[0] # <<>> /\ Asleep(v)' =>
            Asleep(v) \/ \E a \in Worker \ {v} : ~Asleep(a)
    <3> SUFFICES ASSUME queue[0] # <<>>, Asleep(v)', ~Asleep(v)
                 PROVE  \E a \in Worker \ {v} : ~Asleep(a)
      BY Zenon
    <3>1. idx[v] + 1 > vcpuCnt - v /\ ~(idx[v] > vcpuCnt - v)
      BY ZenonT(40), <1>0, <1>3, <1>5, <2>1 DEF Asleep, Idling, getVars
    <3>2. idx[v] = vcpuCnt - v
      BY SMTT(30), Z3T(30), <1>0, <3>1, SchedulerAssumption DEF Worker, Vcpu
    <3>3. q = 0
      BY Zenon, <1>0, <1>1, <3>2, VictimZero
    <3> QED
      BY Zenon, <1>0, <1>5, <3>3, StealBusy
  <2>3. Drowsy(v)
    BY Zenon, <1>0, <1>3, <1>5, <2>2 DEF Drowsy, Idling, PastOwn, getVars
  <2>4. Uncounted(v)
    BY ZenonT(40), <1>0, <1>3, <1>5 DEF Uncounted, Counting
  <2> QED
    BY Zenon, <1>0, <2>3, <2>4, DrowsyWake, CountedSame DEF WakeInv, Inv,
       LocalInv
<1>6. CASE StealNothing(v, q) /\ idx[v] = vcpuCnt - 1 /\ GetNextNone(v)
           /\ idx' = [idx EXCEPT ![v] = 0] /\ UNCHANGED <<queue, next>>
  <2>1. pc'[v] = AfterNone[retNext[v]] /\ retNext'[v] = NoRet /\ idx'[v] = 0
    BY Zenon, <1>0, <1>6, Shapes DEF GetNextNone, Goto
  <2>2. /\ pc'[v] \in Idling => retNext[v] \in Sleepy
        /\ pc'[v] \notin Counting \cup {"LoadReady", "Steal"}
        /\ retNext'[v] \notin Sleepy
    BY Zenon, <1>2, <2>1, After DEF Idling, Sleepy, NoRet, Counting
  <2>3. PastOwn(v)' => PastOwn(v)
    BY Zenon, <1>3, <2>2 DEF PastOwn
  <2>4. queue[0] # <<>> /\ Asleep(v)' =>
            Asleep(v) \/ \E a \in Worker \ {v} : ~Asleep(a)
    <3> SUFFICES ASSUME queue[0] # <<>>, Asleep(v)', ~Asleep(v)
                 PROVE  \E a \in Worker \ {v} : ~Asleep(a)
      OBVIOUS
    <3>1. ~(idx[v] > vcpuCnt - v)
      BY Zenon, <1>0, <1>3, <2>2 DEF Asleep
    <3>2. idx[v] = vcpuCnt - v
      BY SMTT(30), Z3T(30), <1>6, <3>1, SchedulerAssumption DEF Worker
    <3>3. q = 0
      BY <1>0, <1>1, <3>2, VictimZero
    <3> QED
      BY ZenonT(40), <1>0, <1>6, <3>3, StealBusy
  <2>5. Drowsy(v)
    BY Zenon, <1>0, <1>3, <1>6, <2>1, <2>2, <2>3, <2>4 DEF Drowsy
  <2>6. Uncounted(v)
    BY Zenon, <1>0, <1>3, <1>6, <2>2 DEF Uncounted, Counting
  <2> QED
    BY Zenon, <1>0, <2>5, <2>6, DrowsyWake, CountedSame DEF WakeInv, Inv,
       LocalInv
<1> QED
  BY <1>1, <1>4, <1>5, <1>6, Zenon DEF Steal

-----------------------------------------------------------------------------
LEMMA WakeInit == ASSUME Init PROVE WakeInv
<1>1. StateWaiting /\ Told /\ Served /\ Homes
  BY Zenon, Vcpus DEF Init, StateWaiting, Told, PastOwn, Served, Homes,
     Idling, Sleepy,
     NoRet
<1>2. Queued = {} /\ Leaving = {} /\ Entering = {}
  BY SMTT(30), Z3T(30) DEF Init, Queued, InQueue, Leaving, Entering
<1>3. Counted
  BY <1>2, FS_EmptySet DEF Counted, Init
<1> QED
  BY Zenon, <1>1, <1>3 DEF WakeInv

LEMMA WakeStep == ASSUME Inv, WakeInv, [Next]_vars PROVE WakeInv'
<1>1. CASE UNCHANGED vars
  BY <1>1, ZenonT(40) DEF vars, WakeInv, StateWaiting, Told, PastOwn,
     Announced,
     Served, Asleep, Homes, Counted, Queued, InQueue, Leaving, Entering
<1>2. ASSUME NEW a \in Vcpu, ScheduleStep(a) PROVE WakeInv'
  BY Zenon, <1>2, EnqueueWake, IncReadyTaskCountWake, ReadStateWake,
     WakeOneWake,
     WakeIdleCPUWake, Zenon DEF ScheduleStep
<1>3. ASSUME NEW v \in Worker, WorkerStep(v) PROVE WakeInv'
  <2>1. CASE GetNextStep(v)
    BY ZenonT(40), <2>1, NextTaskWake, DecReadyTaskCountWake,
       LoadReadyTaskCntWake,
       StealWake, SwapWoringTaskWake, SetQueueIdWake, Zenon DEF GetNextStep
  <2>2. CASE SwitchStep(v)
    BY <2>2, ToRunningWake, SwitchWake, SwitchToWaitTaskWake, Zenon
       DEF SwitchStep
  <2>3. CASE WaitStep(v)
    BY <2>3, WaitToSearchWake, WaitTimeoutWake, WaitPollWake, Zenon
       DEF WaitStep
  <2>4. CASE RunStep(v)
    BY <2>4, BlockWake, YieldWake, RunWakeWake, RunCloneWake, ExitWake, Zenon
       DEF RunStep
  <2>5. CASE IdleStep(v)
    BY ZenonT(40), <2>5, BootWake, FreeStackWake, WaitFnInputsWake,
       VcpuWaitWake,
       ContainsItemWake, ToWaitingWake, MaskSetWake, EpollWaitWake,
       ToSearchWake, VcpuWaitMaskClearWake, Zenon DEF IdleStep
  <2> QED
    BY <1>3, <2>1, <2>2, <2>3, <2>4, <2>5, Zenon DEF WorkerStep
<1> QED
  BY <1>1, <1>2, <1>3, IOWakeWake, AQHostInputPushWake, Zenon DEF Next

(* What WakeInv says of parked workers. *)
LEMMA WakeSuffices == ASSUME Inv, WakeInv PROVE NoLostWakeup
<1>1. \A v \in Worker : Parked(v) => PastOwn(v) /\ Asleep(v)
  BY DEF Parked, PastOwn, Asleep, Idling
<1>2. ASSUME NEW v \in Worker, Parked(v), queue[v] # <<>> \/ workingTaskReady[v]
      PROVE  Announced(v)
  BY <1>1, <1>2, Zenon DEF WakeInv, Told, Parked
<1>3. ASSUME \A v \in Worker : Parked(v), pc[0] = "IO", NEW q \in Vcpu
      PROVE  queue[q] = <<>> /\ ~workingTaskReady[q]
  <2>1. CASE q = 0
    <3>1. queue[0] = <<>>
      BY Zenon, <1>1, <1>3 DEF WakeInv, Served
    <3>2. ~workingTaskReady[0]
      BY Zenon, Vcpus DEF Inv, LocalInv, Local
    <3> QED
      BY Zenon, <2>1, <3>1, <3>2
  <2>2. CASE q # 0
    <3>1. ~Announced(q)
      BY <1>3, Vcpus DEF Announced, Parked
    <3> QED
      BY Zenon, <1>2, <1>3, <2>2, <3>1, Vcpus
  <2> QED
    BY Zenon, <2>1, <2>2
<1> QED
  BY <1>2, <1>3, Zenon DEF NoLostWakeup, Announced

=============================================================================
