-------------------------- MODULE QAsyncLockProofs --------------------------
(***************************************************************************)
(* Proofs about QAsyncLock, for any number of tasks: the lock has one      *)
(* holder, and nobody sleeps beside a free lock.                           *)
(***************************************************************************)
EXTENDS QAsyncLock, SequenceTheorems, TLAPS

Registered == {"Wait", "Asleep", "ClearBit", "Interrupted", "Unregister"}

(* Whoever holds the lock or walks its queue is alone.  A task between     *)
(* Register and Unregister is in the queue, which is what Unlock walks.    *)
(* While the lock is free each sleeper has its bit or is still to be       *)
(* visited.                                                                *)
Alone ==
  \A a, b \in Actor :
    pc[a] \in {"Held", "Notify"} /\ pc[b] \in {"Held", "Notify"} => a = b

Flag == locked <=> \E a \in Actor : pc[a] = "Held"

Queued == \A t \in Task : pc[t] \in Registered => t \in Range(queue)

Told ==
  ~locked => \A t \in Task :
    pc[t] \in {"Wait", "Asleep"} =>
      GENERAL_WAITID \in bitmap[t] \/ (~Unguarded /\ t \in Range(walk))

Inv == TypeOK /\ Alone /\ Flag /\ Queued /\ Told

(* Trigger sets one bit of one task. *)
LEMMA TriggerBits ==
  ASSUME WaiterTypeOK, NEW t \in Task, NEW id \in WaiterID, Trigger(t, id)
  PROVE  /\ WaiterTypeOK'
         /\ bitmap'[t] = bitmap[t] \cup {id}
         /\ \A u \in Task : u # t => bitmap'[u] = bitmap[u]
BY DEF WaiterTypeOK, Trigger, WaitState

(* Clear takes one bit of one task. *)
LEMMA ClearBits ==
  ASSUME WaiterTypeOK, NEW t \in Task, NEW id \in WaiterID, Clear(t, id)
  PROVE  /\ WaiterTypeOK'
         /\ bitmap'[t] = bitmap[t] \ {id}
         /\ \A u \in Task : u # t => bitmap'[u] = bitmap[u]
BY DEF WaiterTypeOK, Clear

(* Waiter::Wait and taskMgr::Wait leave the bits alone. *)
LEMMA WaitBits ==
  ASSUME WaiterTypeOK, NEW t \in Task, NEW m \in SUBSET WaiterID,
         \/ \E id \in WaiterID : WaitReturns(t, m, id)
         \/ WaitSleeps(t, m)
         \/ Resume(t)
  PROVE  WaiterTypeOK' /\ bitmap' = bitmap
BY DEF WaiterTypeOK, WaitReturns, WaitSleeps, Resume, WaitState

(* PushBack keeps the entries and adds one. *)
LEMMA PushBackSet ==
  ASSUME NEW q \in Seq(Task), NEW t \in Task
  PROVE  /\ PushBack(q, t) \in Seq(Task)
         /\ Range(q) \cup {t} \subseteq Range(PushBack(q, t))
<1> DEFINE r == Append(q, t)
<1>1. /\ r \in Seq(Task)
      /\ Len(r) = Len(q) + 1
      /\ \A i \in 1..Len(q) : r[i] = q[i]
      /\ r[Len(q) + 1] = t
  BY AppendProperties
<1>2. Len(q) \in Nat /\ DOMAIN q = 1..Len(q) /\ DOMAIN r = 1..Len(r)
  BY <1>1, LenProperties
<1>3. PushBack(q, t) = r
  BY DEF PushBack
<1> HIDE DEF r
<1>4. t \in Range(r)
  BY <1>1, <1>2 DEF Range
<1>5. Range(q) \subseteq Range(r)
  BY <1>1, <1>2 DEF Range
<1> QED
  BY <1>1, <1>3, <1>4, <1>5

(* Remove of a linked entry keeps the others. *)
LEMMA RemoveEntrySet ==
  ASSUME NEW q \in Seq(Task), NEW t \in Task, t \in Range(q)
  PROVE  /\ RemoveEntry(q, t) \in Seq(Task)
         /\ Range(q) \ {t} \subseteq Range(RemoveEntry(q, t))
<1> DEFINE i == CHOOSE j \in DOMAIN q : q[j] = t
           before == SubSeq(q, 1, i - 1)
           after == SubSeq(q, i + 1, Len(q))
           r == before \o after
<1>1. Len(q) \in Nat /\ DOMAIN q = 1..Len(q) /\ \A j \in 1..Len(q) : q[j] \in Task
  BY LenProperties, ElementOfSeq
<1>2. i \in 1..Len(q) /\ q[i] = t
  BY <1>1 DEF Range
<1>3. RemoveEntry(q, t) = r
  BY DEF RemoveEntry
<1> HIDE DEF i
<1>4. /\ before \in Seq(Task)
      /\ Len(before) = i - 1
      /\ \A j \in 1..(i - 1) : before[j] = q[j]
  <2>1. /\ before \in Seq(Task)
        /\ Len(before) = IF 1 <= i - 1 THEN (i - 1) - 1 + 1 ELSE 0
        /\ \A j \in 1..((i - 1) - 1 + 1) : before[j] = q[1 + j - 1]
    <3>1. 1 \in Int /\ i - 1 \in Int /\ \A j \in 1..(i - 1) : q[j] \in Task
      BY <1>1, <1>2
    <3> QED
      BY <3>1, SubSeqProperties
  <2> HIDE DEF before
  <2>2. Len(before) = i - 1
    BY <1>2, <2>1
  <2>3. ASSUME NEW j \in 1..(i - 1)
        PROVE  before[j] = q[j]
    <3>1. j \in 1..((i - 1) - 1 + 1) /\ 1 + j - 1 = j
      BY <1>1, <1>2
    <3> QED
      BY <2>1, <3>1
  <2> QED
    BY <2>1, <2>2, <2>3
<1>5. /\ after \in Seq(Task)
      /\ Len(after) = Len(q) - i
      /\ \A j \in 1..(Len(q) - i) : after[j] = q[i + j]
  <2>1. /\ after \in Seq(Task)
        /\ Len(after) = IF i + 1 <= Len(q) THEN Len(q) - (i + 1) + 1 ELSE 0
        /\ \A j \in 1..(Len(q) - (i + 1) + 1) : after[j] = q[(i + 1) + j - 1]
    <3>1. i + 1 \in Int /\ Len(q) \in Int /\ \A j \in (i + 1)..Len(q) : q[j] \in Task
      BY <1>1, <1>2
    <3> QED
      BY <3>1, SubSeqProperties
  <2> HIDE DEF after
  <2>2. Len(after) = Len(q) - i
    <3>1. Len(q) \in Nat /\ i \in 1..Len(q)
      BY <1>1, <1>2
    <3>2. (IF i + 1 <= Len(q) THEN Len(q) - (i + 1) + 1 ELSE 0) = Len(q) - i
      BY ONLY <3>1
    <3> QED
      BY ONLY <2>1, <3>2
  <2>3. ASSUME NEW j \in 1..(Len(q) - i)
        PROVE  after[j] = q[i + j]
    <3>1. j \in 1..(Len(q) - (i + 1) + 1) /\ (i + 1) + j - 1 = i + j
      BY <1>1, <1>2
    <3>2. after[j] = q[(i + 1) + j - 1]
      BY <2>1, <3>1
    <3> QED
      BY <3>1, <3>2
  <2> QED
    BY <2>1, <2>2, <2>3
<1> HIDE DEF before, after
<1>6. /\ r \in Seq(Task)
      /\ Len(r) = Len(before) + Len(after)
      /\ \A j \in 1..(Len(before) + Len(after)) :
           r[j] = IF j <= Len(before) THEN before[j] ELSE after[j - Len(before)]
  BY <1>4, <1>5, ConcatProperties
<1>7. Len(r) \in Nat /\ DOMAIN r = 1..Len(r)
  BY <1>6, LenProperties
<1> HIDE DEF r
<1>8. ASSUME NEW u \in Range(q), u # t
      PROVE  u \in Range(r)
  <2>1. PICK k \in 1..Len(q) : q[k] = u
    BY <1>1 DEF Range
  <2>2. CASE k < i
    <3>1. k \in 1..Len(r) /\ r[k] = u
      BY <1>1, <1>2, <1>4, <1>5, <1>6, <2>1, <2>2
    <3> QED
      BY <1>7, <3>1 DEF Range
  <2>3. CASE k > i
    <3>1. k - 1 \in 1..Len(r) /\ k - i \in 1..(Len(q) - i)
      BY <1>1, <1>2, <1>4, <1>5, <1>6, <2>1, <2>3
    <3>2. r[k - 1] = after[(k - 1) - Len(before)]
      <4>1. k - 1 \in 1..(Len(before) + Len(after)) /\ ~(k - 1 <= Len(before))
        BY <1>1, <1>2, <1>4, <1>5, <2>1, <2>3
      <4> QED
        BY <1>6, <4>1
    <3>3. r[k - 1] = u
      <4>1. after[k - i] = q[i + (k - i)]
        BY <1>5, <3>1
      <4>2. (k - 1) - Len(before) = k - i /\ i + (k - i) = k
        BY <1>2, <1>4, <2>1
      <4> QED
        BY <2>1, <3>2, <4>1, <4>2
    <3> QED
      BY <1>7, <3>1, <3>3 DEF Range
  <2> QED
    BY <1>1, <1>2, <1>8, <2>1, <2>2, <2>3
<1> QED
  BY <1>3, <1>6, <1>8

(* The walk over a list: its head, then the rest. *)
LEMMA WalkSet ==
  ASSUME NEW q \in Seq(Task), q # <<>>
  PROVE  Range(q) \subseteq {Head(q)} \cup Range(Tail(q))
<1>1. /\ Len(q) \in Nat /\ DOMAIN q = 1..Len(q)
      /\ Tail(q) \in Seq(Task)
      /\ Len(Tail(q)) = Len(q) - 1
      /\ \A i \in 1..Len(Tail(q)) : Tail(q)[i] = q[i + 1]
      /\ Head(q) = q[1]
  BY LenProperties, HeadTailProperties
<1>2. DOMAIN Tail(q) = 1..Len(Tail(q))
  BY <1>1, LenProperties
<1>3. ASSUME NEW k \in 1..Len(q), k # 1
      PROVE  q[k] \in Range(Tail(q))
  <2>1. k - 1 \in 1..Len(Tail(q)) /\ (k - 1) + 1 = k
    BY <1>1, <1>3
  <2>2. Tail(q)[k - 1] = q[k]
    BY <1>1, <2>1
  <2> QED
    BY <1>2, <2>1, <2>2 DEF Range
<1> QED
  BY <1>1, <1>3 DEF Range

-----------------------------------------------------------------------------
(* The initial state satisfies the invariant. *)
LEMMA InvInit == Init => Inv
<1> SUFFICES ASSUME Init PROVE Inv
  OBVIOUS
<1>1. TypeOK
  BY EmptySeq DEF Init, WaiterInit, TypeOK, WaiterTypeOK, WaitState, Pc
<1>2. \A a \in Actor : pc[a] = "Idle"
  BY DEF Init
<1>3. Alone /\ Flag
  BY <1>2 DEF Init, Alone, Flag
<1>4. Queued /\ Told
  BY <1>2 DEF Queued, Told, Registered, Actor
<1> QED
  BY <1>1, <1>3, <1>4 DEF Inv

(* A step of one actor changes only its own place. *)
LEMMA GotoOther ==
  ASSUME TypeOK, NEW a \in Actor, NEW from, NEW to \in Pc, Goto(a, from, to)
  PROVE  /\ pc[a] = from /\ pc'[a] = to
         /\ \A b \in Actor : b # a => pc'[b] = pc[b]
         /\ pc' \in [Actor -> Pc]
BY DEF TypeOK, Goto

-----------------------------------------------------------------------------
(* A task that neither takes nor leaves the lock keeps the invariant when  *)
(* it leaves the others' bits and entries in place, is queued wherever it  *)
(* is registered, and falls asleep only beside a held lock or unchanged.   *)
LEMMA QuietStep ==
  ASSUME Inv, NEW t \in Task,
         NEW from \in Pc \ {"Held", "Notify"}, NEW to \in Pc \ {"Held", "Notify"},
         Goto(t, from, to), UNCHANGED <<locked, walk>>,
         WaiterTypeOK', queue' \in Seq(Task),
         \A u \in Task : u # t => bitmap[u] \subseteq bitmap'[u],
         Range(queue) \ {t} \subseteq Range(queue'),
         to \in Registered => t \in Range(queue'),
         to \in {"Wait", "Asleep"} =>
           locked \/ (from \in {"Wait", "Asleep"} /\ bitmap' = bitmap)
  PROVE  Inv'
<1>1. t \in Actor
  BY DEF Actor
<1>2. /\ pc[t] = from /\ pc'[t] = to
      /\ \A b \in Actor : b # t => pc'[b] = pc[b]
      /\ pc' \in [Actor -> Pc]
  BY <1>1, GotoOther DEF Inv
<1>3. TypeOK'
  BY <1>2 DEF Inv, TypeOK
<1>4. \A b \in Actor : /\ pc'[b] = "Held" <=> pc[b] = "Held"
                       /\ pc'[b] = "Notify" <=> pc[b] = "Notify"
  BY <1>2
<1>5. Alone'
  BY <1>4 DEF Inv, Alone
<1>6. Flag'
  BY <1>4 DEF Inv, Flag
<1>7. Queued'
  BY <1>2 DEF Inv, Queued, Actor
<1>8. Told'
  <2>1. Unguarded' <=> Unguarded
    BY <1>4 DEF Unguarded
  <2>2. SUFFICES ASSUME ~locked', NEW u \in Task, pc'[u] \in {"Wait", "Asleep"}
                 PROVE  GENERAL_WAITID \in bitmap'[u]
                          \/ (~Unguarded' /\ u \in Range(walk'))
    BY DEF Told
  <2>3. pc[u] \in {"Wait", "Asleep"} /\ bitmap[u] \subseteq bitmap'[u]
    BY <1>2, <2>2 DEF Actor
  <2> QED
    BY <2>1, <2>2, <2>3 DEF Inv, Told
<1> QED
  BY <1>3, <1>5, <1>6, <1>7, <1>8 DEF Inv

(* Each step of Lock, Block, Unlock and the signals keeps the invariant. *)
LEMMA InvNext == Inv /\ [Next]_vars => Inv'
<1> SUFFICES ASSUME Inv, [Next]_vars PROVE Inv'
  OBVIOUS
<1> USE DEF Registered
<1>t. WaiterTypeOK /\ queue \in Seq(Task) /\ walk \in Seq(Task)
      /\ locked \in BOOLEAN /\ pc \in [Actor -> Pc]
  BY DEF Inv, TypeOK
<1>p. Pc \ {"Held", "Notify"} = Registered \cup {"Idle", "Try"}
  BY DEF Pc
<1>i. /\ GENERAL_WAITID \in WaiterID /\ INTERRUPT_WAITID \in WaiterID
      /\ BlockMask \in SUBSET WaiterID
  BY DEF WaiterID, BlockMask
<1>1. ASSUME NEW t \in Task, Lock(t) PROVE Inv'
  BY <1>1, <1>t, <1>p, QuietStep DEF Lock, waiterVars, WaiterTypeOK
<1>2. ASSUME NEW t \in Task, Register(t) PROVE Inv'
  <2>1. /\ queue' \in Seq(Task)
        /\ Range(queue) \cup {t} \subseteq Range(queue')
    BY <1>2, <1>t, PushBackSet DEF Register
  <2>2. WaiterTypeOK' /\ \A u \in Task : u # t => bitmap'[u] = bitmap[u]
    BY <1>2, <1>t, <1>i, ClearBits DEF Register
  <2> QED
    BY <1>2, <1>p, <2>1, <2>2, QuietStep DEF Register
<1>3. ASSUME NEW t \in Task, WaitGeneral(t) PROVE Inv'
  <2>1. WaiterTypeOK' /\ bitmap' = bitmap
    BY <1>3, <1>t, <1>i, WaitBits DEF WaitGeneral
  <2> QED
    BY <1>3, <1>t, <1>p, <2>1, QuietStep DEF WaitGeneral, Goto, Inv, Queued
<1>4. ASSUME NEW t \in Task, WaitInterrupt(t) PROVE Inv'
  <2>1. WaiterTypeOK' /\ bitmap' = bitmap
    BY <1>4, <1>t, <1>i, WaitBits DEF WaitInterrupt
  <2> QED
    BY <1>4, <1>t, <1>p, <2>1, QuietStep DEF WaitInterrupt, Goto, Inv, Queued
<1>5. ASSUME NEW t \in Task, Sleep(t) PROVE Inv'
  <2>1. WaiterTypeOK' /\ bitmap' = bitmap
    BY <1>5, <1>t, <1>i, WaitBits DEF Sleep
  <2> QED
    BY <1>5, <1>t, <1>p, <2>1, QuietStep DEF Sleep, Goto, Inv, Queued
<1>6. ASSUME NEW t \in Task, WakeUp(t) PROVE Inv'
  <2>1. WaiterTypeOK' /\ bitmap' = bitmap
    BY <1>6, <1>t, <1>i, WaitBits DEF WakeUp
  <2> QED
    BY <1>6, <1>t, <1>p, <2>1, QuietStep DEF WakeUp, Goto, Inv, Queued
<1>7. ASSUME NEW t \in Task, ClearBit(t) PROVE Inv'
  <2>1. WaiterTypeOK' /\ \A u \in Task : u # t => bitmap'[u] = bitmap[u]
    BY <1>7, <1>t, <1>i, ClearBits DEF ClearBit
  <2> QED
    BY <1>7, <1>t, <1>p, <2>1, QuietStep DEF ClearBit, Goto, Inv, Queued
<1>8. ASSUME NEW t \in Task, SleepFinish(t) PROVE Inv'
  <2>1. WaiterTypeOK' /\ \A u \in Task : bitmap[u] \subseteq bitmap'[u]
    BY <1>8, <1>t, <1>i, TriggerBits DEF SleepFinish
  <2> QED
    BY <1>8, <1>t, <1>p, <2>1, QuietStep DEF SleepFinish, Goto, Inv, Queued
<1>9. ASSUME NEW t \in Task, Unregister(t) PROVE Inv'
  <2>1. t \in Range(queue)
    BY <1>9 DEF Unregister, Goto, Inv, Queued
  <2>2. /\ queue' \in Seq(Task)
        /\ Range(queue) \ {t} \subseteq Range(queue')
    BY <1>9, <1>t, <2>1, RemoveEntrySet DEF Unregister
  <2>3. WaiterTypeOK' /\ \A u \in Task : u # t => bitmap'[u] = bitmap[u]
    BY <1>9, <1>t, <1>i, ClearBits DEF Unregister
  <2> QED
    BY <1>9, <1>p, <2>2, <2>3, QuietStep DEF Unregister
<1>10. ASSUME NEW t \in Task, Take(t) PROVE Inv'
  <2>1. t \in Actor /\ "Held" \in Pc
    BY DEF Actor, Pc
  <2>2. /\ pc[t] = "Try" /\ pc'[t] = "Held"
        /\ \A b \in Actor : b # t => pc'[b] = pc[b]
        /\ pc' \in [Actor -> Pc]
    BY <1>10, <2>1, GotoOther DEF Take, Inv
  <2>3. /\ ~locked /\ locked' /\ locked' \in BOOLEAN /\ Unguarded
        /\ UNCHANGED <<waiterVars, queue, walk>>
    BY <1>10 DEF Take
  <2>4. \A b \in Actor : pc[b] \notin {"Held", "Notify"}
    BY <2>3 DEF Inv, Flag, Unguarded
  <2>5. TypeOK'
    BY <1>t, <2>2, <2>3 DEF TypeOK, WaiterTypeOK, waiterVars
  <2>6. Alone' /\ Flag' /\ Told'
    BY <2>1, <2>2, <2>3, <2>4 DEF Alone, Flag, Told
  <2>7. Queued'
    BY <2>2, <2>3 DEF Inv, Queued, Actor
  <2> QED
    BY <2>5, <2>6, <2>7 DEF Inv
<1>11. ASSUME NEW t \in Task, AsyncBufWrite(t) PROVE Inv'
  <2>1. t \in Actor /\ IO \in Actor /\ t # IO /\ {"Idle", "Held"} \subseteq Pc
    BY IOAssumption DEF Actor, Pc
  <2>2. /\ pc[t] = "Held" /\ pc[IO] = "Idle"
        /\ pc'[t] = "Idle" /\ pc'[IO] = "Held"
        /\ \A b \in Actor \ {t, IO} : pc'[b] = pc[b]
        /\ pc' \in [Actor -> Pc]
    BY <1>11, <1>t, <2>1 DEF AsyncBufWrite
  <2>3. UNCHANGED <<waiterVars, locked, queue, walk>>
    BY <1>11 DEF AsyncBufWrite
  <2>4. \A b \in Actor \ {t} : pc[b] \notin {"Held", "Notify"}
    BY <2>1, <2>2 DEF Inv, Alone
  <2>5. locked
    BY <2>1, <2>2 DEF Inv, Flag
  <2>6. TypeOK'
    BY <1>t, <2>2, <2>3 DEF TypeOK, WaiterTypeOK, waiterVars
  <2>7. Alone' /\ Flag' /\ Told'
    BY <2>1, <2>2, <2>3, <2>4, <2>5 DEF Alone, Flag, Told
  <2>8. Queued'
    BY <2>1, <2>2, <2>3 DEF Inv, Queued, Actor
  <2> QED
    BY <2>6, <2>7, <2>8 DEF Inv
<1>12. ASSUME NEW a \in Actor, Unlock(a) PROVE Inv'
  <2>1. "Notify" \in Pc
    BY DEF Pc
  <2>2. /\ pc[a] = "Held" /\ pc'[a] = "Notify"
        /\ \A b \in Actor : b # a => pc'[b] = pc[b]
        /\ pc' \in [Actor -> Pc]
    BY <1>12, <2>1, GotoOther DEF Unlock, Inv
  <2>3. /\ ~locked' /\ locked' \in BOOLEAN /\ walk' = queue
        /\ UNCHANGED <<waiterVars, queue>>
    BY <1>12 DEF Unlock
  <2>4. \A b \in Actor \ {a} : pc[b] \notin {"Held", "Notify"}
    BY <2>2 DEF Inv, Alone
  <2>5. TypeOK'
    BY <1>t, <2>2, <2>3 DEF TypeOK, WaiterTypeOK, waiterVars
  <2>6. Alone' /\ Flag'
    BY <2>2, <2>3, <2>4 DEF Alone, Flag
  <2>7. Queued'
    BY <2>2, <2>3 DEF Inv, Queued, Actor
  <2>8. Told'
    <3>1. ~Unguarded'
      BY <2>2 DEF Unguarded
    <3> QED
      BY <2>3, <2>7, <3>1 DEF Queued, Told
  <2> QED
    BY <2>5, <2>6, <2>7, <2>8 DEF Inv
<1>13. ASSUME NEW a \in Actor, Notify(a) PROVE Inv'
  <2>1. /\ pc[a] = "Notify" /\ walk # <<>>
        /\ Trigger(Head(walk), GENERAL_WAITID)
        /\ walk' = Tail(walk)
        /\ UNCHANGED <<locked, queue, pc>>
    BY <1>13 DEF Notify
  <2>2. Head(walk) \in Task /\ walk' \in Seq(Task)
    BY <1>t, <2>1, HeadTailProperties
  <2>3. Range(walk) \subseteq {Head(walk)} \cup Range(walk')
    BY <1>t, <2>1, WalkSet
  <2>4. /\ WaiterTypeOK' /\ GENERAL_WAITID \in bitmap'[Head(walk)]
        /\ \A u \in Task : bitmap[u] \subseteq bitmap'[u]
    BY <1>t, <1>i, <2>1, <2>2, TriggerBits
  <2>5. TypeOK'
    BY <1>t, <2>1, <2>2, <2>4 DEF TypeOK
  <2>6. Alone' /\ Flag' /\ Queued'
    BY <2>1 DEF Inv, Alone, Flag, Queued
  <2>7. ~Unguarded'
    BY <2>1 DEF Unguarded
  <2>8. Told'
    BY <2>1, <2>3, <2>4, <2>7 DEF Inv, Told
  <2> QED
    BY <2>5, <2>6, <2>8 DEF Inv
<1>14. ASSUME NEW a \in Actor, Unlocked(a) PROVE Inv'
  <2>1. "Idle" \in Pc
    BY DEF Pc
  <2>2. /\ pc[a] = "Notify" /\ pc'[a] = "Idle"
        /\ \A b \in Actor : b # a => pc'[b] = pc[b]
        /\ pc' \in [Actor -> Pc]
    BY <1>14, <2>1, GotoOther DEF Unlocked, Inv
  <2>3. walk = <<>> /\ UNCHANGED <<waiterVars, locked, queue, walk>>
    BY <1>14 DEF Unlocked
  <2>4. TypeOK'
    BY <1>t, <2>2, <2>3 DEF TypeOK, WaiterTypeOK, waiterVars
  <2>5. \A b \in Actor : pc'[b] = "Held" <=> pc[b] = "Held"
    BY <2>2
  <2>6. Alone' /\ Flag'
    BY <2>2, <2>3, <2>5 DEF Inv, Alone, Flag
  <2>7. Queued'
    BY <2>2, <2>3 DEF Inv, Queued, Actor
  <2>8. Told'
    <3>1. Range(walk) = {}
      BY <2>3 DEF Range
    <3> QED
      BY <2>2, <2>3, <3>1 DEF Inv, Told, waiterVars, Actor
  <2> QED
    BY <2>4, <2>6, <2>7, <2>8 DEF Inv
<1>15. ASSUME NEW t \in Task, Interrupt(t) PROVE Inv'
  <2>1. WaiterTypeOK' /\ \A u \in Task : bitmap[u] \subseteq bitmap'[u]
    BY <1>15, <1>t, <1>i, TriggerBits DEF Interrupt
  <2>2. UNCHANGED <<locked, queue, walk, pc>>
    BY <1>15 DEF Interrupt
  <2> QED
    BY <1>t, <2>1, <2>2 DEF Inv, TypeOK, Alone, Flag, Queued, Told, Unguarded
<1>16. ASSUME NEW t \in Task, Interrupted(t) PROVE Inv'
  <2>1. WaiterTypeOK' /\ \A u \in Task : u # t => bitmap'[u] = bitmap[u]
    BY <1>16, <1>t, <1>i, ClearBits DEF Interrupted
  <2>2. pc[t] = "Idle" /\ UNCHANGED <<locked, queue, walk, pc>>
    BY <1>16 DEF Interrupted
  <2> QED
    BY <1>t, <2>1, <2>2 DEF Inv, TypeOK, Alone, Flag, Queued, Told, Unguarded
<1>17. ASSUME UNCHANGED vars PROVE Inv'
  BY <1>t, <1>17
     DEF vars, Inv, TypeOK, WaiterTypeOK, Alone, Flag, Queued, Told, Unguarded
<1> QED
  BY <1>1, <1>2, <1>3, <1>4, <1>5, <1>6, <1>7, <1>8, <1>9, <1>10, <1>11,
     <1>12, <1>13, <1>14, <1>15, <1>16, <1>17
     DEF Next, BlockStep, UnlockStep

(* The invariant holds in every reachable state. *)
LEMMA Invariant == Spec => []Inv
BY InvInit, InvNext, PTL DEF Spec

(* QAsyncLock has one holder, and its flag tells whether there is one, for *)
(* any number of tasks: the "QLock::Unlock misrun" assertion of Unlock     *)
(* never fires.                                                            *)
THEOREM Mutex == Spec => []MutualExclusion
<1>1. Inv => MutualExclusion
  BY DEF Inv, Alone, Flag, MutualExclusion
<1> QED
  BY <1>1, Invariant, PTL

(* For any number of tasks, when the lock is free and Unlock's walk over   *)
(* the queue is done, every task still waiting has its general bit.        *)
THEOREM Wakeup == Spec => []NoLostUnlock
<1>1. Inv => NoLostUnlock
  BY DEF Inv, Told, NoLostUnlock
<1> QED
  BY <1>1, Invariant, PTL
=============================================================================
