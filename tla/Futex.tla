------------------------------- MODULE Futex --------------------------------
(***************************************************************************)
(* The futex manager (futex.rs, sys_futex.rs): wait, wake, requeue and     *)
(* wake-op on words of user memory.                                        *)
(*                                                                         *)
(* A word is named by its key.  The queues of the keys with one hash code  *)
(* share a spin lock, private and shared keys having locks of their own.   *)
(* A waiter's entry records the key it is queued under, so that            *)
(* WaitComplete can find the queue to leave; wake clears that key and      *)
(* requeue changes it.                                                     *)
(*                                                                         *)
(* Blocking is seen through the promise of module Blocker: block returns   *)
(* Ok when the general bit is set, and clears it; it may return an error   *)
(* (a signal, the deadline) while the bit is not set.  An empty queue and  *)
(* one that is not in the map are the same here.                           *)
(***************************************************************************)
EXTENDS Naturals, FiniteSets, Sequences, WaitList, Functions

CONSTANTS
  Task, Key, NoKey,   \* NoKey is Key::default()
  HashCode,           \* HashCode[k]: the index of k's spin lock
  Shared,             \* the keys of kind KindSharedMappable
  Value,              \* the values of a word
  Programs            \* what uses the futexes: tasks, keys, the bits of a
                      \* bitset, and kinds, the operations; "error" is that
                      \* signals or deadlines end waits

Kinds == {"wait", "wake", "store", "requeue", "wakeop", "error"}

ASSUME FutexAssumption ==
  /\ NoKey \notin Key
  /\ HashCode \in [Key -> Nat]
  /\ Shared \subseteq Key
  /\ Programs \subseteq [tasks : SUBSET Task, keys : SUBSET Key,
                         bits : SUBSET {1, 2}, kinds : SUBSET Kinds]

VARIABLES
  prog,      \* of Programs
  word,      \* user memory
  general,   \* tasks whose general bit is set
  queues,    \* queues[k]: the waiters of k
  key,       \* key[t]: ThreadContext.key of t's general entry
  locks,     \* the spin locks that are taken
  pc,        \* where each task is
  op,        \* the arguments of its call
  res,       \* what block returned
  wkey,      \* the queue WakeLocked works on
  walk,      \* entries it has still to look at
  left       \* how many it may still wake

vars == <<prog, word, general, queues, key, locks, pc, op, res, wkey, walk, left>>
heap == <<word, general, queues, key, locks>>
wakeVars == <<wkey, walk, left>>

LockOf(k) == <<k \in Shared, HashCode[k]>>

Bit == prog.bits
Bitset == (SUBSET Bit) \ {{}}
Many == Cardinality(prog.tasks)

(* The calls.  A "store" is a user program's store followed by a wake of   *)
(* all waiters; a compare-and-requeue has cmp set, and a requeue wakes all *)
(* that can be waiting but one and moves the rest.  What AtomicOp makes of *)
(* the word and of the comparison is any value and any outcome.            *)

CallOf(kind) ==
  LET K == prog.keys
  IN CASE kind = "wait" -> [kind : {"wait"}, k : K, val : Value, bits : Bitset]
       [] kind = "wake" -> [kind : {"wake"}, k : K, bits : Bitset, n : 1..Many]
       [] kind = "store" -> [kind : {"store"}, k : K, bits : {Bit}, n : {Many}]
       [] kind = "requeue" ->
            {o \in [kind : {"requeue"}, k : K, k2 : K, bits : {Bit},
                    n : {Many - 2}, n2 : {Many}, cmp : BOOLEAN, val : Value] :
               o.k # o.k2 /\ (~o.cmp => o.val = CHOOSE v \in Value : TRUE)}
       [] kind = "wakeop" ->
            {o \in [kind : {"wakeop"}, k : K, k2 : K, bits : {Bit},
                    n : {1}, n2 : {1}, cond : BOOLEAN] : o.k # o.k2}

NoCall == [kind |-> "none"]
Call == UNION {CallOf(kind) : kind \in prog.kinds \ {"error"}}

TwoKeys(o) == o.kind \in {"requeue", "wakeop"}

Pc == {"Idle", "Lock", "Lock2", "Locked", "Blocked", "Complete",
       "CompleteLock", "CompleteLocked", "Wake", "Waked", "Requeue", "Unlock",
       "Unlock2"}

TypeOK ==
  /\ prog \in Programs
  /\ word \in [prog.keys -> Value]
  /\ general \in SUBSET Task
  /\ queues \in [Key -> Seq(Task)]
  /\ key \in [Task -> Key \cup {NoKey}]
  /\ locks \in SUBSET {LockOf(k) : k \in Key}
  /\ pc \in [Task -> Pc]
  /\ op \in [Task -> Call \cup {NoCall}]
  /\ res \in [Task -> {"none", "Ok", "Error"}]
  /\ wkey \in [Task -> Key \cup {NoKey}]
  /\ walk \in [Task -> Seq(Task)]
  /\ left \in [Task -> 0..Many]

Init ==
  /\ prog \in Programs
  /\ word \in [prog.keys -> Value]
  /\ general = {}
  /\ queues = [k \in Key |-> <<>>]
  /\ key = [t \in Task |-> NoKey]
  /\ locks = {}
  /\ pc = [t \in Task |-> "Idle"]
  /\ op = [t \in Task |-> NoCall]
  /\ res = [t \in Task |-> "none"]
  /\ wkey = [t \in Task |-> NoKey]
  /\ walk = [t \in Task |-> <<>>]
  /\ left = [t \in Task |-> 0]

Goto(t, from, to) ==
  /\ pc[t] = from
  /\ pc' = [pc EXCEPT ![t] = to]
  /\ UNCHANGED prog

(* The end of a call. *)
Return(t, from) ==
  /\ Goto(t, from, "Idle")
  /\ op' = [op EXCEPT ![t] = NoCall]
  /\ res' = [res EXCEPT ![t] = "none"]
  /\ UNCHANGED wakeVars

-----------------------------------------------------------------------------
(* The beginning of a call: SysFutex, and WaitPrepare up to its lock.      *)

Start(t, o) ==
  /\ Goto(t, "Idle", "Lock")
  /\ op' = [op EXCEPT ![t] = o]
  /\ general' = IF o.kind = "wait" THEN general \ {t} ELSE general
  /\ key' = IF o.kind = "wait" THEN [key EXCEPT ![t] = o.k] ELSE key
  /\ IF o.kind = "store"
       THEN \E v \in Value : word' = [word EXCEPT ![o.k] = v]
       ELSE UNCHANGED word
  /\ UNCHANGED <<queues, locks, res, wakeVars>>

(* lockQueue, and lockQueues in the order of the hash codes: keys with the *)
(* same hash code are taken to have one lock.                              *)

First_AsGiven(o) == o.k

First(o) ==
  IF TwoKeys(o) /\ HashCode[o.k2] < HashCode[o.k] THEN o.k2 ELSE o.k

Second(o) == IF First(o) = o.k THEN o.k2 ELSE o.k

Acquire(t, k, from, to) ==
  /\ Goto(t, from, to)
  /\ LockOf(k) \notin locks
  /\ locks' = locks \cup {LockOf(k)}

Lock(t) ==
  LET o == op[t]
      two == TwoKeys(o) /\ HashCode[o.k] # HashCode[o.k2]
  IN /\ pc[t] = "Lock"
     /\ Acquire(t, First(o), "Lock", IF two THEN "Lock2" ELSE "Locked")
     /\ UNCHANGED <<word, general, queues, key, op, res, wakeVars>>

Lock2(t) ==
  /\ pc[t] = "Lock2"
  /\ Acquire(t, Second(op[t]), "Lock2", "Locked")
  /\ UNCHANGED <<word, general, queues, key, op, res, wakeVars>>

(* SpinLock::Unlock stores 0, whoever holds the lock. *)

Release(k) == locks' = locks \ {LockOf(k)}

Unlock(t) ==
  /\ pc[t] = "Unlock"
  /\ Release(op[t].k)
  /\ IF TwoKeys(op[t])
       THEN Goto(t, "Unlock", "Unlock2") /\ UNCHANGED <<op, res, wakeVars>>
       ELSE Return(t, "Unlock")
  /\ UNCHANGED <<word, general, queues, key>>

Unlock2(t) ==
  /\ pc[t] = "Unlock2"
  /\ Release(op[t].k2)
  /\ Return(t, "Unlock2")
  /\ UNCHANGED <<word, general, queues, key>>

-----------------------------------------------------------------------------
(* WaitPrepare under the lock, block, WaitComplete. *)

Queue_Unchecked(t) ==
  LET o == op[t]
  IN /\ o.kind = "wait"
     /\ Goto(t, "Locked", "Blocked")
     /\ queues' = [queues EXCEPT ![o.k] = PushBack(@, t)]
     /\ Release(o.k)
     /\ UNCHANGED <<word, general, key, op, res, wakeVars>>

Queue(t) ==
  LET o == op[t]
  IN /\ o.kind = "wait"
     /\ Goto(t, "Locked", "Blocked")
     /\ word[o.k] = o.val
     /\ queues' = [queues EXCEPT ![o.k] = PushBack(@, t)]
     /\ Release(o.k)
     /\ UNCHANGED <<word, general, key, op, res, wakeVars>>

CheckFails(t) ==
  LET o == op[t]
  IN /\ o.kind = "wait"
     /\ Return(t, "Locked")
     /\ word[o.k] # o.val
     /\ Release(o.k)
     /\ UNCHANGED <<word, general, queues, key>>

BlockOk(t) ==
  /\ Goto(t, "Blocked", "Complete")
  /\ t \in general
  /\ general' = general \ {t}
  /\ res' = [res EXCEPT ![t] = "Ok"]
  /\ UNCHANGED <<word, queues, key, locks, op, wakeVars>>

BlockError(t) ==
  /\ "error" \in prog.kinds
  /\ Goto(t, "Blocked", "Complete")
  /\ t \notin general
  /\ res' = [res EXCEPT ![t] = "Error"]
  /\ UNCHANGED <<heap, op, wakeVars>>

CompleteWaked(t) ==
  /\ Return(t, "Complete")
  /\ key[t] = NoKey
  /\ UNCHANGED heap

(* The key is read without a lock and kept in op[t].k. *)

CompleteRead(t) ==
  /\ Goto(t, "Complete", "CompleteLock")
  /\ key[t] # NoKey
  /\ op' = [op EXCEPT ![t].k = key[t]]
  /\ UNCHANGED <<heap, res, wakeVars>>

CompleteLock(t) ==
  /\ pc[t] = "CompleteLock"
  /\ Acquire(t, op[t].k, "CompleteLock", "CompleteLocked")
  /\ UNCHANGED <<word, general, queues, key, op, res, wakeVars>>

CompleteAgain(t) ==
  /\ Goto(t, "CompleteLocked", "Complete")
  /\ key[t] # op[t].k
  /\ Release(op[t].k)
  /\ UNCHANGED <<word, general, queues, key, op, res, wakeVars>>


CompleteRemove(t) ==
  LET k == op[t].k
  IN /\ Return(t, "CompleteLocked")
     /\ key[t] = k
     /\ queues' = [queues EXCEPT ![k] = RemoveEntry(@, t)]
     /\ key' = [key EXCEPT ![t] = NoKey]
     /\ Release(k)
     /\ UNCHANGED <<word, general>>

-----------------------------------------------------------------------------
(* Wake, doRequeue and WakeOp under their locks.  AtomicOp fails when it   *)
(* does not know the operation, or the comparison after the operation.     *)

BeginWake(t, k, n) ==
  /\ wkey' = [wkey EXCEPT ![t] = k]
  /\ walk' = [walk EXCEPT ![t] = queues[k]]
  /\ left' = [left EXCEPT ![t] = n]

StartWake(t) ==
  LET o == op[t]
  IN /\ \/ o.kind \in {"wake", "store"}
        \/ o.kind = "requeue" /\ (o.cmp => word[o.k] = o.val)
     /\ Goto(t, "Locked", "Wake")
     /\ BeginWake(t, o.k, o.n)
     /\ UNCHANGED <<heap, op, res>>

CallFails(t) ==
  LET o == op[t]
  IN /\ o.kind = "requeue" /\ o.cmp /\ word[o.k] # o.val
     /\ Goto(t, "Locked", "Unlock")
     /\ UNCHANGED <<heap, op, res, wakeVars>>

AtomicOp(t) ==
  LET o == op[t]
  IN /\ o.kind = "wakeop"
     /\ Goto(t, "Locked", "Wake")
     /\ \E v \in Value : word' = [word EXCEPT ![o.k2] = v]
     /\ BeginWake(t, o.k, o.n)
     /\ UNCHANGED <<general, queues, key, locks, op, res>>

AtomicOpFails(t) ==
  LET o == op[t]
  IN /\ o.kind = "wakeop"
     /\ Goto(t, "Locked", "Unlock")
     /\ \E v \in Value : word' = [word EXCEPT ![o.k2] = v]
     /\ UNCHANGED <<general, queues, key, locks, op, res, wakeVars>>

(* WaitList::WakeLocked: WakeWaiterLocked notifies an entry whose mask     *)
(* matches, then removes it; in every case it clears the entry's key.  The *)
(* entry's mask is the bitset of its task's wait.                          *)

WakeMatches(t, w) == op[t].bits \cap op[w].bits # {}

WakeNotify(t) ==
  LET w == Head(walk[t])
  IN /\ Goto(t, "Wake", "Waked")
     /\ left[t] > 0 /\ walk[t] # <<>>
     /\ WakeMatches(t, w)
     /\ general' = general \cup {w}
     /\ UNCHANGED <<word, queues, key, locks, op, res, wakeVars>>

WakeRemove(t) ==
  LET w == Head(walk[t])
  IN /\ Goto(t, "Waked", "Wake")
     /\ queues' = [queues EXCEPT ![wkey[t]] = RemoveEntry(@, w)]
     /\ key' = [key EXCEPT ![w] = NoKey]
     /\ walk' = [walk EXCEPT ![t] = Tail(@)]
     /\ left' = [left EXCEPT ![t] = @ - 1]
     /\ UNCHANGED <<word, general, locks, op, res, wkey>>

WakeSkip(t) ==
  LET w == Head(walk[t])
  IN /\ Goto(t, "Wake", "Wake")
     /\ left[t] > 0 /\ walk[t] # <<>>
     /\ ~WakeMatches(t, w)
     /\ key' = [key EXCEPT ![w] = NoKey]
     /\ walk' = [walk EXCEPT ![t] = Tail(@)]
     /\ UNCHANGED <<word, general, queues, locks, op, res, wkey, left>>

(* Done with one queue: a wake-op whose comparison held goes on with the   *)
(* second.                                                                 *)

WakeDone(t) ==
  LET o == op[t]
      more == o.kind = "wakeop" /\ o.cond /\ wkey[t] = o.k
      to == IF o.kind = "requeue" THEN "Requeue" ELSE "Unlock"
  IN /\ Goto(t, "Wake", IF more THEN "Wake" ELSE to)
     /\ left[t] = 0 \/ walk[t] = <<>>
     /\ IF more
          THEN BeginWake(t, o.k2, o.n2)
          ELSE /\ wkey' = [wkey EXCEPT ![t] = NoKey]
               /\ walk' = [walk EXCEPT ![t] = <<>>]
               /\ left' = [left EXCEPT ![t] = 0]
     /\ UNCHANGED <<heap, op, res>>

(* WaitList::RequeueLocked moves the first n2 waiters and their keys.      *)

Requeue(t) ==
  LET o == op[t]
      n == IF o.n2 < Len(queues[o.k]) THEN o.n2 ELSE Len(queues[o.k])
      moved == SubSeq(queues[o.k], 1, n)
      rest == SubSeq(queues[o.k], n + 1, Len(queues[o.k]))
  IN /\ Goto(t, "Requeue", "Unlock")
     /\ queues' = [queues EXCEPT ![o.k] = rest, ![o.k2] = @ \o moved]
     /\ key' = [w \in Task |-> IF w \in Range(moved) THEN o.k2 ELSE key[w]]
     /\ UNCHANGED <<word, general, locks, op, res, wakeVars>>

-----------------------------------------------------------------------------
LockStep(t) == Lock(t) \/ Lock2(t) \/ CompleteLock(t)

RunStep(t) ==
  \/ Unlock(t) \/ Unlock2(t) \/ Queue(t) \/ CheckFails(t)
  \/ CompleteWaked(t) \/ CompleteRead(t) \/ CompleteAgain(t)
  \/ CompleteRemove(t)
  \/ StartWake(t) \/ CallFails(t) \/ AtomicOp(t) \/ AtomicOpFails(t)
  \/ WakeNotify(t) \/ WakeRemove(t) \/ WakeSkip(t) \/ WakeDone(t)
  \/ Requeue(t)

Next ==
  \E t \in prog.tasks :
    \/ \E o \in Call : Start(t, o)
    \/ LockStep(t) \/ RunStep(t)
    \/ BlockOk(t) \/ BlockError(t)

Spec == Init /\ [][Next]_vars

(* A task in the kernel runs on; one that spins for a lock which becomes   *)
(* free again and again gets it at some time (compare_exchange has no      *)
(* order); a blocked task whose bit is set returns.  Nobody need wake it.  *)

FairSpec ==
  /\ Spec
  /\ \A t \in Task : SF_vars(LockStep(t) \/ RunStep(t) \/ BlockOk(t))

-----------------------------------------------------------------------------
(* Properties *)


(* WaitPrepare checks the word and queues the task in one piece, as seen   *)
(* by a program that stores and then wakes: a task does not stay queued    *)
(* for a value that is gone unless the wake is still to come.  (A wake-op  *)
(* stores and wakes as told, a requeue moves waiters away from the wake.)  *)
NoStaleSleeper ==
  \A t \in Task :
    (/\ prog.kinds \cap {"requeue", "wakeop"} = {}
     /\ pc[t] = "Blocked"
     /\ t \in Range(queues[op[t].k])
     /\ word[op[t].k] # op[t].val)
      => \E u \in Task : /\ op[u].kind = "store"
                         /\ op[u].k = op[t].k
                         /\ pc[u] \in {"Lock", "Locked", "Wake", "Waked"}

(* Every call gets its locks and finishes, or blocks, unless requeues go   *)
(* on for ever: the two locks of a requeue or wake-op are taken in the     *)
(* order of the hash codes ("lock must be done in order to avoid           *)
(* deadlock"), and only requeues make WaitComplete try again.              *)
CallEnds ==
  \A t \in Task :
    []<>(pc[t] \in {"Idle", "Blocked"} \/ \E u \in Task : pc[u] = "Requeue")

=============================================================================
