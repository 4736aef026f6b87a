----------------------------- MODULE QAsyncLock -----------------------------
(***************************************************************************)
(* QAsyncLock (qlock.rs): the sleeping lock that orders buffered writes of *)
(* a host file.  A task that finds it locked registers its general entry   *)
(* and sleeps in Blocker::BlockGeneral; whoever unlocks notifies the whole *)
(* queue, and the woken tasks try again.  The guard of a buffered write is *)
(* handed to the asynchronous write, and the IO thread drops it when the   *)
(* write completes.  Signals interrupt a sleeper, which then tries again.  *)
(*                                                                         *)
(* The spin lock around "locked" is held for one step, except while Unlock *)
(* walks the queue: the actor at "Notify" holds it, and the queue's read   *)
(* lock.                                                                   *)
(***************************************************************************)
EXTENDS Waiter

CONSTANT IO

ASSUME IOAssumption == IO \notin Task

VARIABLES
  locked,   \* the flag of the lock
  queue,    \* the lock's wait queue
  walk,     \* entries that the notifying actor has still to visit
  pc        \* where each actor is in Lock, Block and Unlock

vars == <<bitmap, mask, state, scheduled, locked, queue, walk, pc>>

Actor == Task \cup {IO}

Pc == {"Idle", "Try", "Wait", "Asleep", "ClearBit", "Interrupted",
       "Unregister", "Held", "Notify"}

TypeOK ==
  /\ WaiterTypeOK
  /\ locked \in BOOLEAN
  /\ queue \in Seq(Task)
  /\ walk \in Seq(Task)
  /\ pc \in [Actor -> Pc]

Init ==
  /\ WaiterInit
  /\ locked = FALSE
  /\ queue = <<>>
  /\ walk = <<>>
  /\ pc = [a \in Actor |-> "Idle"]

Goto(a, from, to) ==
  /\ pc[a] = from
  /\ pc' = [pc EXCEPT ![a] = to]

Unguarded == \A a \in Actor : pc[a] # "Notify"

BlockMask == {GENERAL_WAITID, INTERRUPT_WAITID}

-----------------------------------------------------------------------------
(* QAsyncLock::Lock and Block *)

Lock(t) ==
  /\ Goto(t, "Idle", "Try")
  /\ UNCHANGED <<waiterVars, locked, queue, walk>>

Take_Unchecked(t) ==
  /\ Goto(t, "Try", "Held")
  /\ Unguarded
  /\ locked' = TRUE
  /\ UNCHANGED <<waiterVars, queue, walk>>

Take(t) ==
  /\ Goto(t, "Try", "Held")
  /\ Unguarded
  /\ ~locked
  /\ locked' = TRUE
  /\ UNCHANGED <<waiterVars, queue, walk>>

Register_StaleFlag(t) ==
  /\ Goto(t, "Try", "Wait")
  /\ Unguarded
  /\ Clear(t, GENERAL_WAITID)
  /\ queue' = PushBack(queue, t)
  /\ UNCHANGED <<locked, walk>>

Register(t) ==
  /\ Goto(t, "Try", "Wait")
  /\ Unguarded
  /\ locked
  /\ Clear(t, GENERAL_WAITID)
  /\ queue' = PushBack(queue, t)
  /\ UNCHANGED <<locked, walk>>

(* Blocker::BlockGeneral: Waiter::Wait for the general and the interrupt   *)
(* bit, then clear the general bit or raise the interrupt bit again.       *)

WaitGeneral(t) ==
  /\ Goto(t, "Wait", "ClearBit")
  /\ WaitReturns(t, BlockMask, GENERAL_WAITID)
  /\ UNCHANGED <<locked, queue, walk>>

WaitInterrupt(t) ==
  /\ Goto(t, "Wait", "Interrupted")
  /\ WaitReturns(t, BlockMask, INTERRUPT_WAITID)
  /\ UNCHANGED <<locked, queue, walk>>

Sleep(t) ==
  /\ Goto(t, "Wait", "Asleep")
  /\ WaitSleeps(t, BlockMask)
  /\ UNCHANGED <<locked, queue, walk>>

WakeUp(t) ==
  /\ Goto(t, "Asleep", "Wait")
  /\ Resume(t)
  /\ UNCHANGED <<locked, queue, walk>>

ClearBit(t) ==
  /\ Goto(t, "ClearBit", "Unregister")
  /\ Clear(t, GENERAL_WAITID)
  /\ UNCHANGED <<locked, queue, walk>>

SleepFinish(t) ==
  /\ Goto(t, "Interrupted", "Unregister")
  /\ Trigger(t, INTERRUPT_WAITID)
  /\ UNCHANGED <<locked, queue, walk>>

(* Queue::EventUnregister on both paths; Lock then tries again, after an   *)
(* interrupt too.                                                          *)

Unregister(t) ==
  /\ Goto(t, "Unregister", "Try")
  /\ Unguarded
  /\ Clear(t, GENERAL_WAITID)
  /\ queue' = RemoveEntry(queue, t)
  /\ UNCHANGED <<locked, walk>>

-----------------------------------------------------------------------------
(* The guard: dropped by its task, or handed to an asynchronous write.     *)

AsyncBufWrite(t) ==
  /\ pc[t] = "Held"
  /\ pc[IO] = "Idle"
  /\ pc' = [pc EXCEPT ![t] = "Idle", ![IO] = "Held"]
  /\ UNCHANGED <<waiterVars, locked, queue, walk>>

Unlock_Silent(a) ==
  /\ Goto(a, "Held", "Notify")
  /\ Unguarded
  /\ locked' = FALSE
  /\ walk' = <<>>
  /\ UNCHANGED <<waiterVars, queue>>

Unlock(a) ==
  /\ Goto(a, "Held", "Notify")
  /\ Unguarded
  /\ locked' = FALSE
  /\ walk' = queue
  /\ UNCHANGED <<waiterVars, queue>>

Notify(a) ==
  /\ pc[a] = "Notify"
  /\ walk # <<>>
  /\ Trigger(Head(walk), GENERAL_WAITID)
  /\ walk' = Tail(walk)
  /\ UNCHANGED <<locked, queue, pc>>

Unlocked(a) ==
  /\ Goto(a, "Notify", "Idle")
  /\ walk = <<>>
  /\ UNCHANGED <<waiterVars, locked, queue, walk>>

-----------------------------------------------------------------------------
(* Signals: interruptSelf at any time, Interrupted(true) in the run loop.  *)

Interrupt(t) ==
  /\ Trigger(t, INTERRUPT_WAITID)
  /\ UNCHANGED <<locked, queue, walk, pc>>

Interrupted(t) ==
  /\ pc[t] = "Idle"
  /\ INTERRUPT_WAITID \in bitmap[t]
  /\ Clear(t, INTERRUPT_WAITID)
  /\ UNCHANGED <<locked, queue, walk, pc>>

-----------------------------------------------------------------------------
BlockStep(t) ==
  \/ Take(t) \/ Register(t)
  \/ WaitGeneral(t) \/ WaitInterrupt(t) \/ Sleep(t) \/ WakeUp(t)
  \/ ClearBit(t) \/ SleepFinish(t) \/ Unregister(t)

UnlockStep(a) == Unlock(a) \/ Notify(a) \/ Unlocked(a)

Next ==
  \/ \E t \in Task :
       \/ Lock(t) \/ BlockStep(t) \/ AsyncBufWrite(t)
       \/ Interrupt(t) \/ Interrupted(t)
  \/ \E a \in Actor : UnlockStep(a)

Spec == Init /\ [][Next]_vars

(* A task inside Lock or Unlock keeps running: the scheduler returns it to *)
(* a vcpu, and the kernel does not stop in these loops.  The critical      *)
(* section ends, and so does an asynchronous write.                        *)

Fairness ==
  /\ \A t \in Task : WF_vars(BlockStep(t))
  /\ \A a \in Actor : WF_vars(UnlockStep(a))

FairSpec == Spec /\ Fairness
-----------------------------------------------------------------------------
(* Properties *)

(* The lock has one holder at a time and its flag says whether there is    *)
(* one, however tasks, the IO thread and signals interleave; the assertion *)
(* of QAsyncLockGuard::Unlock, "QLock::Unlock misrun", is the second half. *)
MutualExclusion ==
  /\ \A a, b \in Actor : pc[a] = "Held" /\ pc[b] = "Held" => a = b
  /\ locked <=> \E a \in Actor : pc[a] = "Held"

(* When the lock is free and Unlock's walk is over, every task that still  *)
(* waits for it has its general bit set: registering under the lock's spin *)
(* lock and notifying under it leaves no task asleep beside a free lock,   *)
(* although BlockGeneral and EventUnregister clear the bit without it.     *)
NoLostUnlock ==
  ~locked /\ Unguarded =>
    \A t \in Task : pc[t] \in {"Wait", "Asleep"} =>
                      GENERAL_WAITID \in bitmap[t]

(* While tasks want the lock, somebody gets it: each Unlock's notification *)
(* and retry leads to an owner, also when signals keep waking the waiters. *)
SomeTaskGets ==
  (\E t \in Task : pc[t] = "Asleep") ~> (\E t \in Task : pc[t] = "Held")
=============================================================================
