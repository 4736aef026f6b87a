------------------------------- MODULE Waiter -------------------------------
(***************************************************************************)
(* How a guest task sleeps and is woken.                                   *)
(*                                                                         *)
(* Every task owns one Waiter (waiter.rs): a bitmap of the events that     *)
(* have happened, the mask it sleeps with and a state.  Event sources hold *)
(* wait entries (entry.rs) in queues (queue.rs, waitlist.rs); an entry     *)
(* names the waiter and one of the three bits.  Each operator below is one *)
(* critical section of a waiter's lock.  The modules that extend this one   *)
(* put them together into the blocking operations of the kernel.           *)
(*                                                                         *)
(* The scheduler is seen through its promise (module Scheduler): a task    *)
(* that was handed to Schedule returns from taskMgr::Wait, once.           *)
(***************************************************************************)
EXTENDS Naturals, FiniteSets, Sequences, WaitList

CONSTANT Task

VARIABLES
  bitmap,     \* bitmap[t]: the events of t that have happened
  mask,       \* mask[t]: the events t last went to sleep for
  state,      \* state[t]: "Waiting" while Trigger has to schedule t
  scheduled   \* tasks given to Schedule that have not come back from Wait

waiterVars == <<bitmap, mask, state, scheduled>>

GENERAL_WAITID == 0
INTERRUPT_WAITID == 1
TIMER_WAITID == 2

WaiterID == {GENERAL_WAITID, INTERRUPT_WAITID, TIMER_WAITID}

WaitState == {"Running", "Waiting"}

WaiterTypeOK ==
  /\ bitmap \in [Task -> SUBSET WaiterID]
  /\ mask \in [Task -> SUBSET WaiterID]
  /\ state \in [Task -> WaitState]
  /\ scheduled \in SUBSET Task

WaiterInit ==
  /\ bitmap = [t \in Task |-> {}]
  /\ mask = [t \in Task |-> {}]
  /\ state = [t \in Task |-> "Running"]
  /\ scheduled = {}

-----------------------------------------------------------------------------
(* Waiter::Trigger: set the bit; a sleeper that waits for it is scheduled. *)

Trigger(t, id) ==
  LET fires == /\ state[t] = "Waiting"
               /\ (bitmap[t] \cup {id}) \cap mask[t] # {}
  IN /\ bitmap' = [bitmap EXCEPT ![t] = @ \cup {id}]
     /\ state' = IF fires THEN [state EXCEPT ![t] = "Running"] ELSE state
     /\ scheduled' = IF fires THEN scheduled \cup {t} ELSE scheduled
     /\ UNCHANGED mask

(* Waiter::Clear, and the "bitmap &= !(1 << id)" of the Blocker. *)

Clear(t, id) ==
  /\ bitmap' = [bitmap EXCEPT ![t] = @ \ {id}]
  /\ UNCHANGED <<mask, state, scheduled>>

(* Waiter::Wait, the critical section at the top of its loop: return the   *)
(* lowest bit of the mask that is set, or announce that the task sleeps.   *)

WaitReturns(t, m, id) ==
  /\ id \in bitmap[t] \cap m
  /\ \A other \in bitmap[t] \cap m : id <= other
  /\ state' = [state EXCEPT ![t] = "Running"]
  /\ UNCHANGED <<bitmap, mask, scheduled>>

WaitSleeps(t, m) ==
  /\ bitmap[t] \cap m = {}
  /\ mask' = [mask EXCEPT ![t] = m]
  /\ state' = [state EXCEPT ![t] = "Waiting"]
  /\ UNCHANGED <<bitmap, scheduled>>

(* taskMgr::Wait comes back once the task was scheduled. *)

Resume(t) ==
  /\ t \in scheduled
  /\ scheduled' = scheduled \ {t}
  /\ UNCHANGED <<bitmap, mask, state>>

=============================================================================
