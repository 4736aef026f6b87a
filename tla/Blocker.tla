------------------------------ MODULE Blocker -------------------------------
(***************************************************************************)
(* Blocker (task_block.rs): the blocking calls of one task, self, on its   *)
(* Waiter, with the two block timers of the task and the timer store       *)
(* behind them (timer.rs, timer_store.rs).                                 *)
(*                                                                         *)
(* Around it: an event source with a queue, as the users of the general    *)
(* entry have it (register, look, block, look again, unregister); signals; *)
(* the clock; and whichever thread holds the timer store's lock and fires  *)
(* the entries it finds.  Steps are the critical sections of the waiter,   *)
(* of a timer and of the store.                                            *)
(*                                                                         *)
(* A timer that is due is one whose deadline lies behind the clock plus    *)
(* the processing time the code adds; the store may pop an entry before,   *)
(* because RemoveTimer leaves nextExpire behind.                           *)
(***************************************************************************)
EXTENDS Waiter

CONSTANTS
  self,     \* the task
  Clock,    \* its block timers, by their clocks: real and mono
  Kinds     \* the blocking functions it uses

NoTimer == "none"

ASSUME BlockerAssumption ==
  /\ self \in Task
  /\ NoTimer \notin Clock
  /\ Kinds \subseteq {"block", "short", "general", "generalOnly", "interrupt"}

(* The calls: block with or without a deadline (BlockWithTimer, and        *)
(* BlockWithTimeout for a timeout it waits for), BlockWithTimeout below    *)
(* its processing time, BlockGeneral, BlockGeneralOnly, BlockInterrupt.    *)

Call ==
  {k \in [kind : Kinds, general : BOOLEAN, timer : Clock \cup {NoTimer}] :
     /\ k.timer # NoTimer => k.kind = "block"
     /\ k.kind \in {"general", "generalOnly"} => k.general
     /\ k.kind = "interrupt" => ~k.general}

NoCall == [kind |-> "none", general |-> FALSE, timer |-> NoTimer]

VARIABLES
  pc,          \* where self is
  call,        \* the call self is in
  res,         \* what the blocking function returned last
  ready,       \* the condition self waits for in a general call
  registered,  \* the general entry is in the source's queue
  source,      \* "Notify" between setting ready and notifying the queue
  paused,      \* Timer.paused
  enabled,     \* Timer.setting.Enabled
  due,         \* the deadline of the setting has passed
  tstate,      \* Timer.State
  store,       \* the timers with an entry in the timer store
  firing       \* the timer whose Fire runs under the store's lock, and where

clientVars == <<pc, call, res, ready, registered, source>>
timerVars == <<paused, enabled, due, tstate, store, firing>>
vars == <<bitmap, mask, state, scheduled, pc, call, res, ready, registered,
          source, paused, enabled, due, tstate, store, firing>>

Pc == {"Idle", "Register", "Look", "Enter", "Swap", "Reset", "Running",
       "Wait", "Asleep", "Check", "SleepFinish", "ClearGeneral",
       "ClearTimer", "Cancel", "StopRead", "StopWrite", "StopStore",
       "TimerClear", "Return", "Unregister", "End"}

Results == {"none", "Ok", "ETIMEDOUT", "Interrupted"}

NotFiring == [timer |-> NoTimer, at |-> "none"]

TypeOK ==
  /\ WaiterTypeOK
  /\ pc \in Pc
  /\ call \in Call \cup {NoCall}
  /\ res \in Results
  /\ ready \in BOOLEAN /\ registered \in BOOLEAN
  /\ source \in {"Idle", "Notify"}
  /\ paused \in [Clock -> BOOLEAN]
  /\ enabled \in [Clock -> BOOLEAN]
  /\ due \in [Clock -> BOOLEAN]
  /\ tstate \in [Clock -> {"Expired", "Running", "Stopped"}]
  /\ store \in SUBSET Clock
  /\ \/ firing = NotFiring
     \/ firing \in [timer : Clock, at : {"Expire", "Timeout", "Rearm", "Run"}]

Init ==
  /\ WaiterInit
  /\ pc = "Idle"
  /\ call = NoCall
  /\ res = "none"
  /\ ready = FALSE /\ registered = FALSE
  /\ source = "Idle"
  /\ paused = [c \in Clock |-> FALSE]
  /\ enabled = [c \in Clock |-> FALSE]
  /\ due = [c \in Clock |-> FALSE]
  /\ tstate = [c \in Clock |-> "Stopped"]
  /\ store = {}
  /\ firing = NotFiring

Goto(from, to) == pc = from /\ pc' = to

-----------------------------------------------------------------------------
(* A user of the blocker: general calls register, look at the condition    *)
(* before each block and unregister at the end.                            *)

StartCall(k) ==
  /\ pc = "Idle"
  /\ call' = k
  /\ pc' = IF k.general THEN "Register" ELSE "Enter"
  /\ UNCHANGED <<waiterVars, timerVars, res, ready, registered, source>>

EventRegister ==
  /\ Goto("Register", "Look")
  /\ registered' = TRUE
  /\ UNCHANGED <<waiterVars, timerVars, call, res, ready, source>>

LookReady ==
  /\ Goto("Look", "Unregister")
  /\ ready
  /\ ready' = FALSE
  /\ UNCHANGED <<waiterVars, timerVars, call, res, registered, source>>

LookAgain ==
  /\ Goto("Look", "Enter")
  /\ ~ready
  /\ UNCHANGED <<waiterVars, timerVars, call, res, ready, registered, source>>

Return_Blind ==
  /\ Goto("Return", CASE call.general /\ res = "Ok" -> "Enter"
                      [] call.general /\ res # "Ok" -> "Unregister"
                      [] OTHER -> "End")
  /\ UNCHANGED <<waiterVars, timerVars, call, res, ready, registered, source>>

Return ==
  /\ Goto("Return", CASE call.general /\ res = "Ok" -> "Look"
                      [] call.general /\ res # "Ok" -> "Unregister"
                      [] OTHER -> "End")
  /\ UNCHANGED <<waiterVars, timerVars, call, res, ready, registered, source>>

EventUnregister ==
  /\ Goto("Unregister", "End")
  /\ Clear(self, GENERAL_WAITID)
  /\ registered' = FALSE
  /\ UNCHANGED <<timerVars, call, res, ready, source>>

EndCall ==
  /\ Goto("End", "Idle")
  /\ call' = NoCall
  /\ res' = "none"
  /\ due' = [c \in Clock |-> FALSE]
  /\ UNCHANGED <<waiterVars, ready, registered, source, paused, enabled,
                 tstate, store, firing>>

-----------------------------------------------------------------------------
(* Entering the blocking function. *)

Timed == call.timer # NoTimer

Enter ==
  /\ pc = "Enter"
  /\ res' = "none"
  /\ pc' = CASE call.kind = "short" -> "Check"
             [] Timed -> "Swap"
             [] OTHER -> "Wait"
  /\ UNCHANGED <<waiterVars, timerVars, call, ready, registered, source>>

(* Timer::SwapAnd under the timer's lock: an expiration of the old setting *)
(* is still delivered, a deadline already behind expires at once.  Then    *)
(* Timer::Reset with the delta it computed: Stop for 0, or arm the timer.  *)

Swap ==
  LET c == call.timer
  IN /\ pc = "Swap"
     /\ pc' = IF due[c] THEN "StopRead" ELSE "Reset"
     /\ \E oldExp \in {e \in BOOLEAN : e => ~paused[c] /\ enabled[c]} :
          IF oldExp \/ due[c]
            THEN Trigger(self, TIMER_WAITID)
            ELSE UNCHANGED waiterVars
     /\ paused' = [paused EXCEPT ![c] = FALSE]
     /\ enabled' = [enabled EXCEPT ![c] = ~due[c]]
     /\ UNCHANGED <<call, res, ready, registered, source, due, tstate, store,
                    firing>>

StoreFree == firing = NotFiring

ResetTimer ==
  /\ Goto("Reset", "Running")
  /\ StoreFree
  /\ store' = store \cup {call.timer}
  /\ UNCHANGED <<waiterVars, call, res, ready, registered, source, paused,
                 enabled, due, tstate, firing>>

SetRunning ==
  /\ Goto("Running", "Wait")
  /\ tstate' = [tstate EXCEPT ![call.timer] = "Running"]
  /\ UNCHANGED <<waiterVars, call, res, ready, registered, source, paused,
                 enabled, due, store, firing>>

-----------------------------------------------------------------------------
(* Blocker::block, BlockGeneral, BlockGeneralOnly, BlockInterrupt: the     *)
(* mask, Waiter::Wait and what follows each of the bits.                   *)

WaitMask_Overwritten ==
  IF call.general THEN {GENERAL_WAITID}
  ELSE {INTERRUPT_WAITID} \cup (IF Timed THEN {TIMER_WAITID} ELSE {})

WaitMask ==
  (IF call.kind = "generalOnly" THEN {} ELSE {INTERRUPT_WAITID})
    \cup (IF Timed THEN {TIMER_WAITID} ELSE {})
    \cup (IF call.general THEN {GENERAL_WAITID} ELSE {})

WaitGeneral ==
  /\ pc = "Wait"
  /\ WaitReturns(self, WaitMask, GENERAL_WAITID)
  /\ res' = "Ok"
  /\ pc' = IF Timed THEN "Cancel" ELSE "ClearGeneral"
  /\ UNCHANGED <<timerVars, call, ready, registered, source>>

WaitInterrupt ==
  /\ Goto("Wait", "SleepFinish")
  /\ WaitReturns(self, WaitMask, INTERRUPT_WAITID)
  /\ res' = "Interrupted"
  /\ UNCHANGED <<timerVars, call, ready, registered, source>>

WaitTimer ==
  /\ Goto("Wait", "ClearTimer")
  /\ WaitReturns(self, WaitMask, TIMER_WAITID)
  /\ res' = "ETIMEDOUT"
  /\ UNCHANGED <<timerVars, call, ready, registered, source>>

Sleep ==
  /\ Goto("Wait", "Asleep")
  /\ WaitSleeps(self, WaitMask)
  /\ UNCHANGED <<timerVars, call, res, ready, registered, source>>

WakeUp ==
  /\ Goto("Asleep", "Wait")
  /\ Resume(self)
  /\ UNCHANGED <<timerVars, call, res, ready, registered, source>>

SleepFinish ==
  /\ pc = "SleepFinish"
  /\ Trigger(self, INTERRUPT_WAITID)
  /\ pc' = IF Timed THEN "Cancel" ELSE "Return"
  /\ UNCHANGED <<timerVars, call, res, ready, registered, source>>

ClearGeneral ==
  /\ pc = "ClearGeneral"
  /\ Clear(self, GENERAL_WAITID)
  /\ pc' = IF Timed THEN "TimerClear" ELSE "Return"
  /\ UNCHANGED <<timerVars, call, res, ready, registered, source>>

ClearTimer ==
  /\ Goto("ClearTimer", "TimerClear")
  /\ Clear(self, TIMER_WAITID)
  /\ UNCHANGED <<timerVars, call, res, ready, registered, source>>

(* Timer::Cancel, then Timer::Stop. *)

Cancel_StopOnly ==
  /\ Goto("Cancel", "StopRead")
  /\ UNCHANGED <<waiterVars, timerVars, call, res, ready, registered, source>>

Cancel ==
  /\ Goto("Cancel", "StopRead")
  /\ paused' = [paused EXCEPT ![call.timer] = TRUE]
  /\ UNCHANGED <<waiterVars, call, res, ready, registered, source, enabled,
                 due, tstate, store, firing>>

AfterStop == CASE res = "none" -> "Wait"
               [] res = "Ok" -> "ClearGeneral"
               [] OTHER -> "TimerClear"

StopRead ==
  /\ pc = "StopRead"
  /\ pc' = IF tstate[call.timer] = "Running" THEN "StopWrite" ELSE AfterStop
  /\ UNCHANGED <<waiterVars, timerVars, call, res, ready, registered, source>>

StopWrite ==
  /\ Goto("StopWrite", "StopStore")
  /\ tstate' = [tstate EXCEPT ![call.timer] = "Stopped"]
  /\ UNCHANGED <<waiterVars, call, res, ready, registered, source, paused,
                 enabled, due, store, firing>>

StopStore ==
  /\ Goto("StopStore", AfterStop)
  /\ StoreFree
  /\ store' = store \ {call.timer}
  /\ UNCHANGED <<waiterVars, call, res, ready, registered, source, paused,
                 enabled, due, tstate, firing>>

(* The end of BlockWithTimer: timerEntry.Clear(). *)

TimerClear_Skipped ==
  /\ Goto("TimerClear", "Return")
  /\ UNCHANGED <<waiterVars, timerVars, call, res, ready, registered, source>>

TimerClear ==
  /\ Goto("TimerClear", "Return")
  /\ Clear(self, TIMER_WAITID)
  /\ UNCHANGED <<timerVars, call, res, ready, registered, source>>

(* Blocker::Check: the masks are the hexadecimal 0x011 and 0x010, that is  *)
(* bits 0 and 4.                                                           *)

CheckMask == IF call.general THEN {GENERAL_WAITID, 4} ELSE {4}

CheckGeneral ==
  /\ Goto("Check", "ClearGeneral")
  /\ GENERAL_WAITID \in bitmap[self] \cap CheckMask
  /\ res' = "Ok"
  /\ UNCHANGED <<waiterVars, timerVars, call, ready, registered, source>>

CheckTimeout ==
  /\ Goto("Check", "Return")
  /\ bitmap[self] \cap CheckMask = {}
  /\ res' = "ETIMEDOUT"
  /\ UNCHANGED <<waiterVars, timerVars, call, ready, registered, source>>

-----------------------------------------------------------------------------
(* The timer store: TimerStoreIntern::Trigger takes an entry and fires it, *)
(* all under the store's lock; Timer::Timeout runs under the timer's lock. *)

Pop(c) ==
  /\ StoreFree
  /\ c \in store
  /\ store' = store \ {c}
  /\ firing' = [timer |-> c, at |-> "Expire"]
  /\ UNCHANGED <<waiterVars, clientVars, paused, enabled, due, tstate>>

FireExpired(c) ==
  /\ firing = [timer |-> c, at |-> "Expire"]
  /\ tstate' = [tstate EXCEPT ![c] = "Expired"]
  /\ firing' = [firing EXCEPT !.at = "Timeout"]
  /\ UNCHANGED <<waiterVars, clientVars, paused, enabled, due, store>>

(* Timeout: a paused timer does nothing, a due one notifies its listener   *)
(* and is disabled, one that is not due is armed again.                    *)

Timeout(c) ==
  /\ firing = [timer |-> c, at |-> "Timeout"]
  /\ IF ~paused[c] /\ enabled[c] /\ due[c]
       THEN /\ Trigger(self, TIMER_WAITID)
            /\ enabled' = [enabled EXCEPT ![c] = FALSE]
       ELSE UNCHANGED <<waiterVars, enabled>>
  /\ firing' = IF ~paused[c] /\ enabled[c] /\ ~due[c]
                 THEN [firing EXCEPT !.at = "Rearm"]
                 ELSE NotFiring
  /\ UNCHANGED <<clientVars, paused, due, tstate, store>>

Rearm(c) ==
  /\ firing = [timer |-> c, at |-> "Rearm"]
  /\ store' = store \cup {c}
  /\ firing' = [firing EXCEPT !.at = "Run"]
  /\ UNCHANGED <<waiterVars, clientVars, paused, enabled, due, tstate>>

Rearmed(c) ==
  /\ firing = [timer |-> c, at |-> "Run"]
  /\ tstate' = [tstate EXCEPT ![c] = "Running"]
  /\ firing' = NotFiring
  /\ UNCHANGED <<waiterVars, clientVars, paused, enabled, due, store>>

-----------------------------------------------------------------------------
(* The rest of the system: the deadline passes, the event happens and its  *)
(* queue is notified, signals arrive and are taken by the run loop.        *)

DeadlinePasses(c) ==
  /\ pc # "Idle"
  /\ call.timer = c
  /\ ~due[c]
  /\ due' = [due EXCEPT ![c] = TRUE]
  /\ UNCHANGED <<waiterVars, clientVars, paused, enabled, tstate, store,
                 firing>>

SetReady ==
  /\ source = "Idle"
  /\ ready' = TRUE
  /\ source' = "Notify"
  /\ UNCHANGED <<waiterVars, timerVars, pc, call, res, registered>>

Notify ==
  /\ source = "Notify"
  /\ source' = "Idle"
  /\ IF registered
       THEN Trigger(self, GENERAL_WAITID)
       ELSE UNCHANGED waiterVars
  /\ UNCHANGED <<timerVars, pc, call, res, ready, registered>>

Interrupt ==
  /\ Trigger(self, INTERRUPT_WAITID)
  /\ UNCHANGED <<timerVars, clientVars>>

Interrupted ==
  /\ pc = "Idle"
  /\ INTERRUPT_WAITID \in bitmap[self]
  /\ Clear(self, INTERRUPT_WAITID)
  /\ UNCHANGED <<timerVars, clientVars>>

-----------------------------------------------------------------------------
CallStep ==
  \/ EventRegister \/ LookReady \/ LookAgain \/ Enter
  \/ Swap \/ ResetTimer \/ SetRunning
  \/ WaitGeneral \/ WaitInterrupt \/ WaitTimer \/ Sleep \/ WakeUp
  \/ SleepFinish \/ ClearGeneral \/ ClearTimer
  \/ Cancel \/ StopRead \/ StopWrite \/ StopStore \/ TimerClear
  \/ CheckGeneral \/ CheckTimeout
  \/ Return \/ EventUnregister \/ EndCall

FireStep ==
  \E c \in Clock :
    Pop(c) \/ FireExpired(c) \/ Timeout(c) \/ Rearm(c) \/ Rearmed(c)

Next ==
  \/ \E k \in Call : StartCall(k)
  \/ CallStep
  \/ FireStep
  \/ \E c \in Clock : DeadlinePasses(c)
  \/ SetReady \/ Notify
  \/ Interrupt \/ Interrupted

Spec == Init /\ [][Next]_vars

(* Time passes, the kernel IO thread triggers the store in its loop and    *)
(* waits no longer than the store tells it to, a source that changed its   *)
(* condition notifies, and self runs when it is not asleep.                *)

Fairness ==
  /\ WF_vars(CallStep)
  /\ WF_vars(FireStep)
  /\ WF_vars(\E c \in Clock : DeadlinePasses(c))
  /\ WF_vars(Notify)

FairSpec == Spec /\ Fairness

-----------------------------------------------------------------------------
(* Properties *)

(* No call starts with the timer bit of an earlier one: whichever bit ends *)
(* BlockWithTimer, and wherever the store's Fire stands at that moment,    *)
(* Cancel and timerEntry.Clear leave nothing behind.                       *)
NoStaleTimer ==
  pc \in {"Idle", "Register", "Look", "Enter", "Swap"} =>
    TIMER_WAITID \notin bitmap[self]

(* A call that reports ETIMEDOUT from the timer has reached its own        *)
(* deadline, whatever the two block timers did for the calls before it.    *)
TimeoutIsDue ==
  pc = "ClearTimer" => due[call.timer]

(* A condition that became true after the task looked sets the general bit *)
(* before the task can sleep on it: register, look, block in this order,   *)
(* with the bit cleared between block and look.                            *)
NoLostEvent ==
  pc \in {"Wait", "Asleep"} /\ call.general /\ ready /\ source = "Idle" =>
    GENERAL_WAITID \in bitmap[self]

(* A call with a deadline ends, a signal ends every call but               *)
(* BlockGeneralOnly, and a general call ends once its condition holds.     *)
CallEnds ==
  /\ (pc # "Idle" /\ Timed) ~> (pc = "Idle")
  /\ (/\ pc # "Idle"
      /\ call.kind # "generalOnly"
      /\ INTERRUPT_WAITID \in bitmap[self]) ~> (pc = "Idle")
  /\ (pc # "Idle" /\ call.general /\ ready) ~> (pc = "Idle")

=============================================================================
