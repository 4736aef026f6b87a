--------------------------- MODULE BlockerProofs ----------------------------
(***************************************************************************)
(* Proofs about Blocker, for any set of block timers and of blocking calls *)
(* of the task: no stale timer bit, no early timeout, no lost event.       *)
(***************************************************************************)
EXTENDS Blocker, TLAPS

(* What the proof needs to know of the types. *)
Types ==
  /\ WaiterTypeOK
  /\ call.timer \in Clock \cup {NoTimer} /\ call.general \in BOOLEAN
  /\ ready \in BOOLEAN /\ registered \in BOOLEAN
  /\ source \in {"Idle", "Notify"}
  /\ paused \in [Clock -> BOOLEAN]
  /\ enabled \in [Clock -> BOOLEAN]
  /\ due \in [Clock -> BOOLEAN]

(* A timer that would notify self when it fires. *)
Live(c) == ~paused[c] /\ enabled[c]

TimedPc == {"Swap", "Reset", "Running", "ClearTimer", "Cancel", "StopRead",
            "StopWrite", "StopStore", "TimerClear"}

Armed == {"Reset", "Running", "Wait", "Asleep", "SleepFinish", "Cancel"}

Stopping == {"StopRead", "StopWrite", "StopStore"}

(* The timer steps belong to calls with a timer.  Only the timer of the    *)
(* running call can be live, and only until it fires or is cancelled: that *)
(* is what keeps the store's Fire of an earlier setting silent.            *)
TimedCall == pc \in TimedPc => Timed

OneLive ==
  \A c \in Clock : Live(c) => call.timer = c /\ pc \in Armed

(* The timer bit is the one of the running call, whose deadline is behind  *)
(* and whose timer has done its work.                                      *)
BitDue ==
  TIMER_WAITID \in bitmap[self] =>
    /\ Timed
    /\ pc \in Armed \cup Stopping \cup {"ClearGeneral", "ClearTimer", "TimerClear"}
    /\ ~Live(call.timer)
    /\ due[call.timer]

DueAtTimeout == pc = "ClearTimer" => due[call.timer]

(* A general call is registered from its first look to its last.  From a   *)
(* look that failed to the block, an event that was notified is in the bit.*)
RegisteredCall ==
  call.general /\ pc \notin {"Idle", "Register", "End"} => registered

AfterWait == pc \in {"SleepFinish", "Cancel"} => res # "none"

EventInBit ==
  /\ call.general /\ ready /\ source = "Idle"
  /\ \/ pc \in {"Enter", "Swap", "Reset", "Running", "Wait", "Asleep"}
     \/ pc \in Stopping /\ res = "none"
  => GENERAL_WAITID \in bitmap[self]

Inv ==
  /\ Types /\ TimedCall /\ OneLive /\ BitDue /\ DueAtTimeout
  /\ RegisteredCall /\ AfterWait /\ EventInBit

(* Trigger sets one bit of one task. *)
LEMMA TriggerBits ==
  ASSUME WaiterTypeOK, NEW t \in Task, NEW id \in WaiterID, Trigger(t, id)
  PROVE  /\ WaiterTypeOK'
         /\ bitmap'[t] = bitmap[t] \cup {id}
         /\ \A u \in Task : u # t => bitmap'[u] = bitmap[u]
BY DEF WaiterTypeOK, Trigger, WaitState

(* Clear takes one bit of one task. *)
LEMMA ClearBits ==
  ASSUME WaiterTypeOK, NEW t \in Task, NEW id \in WaiterID, Clear(t, id)
  PROVE  /\ WaiterTypeOK'
         /\ bitmap'[t] = bitmap[t] \ {id}
         /\ \A u \in Task : u # t => bitmap'[u] = bitmap[u]
BY DEF WaiterTypeOK, Clear

(* Waiter::Wait and taskMgr::Wait leave the bits alone. *)
LEMMA WaitBits ==
  ASSUME WaiterTypeOK, NEW t \in Task, NEW m \in SUBSET WaiterID,
         \/ \E id \in WaiterID : WaitReturns(t, m, id)
         \/ WaitSleeps(t, m)
         \/ Resume(t)
  PROVE  WaiterTypeOK' /\ bitmap' = bitmap
BY DEF WaiterTypeOK, WaitReturns, WaitSleeps, Resume, WaitState

-----------------------------------------------------------------------------
(* The initial state satisfies the invariant. *)
LEMMA InvInit == Init => Inv
<1> SUFFICES ASSUME Init PROVE Inv
  OBVIOUS
<1>1. Types
  BY DEF Init, WaiterInit, Types, WaiterTypeOK, WaitState, NoCall
<1>2. bitmap[self] = {}
  BY BlockerAssumption DEF Init, WaiterInit
<1>3. pc = "Idle" /\ ~call.general /\ \A c \in Clock : ~Live(c)
  BY DEF Init, NoCall, Live
<1> QED
  BY <1>1, <1>2, <1>3
     DEF Inv, TimedCall, TimedPc, OneLive, BitDue, DueAtTimeout,
         RegisteredCall, AfterWait, EventInBit, Stopping

(* Every step of the call, of the timers and of the rest keeps it. *)
LEMMA InvNext == Inv /\ [Next]_vars => Inv'
<1> SUFFICES ASSUME Inv, [Next]_vars PROVE Inv'
  OBVIOUS
<1>i. /\ self \in Task /\ NoTimer \notin Clock
      /\ GENERAL_WAITID \in WaiterID /\ INTERRUPT_WAITID \in WaiterID
      /\ TIMER_WAITID \in WaiterID
      /\ GENERAL_WAITID # TIMER_WAITID /\ INTERRUPT_WAITID # TIMER_WAITID
      /\ GENERAL_WAITID # INTERRUPT_WAITID
      /\ WaitMask \in SUBSET WaiterID
  BY BlockerAssumption
     DEF GENERAL_WAITID, INTERRUPT_WAITID, TIMER_WAITID, WaiterID, WaitMask
<1>t. WaiterTypeOK
  BY DEF Inv, Types
<1> USE DEF Inv, Types, TimedCall, TimedPc, OneLive, BitDue, DueAtTimeout,
            RegisteredCall, AfterWait, EventInBit, Live, Armed, Stopping,
            Timed, Goto, waiterVars, timerVars, clientVars
<1>1. CASE EventRegister
  <2>1. WaiterTypeOK' /\ bitmap' = bitmap
    BY <1>1, <1>t DEF EventRegister, WaiterTypeOK
  <2> QED
    BY <1>1, <1>i, <2>1 DEF EventRegister
<1>2. CASE LookReady
  <2>1. WaiterTypeOK' /\ bitmap' = bitmap
    BY <1>2, <1>t DEF LookReady, WaiterTypeOK
  <2> QED
    BY <1>2, <1>i, <2>1 DEF LookReady
<1>3. CASE LookAgain
  <2>1. WaiterTypeOK' /\ bitmap' = bitmap
    BY <1>3, <1>t DEF LookAgain, WaiterTypeOK
  <2> QED
    BY <1>3, <1>i, <2>1 DEF LookAgain
<1>4. CASE Return
  <2>1. WaiterTypeOK' /\ bitmap' = bitmap
    BY <1>4, <1>t DEF Return, WaiterTypeOK
  <2> QED
    BY <1>4, <1>i, <2>1 DEF Return
<1>5. CASE EventUnregister
  <2>1. WaiterTypeOK' /\ bitmap'[self] = bitmap[self] \ {GENERAL_WAITID}
    BY <1>5, <1>i, <1>t, ClearBits DEF EventUnregister
  <2> QED
    BY <1>5, <1>i, <2>1 DEF EventUnregister
<1>6. CASE Enter
  <2>1. WaiterTypeOK' /\ bitmap' = bitmap
    BY <1>6, <1>t DEF Enter, WaiterTypeOK
  <2> QED
    BY <1>6, <1>i, <2>1 DEF Enter
<1>7. CASE ResetTimer
  <2>1. WaiterTypeOK' /\ bitmap' = bitmap
    BY <1>7, <1>t DEF ResetTimer, WaiterTypeOK
  <2> QED
    BY <1>7, <1>i, <2>1 DEF ResetTimer
<1>8. CASE SetRunning
  <2>1. WaiterTypeOK' /\ bitmap' = bitmap
    BY <1>8, <1>t DEF SetRunning, WaiterTypeOK
  <2> QED
    BY <1>8, <1>i, <2>1 DEF SetRunning
<1>9. CASE WaitGeneral
  <2>1. WaiterTypeOK' /\ bitmap' = bitmap
    BY <1>9, <1>i, <1>t, WaitBits DEF WaitGeneral
  <2> QED
    BY <1>9, <1>i, <2>1 DEF WaitGeneral
<1>10. CASE WaitInterrupt
  <2>1. WaiterTypeOK' /\ bitmap' = bitmap
    BY <1>10, <1>i, <1>t, WaitBits DEF WaitInterrupt
  <2> QED
    BY <1>10, <1>i, <2>1 DEF WaitInterrupt
<1>11. CASE WaitTimer
  <2>1. WaiterTypeOK' /\ bitmap' = bitmap
    BY <1>11, <1>i, <1>t, WaitBits DEF WaitTimer
  <2> QED
    BY <1>11, <1>i, <2>1 DEF WaitTimer, WaitReturns
<1>12. CASE Sleep
  <2>1. WaiterTypeOK' /\ bitmap' = bitmap
    BY <1>12, <1>i, <1>t, WaitBits DEF Sleep
  <2> QED
    BY <1>12, <1>i, <2>1 DEF Sleep
<1>13. CASE WakeUp
  <2>1. WaiterTypeOK' /\ bitmap' = bitmap
    BY <1>13, <1>i, <1>t, WaitBits DEF WakeUp
  <2> QED
    BY <1>13, <1>i, <2>1 DEF WakeUp
<1>14. CASE SleepFinish
  <2>1. WaiterTypeOK' /\ bitmap'[self] = bitmap[self] \cup {INTERRUPT_WAITID}
    BY <1>14, <1>i, <1>t, TriggerBits DEF SleepFinish
  <2> QED
    BY <1>14, <1>i, <2>1 DEF SleepFinish
<1>15. CASE ClearGeneral
  <2>1. WaiterTypeOK' /\ bitmap'[self] = bitmap[self] \ {GENERAL_WAITID}
    BY <1>15, <1>i, <1>t, ClearBits DEF ClearGeneral
  <2> QED
    BY <1>15, <1>i, <2>1 DEF ClearGeneral
<1>16. CASE ClearTimer
  <2>1. WaiterTypeOK' /\ bitmap'[self] = bitmap[self] \ {TIMER_WAITID}
    BY <1>16, <1>i, <1>t, ClearBits DEF ClearTimer
  <2> QED
    BY <1>16, <1>i, <2>1 DEF ClearTimer
<1>17. CASE Cancel
  <2>1. WaiterTypeOK' /\ bitmap' = bitmap
    BY <1>17, <1>t DEF Cancel, WaiterTypeOK
  <2> QED
    BY <1>17, <1>i, <2>1 DEF Cancel
<1>18. CASE StopRead
  <2>1. WaiterTypeOK' /\ bitmap' = bitmap
    BY <1>18, <1>t DEF StopRead, WaiterTypeOK
  <2> QED
    BY <1>18, <1>i, <2>1 DEF StopRead, AfterStop
<1>19. CASE StopWrite
  <2>1. WaiterTypeOK' /\ bitmap' = bitmap
    BY <1>19, <1>t DEF StopWrite, WaiterTypeOK
  <2> QED
    BY <1>19, <1>i, <2>1 DEF StopWrite
<1>20. CASE StopStore
  <2>1. WaiterTypeOK' /\ bitmap' = bitmap
    BY <1>20, <1>t DEF StopStore, WaiterTypeOK
  <2> QED
    BY <1>20, <1>i, <2>1 DEF StopStore, AfterStop
<1>21. CASE TimerClear
  <2>1. WaiterTypeOK' /\ bitmap'[self] = bitmap[self] \ {TIMER_WAITID}
    BY <1>21, <1>i, <1>t, ClearBits DEF TimerClear
  <2> QED
    BY <1>21, <1>i, <2>1 DEF TimerClear
<1>22. CASE CheckGeneral
  <2>1. WaiterTypeOK' /\ bitmap' = bitmap
    BY <1>22, <1>t DEF CheckGeneral, WaiterTypeOK
  <2> QED
    BY <1>22, <1>i, <2>1 DEF CheckGeneral
<1>23. CASE CheckTimeout
  <2>1. WaiterTypeOK' /\ bitmap' = bitmap
    BY <1>23, <1>t DEF CheckTimeout, WaiterTypeOK
  <2> QED
    BY <1>23, <1>i, <2>1 DEF CheckTimeout
<1>24. CASE SetReady
  <2>1. WaiterTypeOK' /\ bitmap' = bitmap
    BY <1>24, <1>t DEF SetReady, WaiterTypeOK
  <2> QED
    BY <1>24, <1>i, <2>1 DEF SetReady
<1>25. CASE Interrupt
  <2>1. WaiterTypeOK' /\ bitmap'[self] = bitmap[self] \cup {INTERRUPT_WAITID}
    BY <1>25, <1>i, <1>t, TriggerBits DEF Interrupt
  <2> QED
    BY <1>25, <1>i, <2>1 DEF Interrupt
<1>26. CASE Interrupted
  <2>1. WaiterTypeOK' /\ bitmap'[self] = bitmap[self] \ {INTERRUPT_WAITID}
    BY <1>26, <1>i, <1>t, ClearBits DEF Interrupted
  <2> QED
    BY <1>26, <1>i, <2>1 DEF Interrupted
<1>27. ASSUME NEW k \in Call, StartCall(k) PROVE Inv'
  <2>1. WaiterTypeOK' /\ bitmap' = bitmap
    BY <1>27, <1>t DEF StartCall, WaiterTypeOK
  <2>2. k.timer \in Clock \cup {NoTimer} /\ k.general \in BOOLEAN
    BY DEF Call
  <2> QED
    BY <1>27, <1>i, <2>1, <2>2 DEF StartCall
<1>28. CASE EndCall
  <2>1. WaiterTypeOK' /\ bitmap' = bitmap
    BY <1>28, <1>t DEF EndCall, WaiterTypeOK
  <2>2. call'.timer = NoTimer /\ call'.general = FALSE
    BY <1>28 DEF EndCall, NoCall
  <2>3. due' \in [Clock -> BOOLEAN]
    BY <1>28 DEF EndCall
  <2> QED
    BY <1>28, <1>i, <2>1, <2>2, <2>3 DEF EndCall
<1>29. CASE Swap
  <2> DEFINE c == call.timer
  <2>1. pc = "Swap" /\ c \in Clock /\ ~Live(c) /\ TIMER_WAITID \notin bitmap[self]
    BY <1>29, <1>i DEF Swap
  <2>2. IF due[c] THEN Trigger(self, TIMER_WAITID) ELSE UNCHANGED waiterVars
    BY <1>29, <2>1 DEF Swap
  <2>3. /\ WaiterTypeOK'
        /\ due[c] => bitmap'[self] = bitmap[self] \cup {TIMER_WAITID}
        /\ ~due[c] => bitmap' = bitmap
    <3>1. CASE due[c]
      BY <1>i, <1>t, <2>2, <3>1, TriggerBits
    <3>2. CASE ~due[c]
      BY <1>t, <2>2, <3>2 DEF WaiterTypeOK
    <3> QED
      BY <3>1, <3>2
  <2>4. /\ pc' = IF due[c] THEN "StopRead" ELSE "Reset"
        /\ paused' = [paused EXCEPT ![c] = FALSE]
        /\ enabled' = [enabled EXCEPT ![c] = ~due[c]]
        /\ UNCHANGED <<call, res, ready, registered, source, due>>
    BY <1>29 DEF Swap
  <2>5. /\ paused' \in [Clock -> BOOLEAN] /\ enabled' \in [Clock -> BOOLEAN]
        /\ enabled'[c] = ~due[c]
        /\ \A d \in Clock \ {c} : ~Live(d)'
    BY <2>1, <2>4
  <2> QED
    BY <1>i, <2>1, <2>3, <2>4, <2>5
<1>30. ASSUME NEW c \in Clock, Pop(c) \/ FireExpired(c) \/ Rearm(c) \/ Rearmed(c)
       PROVE  Inv'
  BY <1>30, <1>i DEF Pop, FireExpired, Rearm, Rearmed, WaiterTypeOK
<1>31. ASSUME NEW c \in Clock, Timeout(c) PROVE Inv'
  <2>1. UNCHANGED <<clientVars, paused, due>>
    BY <1>31 DEF Timeout
  <2>2. CASE Live(c) /\ due[c]
    <3>1. WaiterTypeOK' /\ bitmap'[self] = bitmap[self] \cup {TIMER_WAITID}
      BY <1>31, <1>i, <1>t, <2>2, TriggerBits DEF Timeout
    <3>2. enabled' = [enabled EXCEPT ![c] = FALSE]
      BY <1>31, <2>2 DEF Timeout
    <3>3. call.timer = c /\ pc \in Armed
      BY <2>2
    <3> QED
      BY <1>i, <2>1, <2>2, <3>1, <3>2, <3>3
  <2>3. CASE ~(Live(c) /\ due[c])
    <3>1. UNCHANGED <<waiterVars, enabled>>
      BY <1>31, <2>3 DEF Timeout
    <3> QED
      BY <1>i, <2>1, <3>1 DEF WaiterTypeOK
  <2> QED
    BY <2>2, <2>3
<1>32. ASSUME NEW c \in Clock, DeadlinePasses(c) PROVE Inv'
  BY <1>32, <1>i DEF DeadlinePasses, WaiterTypeOK
<1>33. CASE Notify
  <2>1. /\ WaiterTypeOK'
        /\ registered => bitmap'[self] = bitmap[self] \cup {GENERAL_WAITID}
        /\ ~registered => bitmap' = bitmap
    <3>1. CASE registered
      BY <1>33, <1>i, <1>t, <3>1, TriggerBits DEF Notify
    <3>2. CASE ~registered
      BY <1>33, <1>t, <3>2 DEF Notify, WaiterTypeOK
    <3> QED
      BY <3>1, <3>2
  <2> QED
    BY <1>33, <1>i, <2>1 DEF Notify
<1>34. CASE UNCHANGED vars
  BY <1>34, <1>i DEF vars, WaiterTypeOK
<1> QED
  BY <1>1, <1>2, <1>3, <1>4, <1>5, <1>6, <1>7, <1>8, <1>9, <1>10, <1>11,
     <1>12, <1>13, <1>14, <1>15, <1>16, <1>17, <1>18, <1>19, <1>20, <1>21,
     <1>22, <1>23, <1>24, <1>25, <1>26, <1>27, <1>28, <1>29, <1>30, <1>31,
     <1>32, <1>33, <1>34
     DEF Next, CallStep, FireStep

(* The invariant holds in every reachable state. *)
LEMMA Invariant == Spec => []Inv
BY InvInit, InvNext, PTL DEF Spec

(* For any set of block timers and calls, no blocking call starts with a   *)
(* timer bit that BlockWithTimer of an earlier call left behind.           *)
THEOREM NoStale == Spec => []NoStaleTimer
<1>1. Inv => NoStaleTimer
  BY DEF Inv, BitDue, NoStaleTimer, Armed, Stopping
<1> QED
  BY <1>1, Invariant, PTL

(* For any set of block timers and calls, BlockWithTimer reports ETIMEDOUT *)
(* only after the deadline of its own call.                                *)
THEOREM Due == Spec => []TimeoutIsDue
<1>1. Inv => TimeoutIsDue
  BY DEF Inv, DueAtTimeout, TimeoutIsDue
<1> QED
  BY <1>1, Invariant, PTL

(* For any set of block timers and calls, a task blocks on its general     *)
(* entry only while the notified condition is still in its general bit.    *)
THEOREM EventKept == Spec => []NoLostEvent
<1>1. Inv => NoLostEvent
  BY DEF Inv, EventInBit, NoLostEvent
<1> QED
  BY <1>1, Invariant, PTL
=============================================================================
