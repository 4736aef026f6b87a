------------------------------- MODULE Timer --------------------------------
(***************************************************************************)
(* Timers (timer.rs) and the store that fires them (timer_store.rs).       *)
(*                                                                         *)
(* A timer has a setting under its own lock.  Every call first changes the *)
(* setting under that lock and then, having released it, puts the timer    *)
(* into the store or takes it out, under the lock of the store.  Whoever   *)
(* has the store's lock fires the timers that are due before releasing it, *)
(* the I/O thread of the host does nothing else.  A critical section of a  *)
(* timer's lock is one step; the store's lock is held over several.        *)
(*                                                                         *)
(* There is one clock.  Keeper is the timer of the time keeper, armed at   *)
(* boot and never changed.                                                 *)
(***************************************************************************)
EXTENDS Integers, FiniteSets, FiniteSetsExt

CONSTANTS
  Timer, Keeper, NoTimer,
  Caller, IO,            \* threads that call, and the host's I/O thread
  PROCESS_TIME,          \* a timer due within it fires at once
  FireSlack, SwapSlack,  \* what Timeout and Get, and SwapAnd, add to the time
  Soon,                  \* the delay of a timer that is overdue
  MaxTime,               \* bound: the clock stops here
  Period,                \* the periods a setting may have
  KeeperPeriod,          \* the period of the time keeper's timer
  Sharing,               \* whether two threads may call on one timer
  Stall                  \* whether time may pass between two clock readings
                         \* in one critical section

ASSUME TimerAssumption ==
  /\ Keeper \in Timer /\ NoTimer \notin Timer /\ IO \notin Caller
  /\ {PROCESS_TIME, FireSlack, SwapSlack, MaxTime} \subseteq Nat
  /\ {Soon, KeeperPeriod} \subseteq Nat \ {0} /\ Period \subseteq Nat
  /\ Sharing \in BOOLEAN /\ Stall \in BOOLEAN

VARIABLES
  now,         \* the clock
  setting, paused, State, Expire,     \* of each timer
  val,         \* notified expirations since the timer was set
  first,       \* the first expiration it was set to
  timerSeq, nextExpire,               \* the store
  storeLock,   \* who has its lock
  pc,          \* where each thread is
  timer,       \* the timer its call is about
  delta,       \* the delay that call computed
  fired,       \* the timer it is firing
  ret          \* where it goes after Trigger

vars == <<now, setting, paused, State, Expire, val, first, timerSeq,
          nextExpire, storeLock, pc, timer, delta, fired, ret>>
timerVars == <<setting, paused, val, first>>
storeVars == <<timerSeq, nextExpire, Expire>>

Thread == Caller \cup {IO}
Setting == [Enabled : BOOLEAN, Next : Nat, Period : Nat]
Stopped == [Enabled |-> FALSE, Next |-> 0, Period |-> 0]
Pc == {"Idle", "Reset", "Stop", "StopClear", "CancelTimer", "SetRunning",
       "Clear", "Trigger", "Fire", "Timeout", "FireReset", "FireRunning"}
Unit(t) == [expire |-> Expire[t], timerId |-> t]

TypeOK ==
  /\ now \in 0..MaxTime
  /\ setting \in [Timer -> Setting] /\ paused \in [Timer -> BOOLEAN]
  /\ State \in [Timer -> {"Expired", "Running", "Stopped"}]
  /\ Expire \in [Timer -> Nat] /\ val \in [Timer -> Nat]
  /\ first \in [Timer -> Nat]
  /\ timerSeq \subseteq [expire : Nat, timerId : Timer]
  /\ nextExpire \in Nat
  /\ storeLock \in Thread \cup {NoTimer}
  /\ pc \in [Thread -> Pc] /\ timer \in [Thread -> Timer \cup {NoTimer}]
  /\ delta \in [Thread -> Nat] /\ fired \in [Thread -> Timer \cup {NoTimer}]
  /\ ret \in [Thread -> {"Idle", "SetRunning", "Clear"}]

(* Setting::At: the setting at a time, and the expirations up to it. *)

At_NoFirst(s, time) ==
  IF ~s.Enabled \/ s.Next > time THEN <<s, 0>>
  ELSE IF s.Period = 0 THEN <<[s EXCEPT !.Enabled = FALSE], 1>>
  ELSE LET exp == 1 + (time - s.Next) \div s.Period
       IN <<[s EXCEPT !.Next = time + s.Period], exp>>

At(s, time) ==
  IF ~s.Enabled \/ s.Next > time THEN <<s, 0>>
  ELSE IF s.Period = 0 THEN <<[s EXCEPT !.Enabled = FALSE], 1>>
  ELSE LET exp == 1 + (time - s.Next) \div s.Period
       IN <<[s EXCEPT !.Next = @ + s.Period * exp], exp>>

(* NextExpire: the delay of a setting at a time; 0 stands for none. *)

NextExpire(s, time) ==
  IF ~s.Enabled THEN 0 ELSE IF s.Next < time THEN Soon ELSE s.Next - time

(* The readings of the clock after the first in a critical section. *)
Later == IF Stall THEN now..MaxTime ELSE {now}

Init ==
  LET s == [Enabled |-> TRUE, Next |-> KeeperPeriod, Period |-> KeeperPeriod]
  IN /\ now = 0
     /\ setting = [t \in Timer |-> IF t = Keeper THEN s ELSE Stopped]
     /\ paused = [t \in Timer |-> FALSE]
     /\ State = [t \in Timer |-> IF t = Keeper THEN "Running" ELSE "Stopped"]
     /\ Expire = [t \in Timer |-> IF t = Keeper THEN s.Next ELSE 0]
     /\ val = [t \in Timer |-> 0]
     /\ first = [t \in Timer |-> IF t = Keeper THEN s.Next ELSE 0]
     /\ timerSeq = {[expire |-> s.Next, timerId |-> Keeper]}
     /\ nextExpire = s.Next
     /\ storeLock = NoTimer
     /\ pc = [c \in Thread |-> "Idle"]
     /\ timer = [c \in Thread |-> NoTimer]
     /\ delta = [c \in Thread |-> 0]
     /\ fired = [c \in Thread |-> NoTimer]
     /\ ret = [c \in Thread |-> "Idle"]

Tick ==
  /\ now < MaxTime
  /\ now' = now + 1
  /\ UNCHANGED <<setting, paused, State, Expire, val, first, timerSeq,
                 nextExpire, storeLock, pc, timer, delta, fired, ret>>

Goto(c, from, to) ==
  /\ pc[c] = from
  /\ pc' = [pc EXCEPT ![c] = to]

-----------------------------------------------------------------------------
(* The calls up to the release of the timer's lock. *)

Begin(c, t, to) ==
  /\ c \in Caller /\ t # Keeper
  /\ Sharing \/ \A d \in Caller : timer[d] # t
  /\ Goto(c, "Idle", to)
  /\ timer' = [timer EXCEPT ![c] = t]
  /\ UNCHANGED <<State, storeVars, storeLock, fired, ret>>

(* SwapAnd, with timerfd's reset of the count as f: what the old setting   *)
(* had still to notify is notified before f, unless the timer is paused.   *)
SwapAnd(c, t, s) ==
  LET time == now + SwapSlack
      new == At(s, time)
  IN /\ Begin(c, t, "Reset")
     /\ setting' = [setting EXCEPT ![t] = new[1]]
     /\ paused' = [paused EXCEPT ![t] = FALSE]
     /\ val' = [val EXCEPT ![t] = new[2]]
     /\ first' = [first EXCEPT ![t] = s.Next]
     /\ \E n \in Later :
          /\ now' = n
          /\ delta' = [delta EXCEPT ![c] = NextExpire(new[1], n)]

Get(c, t) ==
  LET at == At(setting[t], now + FireSlack)
  IN /\ ~paused[t]
     /\ Begin(c, t, "Reset")
     /\ setting' = [setting EXCEPT ![t] = at[1]]
     /\ val' = [val EXCEPT ![t] = @ + at[2]]
     /\ \E n \in Later :
          /\ now' = n
          /\ delta' = [delta EXCEPT ![c] = NextExpire(at[1], n)]
     /\ UNCHANGED <<paused, first>>

(* Cancel as Blocker::block uses it: the bit the timer sets is cleared     *)
(* afterwards.                                                             *)
Cancel(c, t) ==
  /\ Begin(c, t, "StopClear")
  /\ paused' = [paused EXCEPT ![t] = TRUE]
  /\ UNCHANGED <<now, setting, val, first, delta>>

Destroy(c, t) ==
  /\ Begin(c, t, "Stop")
  /\ setting' = [setting EXCEPT ![t].Enabled = FALSE]
  /\ UNCHANGED <<now, paused, val, first, delta>>

Clear(c) ==
  /\ Goto(c, "Clear", "Idle")
  /\ val' = [val EXCEPT ![timer[c]] = 0]
  /\ timer' = [timer EXCEPT ![c] = NoTimer]
  /\ UNCHANGED <<now, setting, paused, first, State, storeVars, storeLock,
                 delta, fired, ret>>

(* The end of a call that has changed the store. *)
SetRunning(c) ==
  /\ Goto(c, "SetRunning", "Idle")
  /\ State' = [State EXCEPT ![timer[c]] = "Running"]
  /\ timer' = [timer EXCEPT ![c] = NoTimer]
  /\ UNCHANGED <<now, timerVars, storeVars, storeLock, delta, fired, ret>>

-----------------------------------------------------------------------------
(* Reset and Stop. *)

LockStore(c, from) ==
  /\ storeLock = NoTimer
  /\ storeLock' = c
  /\ Goto(c, from, "Trigger")

ResetZero(c) ==
  /\ Goto(c, "Reset", "Stop")
  /\ delta[c] = 0
  /\ UNCHANGED <<now, timerVars, storeVars, State, storeLock, timer, delta,
                 fired, ret>>

StopNotRunning(c) ==
  /\ pc[c] \in {"Stop", "StopClear"}
  /\ State[timer[c]] # "Running"
  /\ pc' = [pc EXCEPT ![c] = IF @ = "Stop" THEN "Idle" ELSE "Clear"]
  /\ timer' = [timer EXCEPT ![c] = IF pc[c] = "Stop" THEN NoTimer ELSE @]
  /\ UNCHANGED <<now, timerVars, storeVars, State, storeLock, delta, fired,
                 ret>>

StopRunning(c) ==
  /\ pc[c] \in {"Stop", "StopClear"}
  /\ State[timer[c]] = "Running"
  /\ State' = [State EXCEPT ![timer[c]] = "Stopped"]
  /\ pc' = [pc EXCEPT ![c] = "CancelTimer"]
  /\ ret' = [ret EXCEPT ![c] = IF pc[c] = "Stop" THEN "Idle" ELSE "Clear"]
  /\ UNCHANGED <<now, timerVars, storeVars, storeLock, timer, delta, fired>>

(* TimerStoreIntern::ResetTimer. *)

ResetTimer(t, timeout) ==
  LET expire == now + timeout
  IN /\ Expire' = [Expire EXCEPT ![t] = expire]
     /\ nextExpire' = IF nextExpire = 0 \/ nextExpire > expire
                        THEN expire ELSE nextExpire
     /\ timerSeq' = (timerSeq \ {Unit(t)})
                       \cup {[expire |-> expire, timerId |-> t]}

Reset(c) ==
  /\ LockStore(c, "Reset")
  /\ delta[c] > 0
  /\ ResetTimer(timer[c], delta[c])
  /\ ret' = [ret EXCEPT ![c] = "SetRunning"]
  /\ UNCHANGED <<now, timerVars, State, timer, delta, fired>>

CancelTimer(c) ==
  /\ LockStore(c, "CancelTimer")
  /\ timerSeq' = timerSeq \ {Unit(timer[c])}
  /\ UNCHANGED <<now, timerVars, State, Expire, nextExpire, timer, delta,
                 fired, ret>>

-----------------------------------------------------------------------------
(* Trigger, under the lock of the store. *)

IOTrigger ==
  /\ LockStore(IO, "Idle")
  /\ UNCHANGED <<now, timerVars, State, storeVars, timer, delta, fired, ret>>

Due == nextExpire # 0 /\ nextExpire <= now + PROCESS_TIME

(* The timers of the store that no other one comes before. *)
First == {u \in timerSeq : \A w \in timerSeq : u.expire <= w.expire}

GetFirst_Forgets(c) ==
  /\ Due
  /\ Goto(c, "Trigger", "Fire")
  /\ \E u \in First :
       /\ timerSeq' = timerSeq \ {u}
       /\ nextExpire' = 0
       /\ fired' = [fired EXCEPT ![c] = u.timerId]
  /\ UNCHANGED <<now, timerVars, State, Expire, storeLock, timer, delta, ret>>

(* GetFirst takes the first timer, whenever it expires: nextExpire may be  *)
(* that of a timer which was removed.  Of timers that expire together it   *)
(* takes any.                                                              *)
GetFirst(c) ==
  /\ Due
  /\ Goto(c, "Trigger", "Fire")
  /\ \E u \in First :
       LET rest == timerSeq \ {u}
       IN /\ timerSeq' = rest
          /\ nextExpire' = IF rest = {} THEN 0 ELSE Min({w.expire : w \in rest})
          /\ fired' = [fired EXCEPT ![c] = u.timerId]
  /\ UNCHANGED <<now, timerVars, State, Expire, storeLock, timer, delta, ret>>

TriggerDone(c) ==
  /\ ~Due \/ timerSeq = {}
  /\ Goto(c, "Trigger", ret[c])
  /\ storeLock' = NoTimer
  /\ timer' = [timer EXCEPT ![c] = IF ret[c] = "Idle" THEN NoTimer ELSE @]
  /\ ret' = [ret EXCEPT ![c] = "Idle"]
  /\ UNCHANGED <<now, timerVars, State, storeVars, delta, fired>>

(* Timer::Fire: the state, Timeout under the timer's lock, and the store.  *)

Fire(c) ==
  /\ Goto(c, "Fire", "Timeout")
  /\ State' = [State EXCEPT ![fired[c]] = "Expired"]
  /\ UNCHANGED <<now, timerVars, storeVars, storeLock, timer, delta, fired,
                 ret>>

FireEnd(c, from) ==
  /\ Goto(c, from, "Trigger")
  /\ fired' = [fired EXCEPT ![c] = NoTimer]

Timeout_OneShot(c) ==
  LET t == fired[c]
      at == IF paused[t] THEN <<setting[t], 0>>
                         ELSE At(setting[t], now + FireSlack)
  IN /\ setting' = [setting EXCEPT ![t] = at[1]]
     /\ val' = [val EXCEPT ![t] = @ + at[2]]
     /\ FireEnd(c, "Timeout")
     /\ UNCHANGED <<now, delta, paused, first, State, storeVars, storeLock,
                    timer, ret>>

Timeout(c) ==
  LET t == fired[c]
      at == IF paused[t] THEN <<setting[t], 0>>
                         ELSE At(setting[t], now + FireSlack)
  IN /\ pc[c] = "Timeout"
     /\ setting' = [setting EXCEPT ![t] = at[1]]
     /\ val' = [val EXCEPT ![t] = @ + at[2]]
     /\ \E n \in Later :
          LET d == IF paused[t] THEN 0 ELSE NextExpire(at[1], n)
          IN /\ now' = n
             /\ IF d > 0
                  THEN /\ Goto(c, "Timeout", "FireReset")
                       /\ delta' = [delta EXCEPT ![c] = d]
                       /\ UNCHANGED fired
                  ELSE FireEnd(c, "Timeout") /\ UNCHANGED delta
     /\ UNCHANGED <<paused, first, State, storeVars, storeLock, timer, ret>>

FireReset(c) ==
  /\ Goto(c, "FireReset", "FireRunning")
  /\ ResetTimer(fired[c], delta[c])
  /\ UNCHANGED <<now, timerVars, State, storeLock, timer, delta, fired, ret>>

FireRunning(c) ==
  /\ FireEnd(c, "FireRunning")
  /\ State' = [State EXCEPT ![fired[c]] = "Running"]
  /\ UNCHANGED <<now, timerVars, storeVars, storeLock, timer, delta, ret>>

-----------------------------------------------------------------------------
(* The settings a caller asks for. *)
Wanted == {Stopped} \cup
          [Enabled : {TRUE}, Next : 1..MaxTime, Period : Period \cup {0}]

Call(c) ==
  \E t \in Timer : \/ \E s \in Wanted : SwapAnd(c, t, s)
                   \/ Get(c, t) \/ Cancel(c, t) \/ Destroy(c, t)

Step(c) ==
  \/ ResetZero(c) \/ Reset(c) \/ StopNotRunning(c) \/ StopRunning(c)
  \/ CancelTimer(c) \/ Clear(c) \/ SetRunning(c)
  \/ GetFirst(c) \/ TriggerDone(c) \/ Fire(c) \/ Timeout(c)
  \/ FireReset(c) \/ FireRunning(c)

Next == Tick \/ IOTrigger \/ \E c \in Thread : Call(c) \/ Step(c)

Spec == Init /\ [][Next]_vars

(* The clock runs, a thread in the kernel runs on, and the I/O thread      *)
(* calls Trigger in every round of its loop.  The lock of the store is     *)
(* taken and freed again and again.                                        *)
FairSpec ==
  /\ Spec /\ WF_vars(Tick) /\ SF_vars(IOTrigger)
  /\ \A c \in Thread : SF_vars(Step(c))

-----------------------------------------------------------------------------
(* Properties *)

InStore(t) == \E u \in timerSeq : u.timerId = t

Busy(t) == \E c \in Thread : timer[c] = t \/ fired[c] = t

(* "Enabled is true if the timer is running": an enabled timer that no     *)
(* call and no firing is at work on is in the store, whichever of them     *)
(* came last.  One that is not will never fire.                            *)
EnabledArmed ==
  \A t \in Timer : setting[t].Enabled /\ ~paused[t] => InStore(t) \/ Busy(t)

(* No expiration is lost or counted twice, whoever of Fire and Get sees it *)
(* first: the next one is the first one and val periods.                   *)
ExpirationsCounted ==
  \A t \in Timer :
    LET s == setting[t]
    IN s.Enabled /\ s.Period > 0 /\ ~paused[t] =>
         s.Next = first[t] + val[t] * s.Period

(* No timer stays in the store when its time has come: nextExpire never    *)
(* hides the first entry from the I/O thread, and EnabledArmed says that   *)
(* every enabled timer has an entry.                                       *)
Expires ==
  \A t \in Timer :
    []<>(\A u \in timerSeq : u.timerId = t => u.expire > now + FireSlack)
=============================================================================
