---------------------------- MODULE TimerProofs -----------------------------
(***************************************************************************)
(* Proofs about Timer, for any timers, threads, delays and periods.  As in *)
(* the run, one thread at a time calls on a timer (~Sharing), and the two  *)
(* clock readings of one critical section agree (~Stall).                  *)
(***************************************************************************)
EXTENDS Timer, TLAPS

Reading == ~Sharing /\ ~Stall

(* What the proofs need of the types: not nextExpire, which only decides   *)
(* when a timer fires, and not the lock of the store, since no property    *)
(* rests on who has it.                                                    *)
Types ==
  /\ now \in Nat
  /\ setting \in [Timer -> Setting] /\ paused \in [Timer -> BOOLEAN]
  /\ State \in [Timer -> {"Expired", "Running", "Stopped"}]
  /\ Expire \in [Timer -> Nat] /\ val \in [Timer -> Nat]
  /\ first \in [Timer -> Nat]
  /\ timerSeq \subseteq [expire : Nat, timerId : Timer]
  /\ pc \in [Thread -> Pc] /\ timer \in [Thread -> Timer \cup {NoTimer}]
  /\ delta \in [Thread -> Nat] /\ fired \in [Thread -> Timer \cup {NoTimer}]
  /\ ret \in [Thread -> {"Idle", "SetRunning", "Clear"}]

(* A thread in a call has a timer, no other thread has it, and the I/O     *)
(* thread never has one.                                                   *)
InTrigger(c) == pc[c] \in {"Trigger", "Fire", "Timeout", "FireReset",
                           "FireRunning"}
Calls ==
  /\ timer[IO] = NoTimer
  /\ \A c, d \in Thread : timer[c] = timer[d] /\ timer[c] # NoTimer => c = d
  /\ \A c \in Thread :
       \/ pc[c] \in {"Reset", "Stop", "StopClear", "CancelTimer",
                     "SetRunning", "Clear"}
       \/ ret[c] # "Idle"
       => timer[c] \in Timer
  /\ \A c \in Thread :
       pc[c] \in {"Fire", "Timeout", "FireReset", "FireRunning"}
         => fired[c] \in Timer
  /\ \A c \in Thread :
       ret[c] # "Idle" => InTrigger(c) \/ pc[c] = "CancelTimer"

(* An enabled timer is in the store, or about to be put there by a call    *)
(* that has a delay, or in the hands of a firing that has not reached the  *)
(* store.                                                                  *)
Setter(c, t) == timer[c] = t /\ pc[c] = "Reset" /\ delta[c] > 0
Firing(c, t) == fired[c] = t /\ pc[c] \in {"Fire", "Timeout", "FireReset"}
Armed ==
  \A t \in Timer : setting[t].Enabled /\ ~paused[t] =>
    InStore(t) \/ \E c \in Thread : Setter(c, t) \/ Firing(c, t)

(* A call that takes its timer out of the store has disabled or paused it, *)
(* and one that clears the count has paused it.                            *)
Stops(c) == \/ pc[c] \in {"Stop", "StopClear", "CancelTimer"}
            \/ pc[c] = "Reset" /\ delta[c] = 0
Clears(c) == \/ pc[c] \in {"StopClear", "Clear"}
             \/ ret[c] = "Clear"
Quiet ==
  /\ \A c \in Thread : Stops(c) =>
       ~setting[timer[c]].Enabled \/ paused[timer[c]]
  /\ \A c \in Thread : Clears(c) => paused[timer[c]]

Inv == Types /\ Calls /\ Armed /\ Quiet /\ ExpirationsCounted

-----------------------------------------------------------------------------
(* Setting::At and NextExpire. *)

(* The times of the model are natural numbers. *)
LEMMA Times == /\ 1..MaxTime \subseteq Nat /\ Period \cup {0} \subseteq Nat
               /\ SwapSlack \in Nat /\ \A n \in Nat : n + SwapSlack \in Nat
  BY TimerAssumption

(* One more period than fit is more than was asked for. *)
LEMMA DivUp ==
  ASSUME NEW n \in Nat, NEW p \in Nat \ {0}
  PROVE  n \div p \in Nat /\ n < p * (1 + n \div p)
<1>1. n \div p \in Int /\ n % p \in 0..(p-1)
  OBVIOUS
<1>2. n = p * (n \div p) + (n % p)
  OBVIOUS
<1>3. n \div p \in Nat
  OBVIOUS
<1>4. \A a, b \in Nat : a * (1 + b) = a + a * b
  OBVIOUS
<1> QED
  BY <1>1, <1>2, <1>3, <1>4

LEMMA Distribute ==
  ASSUME NEW a \in Nat, NEW b \in Nat, NEW p \in Nat
  PROVE  /\ (a + b) * p = a * p + b * p
         /\ p * b = b * p
         /\ 0 * p = 0
  OBVIOUS

(* At leaves an enabled setting with its next expiration in the future, as *)
(* many periods later as it counted expirations; it enables none.          *)
LEMMA AtFacts ==
  ASSUME NEW s \in Setting, NEW time \in Nat
  PROVE  /\ At(s, time)[1] \in Setting /\ At(s, time)[2] \in Nat
         /\ At(s, time)[1].Enabled =>
              /\ s.Enabled
              /\ At(s, time)[1].Next > time
              /\ At(s, time)[1].Period = s.Period
              /\ At(s, time)[1].Next = s.Next + At(s, time)[2] * s.Period
<1>1. s.Enabled \in BOOLEAN /\ s.Next \in Nat /\ s.Period \in Nat
  BY DEF Setting
<1>2. CASE ~s.Enabled \/ s.Next > time
  <2>1. At(s, time) = <<s, 0>>
    BY <1>2 DEF At
  <2>2. s.Next = s.Next + 0 * s.Period
    BY <1>1, Distribute
  <2> QED
    BY <2>1, <2>2, <1>1, <1>2
<1>3. CASE s.Enabled /\ s.Next <= time /\ s.Period = 0
  <2> DEFINE r == [s EXCEPT !.Enabled = FALSE]
  <2>1. ~(~s.Enabled \/ s.Next > time)
    BY <1>1, <1>3
  <2>2. At(s, time) = <<r, 1>>
    BY <1>3, <2>1, Zenon DEF At
  <2>3. r \in Setting /\ ~r.Enabled
    BY Zenon DEF Setting
  <2> HIDE DEF r
  <2> QED
    BY <2>2, <2>3
<1>4. CASE s.Enabled /\ s.Next <= time /\ s.Period # 0
  <2> DEFINE e == 1 + (time - s.Next) \div s.Period
             r == [s EXCEPT !.Next = @ + s.Period * e]
  <2>1. ~(~s.Enabled \/ s.Next > time)
    BY <1>1, <1>4
  <2>2. At(s, time) = <<r, e>>
    BY <1>4, <2>1, Zenon DEF At
  <2>3. time - s.Next \in Nat /\ s.Period \in Nat \ {0}
    BY <1>1, <1>4
  <2> DEFINE k == (time - s.Next) \div s.Period
  <2>4. k \in Nat /\ time - s.Next < s.Period * (1 + k)
    BY <2>3, DivUp, Zenon
  <2> HIDE DEF k
  <2>5. e = 1 + k
    BY Zenon DEF k
  <2>6. e \in Nat /\ time - s.Next < s.Period * e
    BY <2>4, <2>5
  <2> HIDE DEF e
  <2>7. s.Period * e = e * s.Period /\ s.Period * e \in Nat
    BY <2>3, <2>6, Distribute
  <2>8. s.Next + s.Period * e \in Nat /\ s.Next + s.Period * e > time
    BY <1>1, <2>6, <2>7
  <2>9. /\ r \in Setting /\ r.Enabled = s.Enabled /\ r.Period = s.Period
        /\ r.Next = s.Next + s.Period * e
    BY <2>8 DEF Setting
  <2> HIDE DEF r
  <2> QED
    BY <1>4, <2>2, <2>6, <2>7, <2>8, <2>9
<1> QED
  BY <1>1, <1>2, <1>3, <1>4

LEMMA NextExpireFacts ==
  ASSUME NEW s \in Setting, NEW time \in Nat
  PROVE  /\ NextExpire(s, time) \in Nat
         /\ s.Enabled /\ s.Next > time => NextExpire(s, time) > 0
         /\ ~s.Enabled => NextExpire(s, time) = 0
  BY TimerAssumption DEF NextExpire, Setting

-----------------------------------------------------------------------------
(* TimerStoreIntern::ResetTimer puts a timer into the store and leaves     *)
(* every other one there.                                                  *)
LEMMA ResetTimerFacts ==
  ASSUME Types, NEW t \in Timer, NEW d \in Nat, ResetTimer(t, d)
  PROVE  /\ Expire' \in [Timer -> Nat]
         /\ timerSeq' \subseteq [expire : Nat, timerId : Timer]
         /\ InStore(t)'
         /\ \A u \in Timer : InStore(u) => InStore(u)'
<1> DEFINE e == now + d
           new == [expire |-> e, timerId |-> t]
<1>1. e \in Nat
  BY DEF Types
<1>2. /\ Expire' = [Expire EXCEPT ![t] = e]
      /\ timerSeq' = (timerSeq \ {Unit(t)}) \cup {new}
  BY Zenon DEF ResetTimer
<1>3. Expire' \in [Timer -> Nat]
  BY <1>1, <1>2 DEF Types
<1>4. new \in [expire : Nat, timerId : Timer] /\ new.timerId = t
  BY <1>1
<1>5. Unit(t).timerId = t
  BY DEF Unit
<1> HIDE DEF e, new
<1>6. timerSeq' \subseteq [expire : Nat, timerId : Timer]
  BY <1>2, <1>4, Zenon DEF Types
<1>7. InStore(t)'
  BY <1>2, <1>4, Zenon DEF InStore
<1>8. ASSUME NEW u \in Timer, InStore(u), u # t PROVE InStore(u)'
  <2>1. PICK w \in timerSeq : w.timerId = u
    BY <1>8 DEF InStore
  <2>2. w \in timerSeq'
    BY <1>2, <1>5, <1>8, <2>1, Zenon
  <2> QED
    BY <2>1, <2>2, Zenon DEF InStore
<1> QED
  BY <1>3, <1>6, <1>7, <1>8, Zenon

(* A setting that advances by n periods while n expirations are counted    *)
(* keeps the count right.                                                  *)
LEMMA AdvanceCounted ==
  ASSUME Types, ExpirationsCounted,
         NEW t \in Timer, NEW a \in Setting, NEW n \in Nat,
         ~paused[t] /\ a.Enabled =>
           /\ setting[t].Enabled
           /\ a.Period = setting[t].Period
           /\ a.Next = setting[t].Next + n * setting[t].Period,
         setting' = [setting EXCEPT ![t] = a],
         val' = [val EXCEPT ![t] = @ + n],
         paused' = paused, first' = first
  PROVE  ExpirationsCounted'
<1> SUFFICES ASSUME NEW u \in Timer,
                    (/\ setting[u].Enabled /\ setting[u].Period > 0
                     /\ ~paused[u])'
             PROVE  (setting[u].Next
                        = first[u] + val[u] * setting[u].Period)'
  BY Zenon DEF ExpirationsCounted
<1>1. CASE u # t
  BY <1>1 DEF Types, ExpirationsCounted
<1>2. CASE u = t
  <2>1. setting'[u] = a /\ val'[u] = val[t] + n /\ first'[u] = first[t]
    BY <1>2 DEF Types
  <2>2. a.Enabled /\ ~paused[t] /\ a.Period > 0
    BY <1>2, <2>1
  <2>3. setting[t].Next = first[t] + val[t] * setting[t].Period
    BY <2>2 DEF ExpirationsCounted
  <2>4. val[t] \in Nat /\ first[t] \in Nat /\ setting[t].Period \in Nat
    BY DEF Types, Setting
  <2>5. /\ val[t] * setting[t].Period \in Nat
        /\ n * setting[t].Period \in Nat
        /\ (val[t] + n) * setting[t].Period
             = val[t] * setting[t].Period + n * setting[t].Period
    BY <2>4, Distribute
  <2>6. a.Next = first[t] + (val[t] + n) * a.Period
    BY <2>2, <2>3, <2>4, <2>5
  <2> QED
    BY <2>1, <2>6
<1> QED
  BY <1>1, <1>2

(* The steps.  Tick moves the clock, which no conjunct of Inv mentions. *)
LEMMA TickStep ==
  ASSUME Reading, Inv, Tick
  PROVE  Inv'
<1> USE DEF Inv
<1>1. Types'
  BY TimerAssumption DEF Reading, Tick, Types, Setting, Pc, Thread,
     timerVars, storeVars, vars
<1>2. Calls'
  BY TimerAssumption DEF Reading, Tick, Types, Thread, Calls, InTrigger,
     timerVars, storeVars, vars
<1>3. Armed'
  BY DEF Tick, Types, Thread, Calls, InTrigger, Armed, InStore, Setter,
     Firing, Quiet, Stops, timerVars, storeVars, vars
<1>4. Quiet'
  BY DEF Tick, Types, Thread, Calls, InTrigger, Quiet, Stops, Clears,
     timerVars, storeVars, vars
<1>5. ExpirationsCounted'
  BY DEF Tick, Types, Thread, Calls, InTrigger, Quiet, Stops, Clears,
     ExpirationsCounted, timerVars, storeVars, vars
<1> QED
  BY <1>1, <1>2, <1>3, <1>4, <1>5

(* The I/O thread takes the lock of the store for no call. *)
LEMMA IOTriggerStep ==
  ASSUME Reading, Inv, IOTrigger
  PROVE  Inv'
<1> USE DEF Inv
<1>1. Types'
  BY TimerAssumption DEF Reading, IOTrigger, LockStore, Goto, Types, Setting,
     Pc, Thread, timerVars, storeVars, vars
<1>2. Calls'
  BY TimerAssumption DEF Reading, IOTrigger, LockStore, Goto, Types, Thread,
     Calls, InTrigger, timerVars, storeVars, vars
<1>3. Armed'
  BY DEF IOTrigger, LockStore, Goto, Types, Thread, Calls, InTrigger, Armed,
     InStore, Setter, Firing, Quiet, Stops, timerVars, storeVars, vars
<1>4. Quiet'
  BY DEF IOTrigger, LockStore, Goto, Types, Thread, Calls, InTrigger, Quiet,
     Stops, Clears, timerVars, storeVars, vars
<1>5. ExpirationsCounted'
  BY DEF IOTrigger, LockStore, Goto, Types, Thread, Calls, InTrigger, Quiet,
     Stops, Clears, ExpirationsCounted, timerVars, storeVars, vars
<1> QED
  BY <1>1, <1>2, <1>3, <1>4, <1>5

(* Reset(0) is Stop. *)
LEMMA ResetZeroStep ==
  ASSUME Reading, Inv, NEW c \in Thread, ResetZero(c)
  PROVE  Inv'
<1> USE DEF Inv
<1>1. Types'
  BY TimerAssumption DEF Reading, ResetZero, Goto, Types, Setting, Pc,
     Thread, timerVars, storeVars, vars
<1>2. Calls'
  BY TimerAssumption DEF Reading, ResetZero, Goto, Types, Thread, Calls,
     InTrigger, timerVars, storeVars, vars
<1>3. Armed'
  BY DEF ResetZero, Goto, Types, Thread, Calls, InTrigger, Armed, InStore,
     Setter, Firing, Quiet, Stops, timerVars, storeVars, vars
<1>4. Quiet'
  BY SMTT(30), Z3T(30) DEF ResetZero, Goto, Types, Thread, Calls, InTrigger,
     Quiet, Stops,
     Clears, timerVars, storeVars, vars
<1>5. ExpirationsCounted'
  BY Zenon DEF ResetZero, Goto, Types, Thread, Calls, InTrigger, Quiet, Stops,
     Clears, ExpirationsCounted, timerVars, storeVars, vars
<1> QED
  BY <1>1, <1>2, <1>3, <1>4, <1>5

(* Stop of a timer that is not running leaves the store alone. *)
LEMMA StopNotRunningStep ==
  ASSUME Reading, Inv, NEW c \in Thread, StopNotRunning(c)
  PROVE  Inv'
<1> USE DEF Inv
<1>1. Types'
  BY Zenon, TimerAssumption DEF Reading, StopNotRunning, Types, Setting, Pc,
     Thread,
     timerVars, storeVars, vars
<1>2. Calls'
  BY Zenon, TimerAssumption DEF Reading, StopNotRunning, Types, Thread, Calls,
     InTrigger, timerVars, storeVars, vars
<1>3. Armed'
  BY Zenon DEF StopNotRunning, Types, Thread, Calls, InTrigger, Armed, InStore,
     Setter, Firing, Quiet, Stops, timerVars, storeVars, vars
<1>4. Quiet'
  BY Zenon DEF StopNotRunning, Types, Thread, Calls, InTrigger, Quiet, Stops,
     Clears, timerVars, storeVars, vars
<1>5. ExpirationsCounted'
  BY DEF StopNotRunning, Types, Thread, Calls, InTrigger, Quiet, Stops,
     Clears, ExpirationsCounted, timerVars, storeVars, vars
<1> QED
  BY <1>1, <1>2, <1>3, <1>4, <1>5

(* Stop of a running one goes to the store. *)
LEMMA StopRunningStep ==
  ASSUME Reading, Inv, NEW c \in Thread, StopRunning(c)
  PROVE  Inv'
<1> USE DEF Inv
<1>1. Types'
  BY Zenon, TimerAssumption DEF Reading, StopRunning, Types, Setting, Pc,
     Thread,
     timerVars, storeVars, vars
<1>2. Calls'
  BY TimerAssumption DEF Reading, StopRunning, Types, Thread, Calls,
     InTrigger, timerVars, storeVars, vars
<1>3. Armed'
  BY DEF StopRunning, Types, Thread, Calls, InTrigger, Armed, InStore,
     Setter, Firing, Quiet, Stops, timerVars, storeVars, vars
<1>4. Quiet'
  BY DEF StopRunning, Types, Thread, Calls, InTrigger, Quiet, Stops, Clears,
     timerVars, storeVars, vars
<1>5. ExpirationsCounted'
  BY DEF StopRunning, Types, Thread, Calls, InTrigger, Quiet, Stops, Clears,
     ExpirationsCounted, timerVars, storeVars, vars
<1> QED
  BY <1>1, <1>2, <1>3, <1>4, <1>5

(* Reset arms the timer of its call. *)
LEMMA ResetStep ==
  ASSUME Reading, Inv, NEW c \in Thread, Reset(c)
  PROVE  Inv'
<1> USE DEF Inv
<1>1. timer[c] \in Timer /\ delta[c] \in Nat
  BY DEF Reset, LockStore, Goto, Types, Calls
<1>2. ResetTimer(timer[c], delta[c])
  BY SMTT(30), Z3T(30) DEF Reset
<1>3. /\ Expire' \in [Timer -> Nat]
      /\ timerSeq' \subseteq [expire : Nat, timerId : Timer]
      /\ \A u \in Timer : InStore(u) => InStore(u)'
      /\ \A u \in Timer : u = timer[c] => InStore(u)'
  BY <1>1, <1>2, ResetTimerFacts, Zenon
<1>4. Types'
  BY Zenon, <1>3 DEF Reset, LockStore, Goto, Types, Pc, Thread, timerVars
<1>5. Calls'
  BY Zenon DEF Reset, LockStore, Goto, Types, Thread, Calls, InTrigger,
     timerVars
<1>6. Armed'
  <2> SUFFICES ASSUME NEW u \in Timer, (setting[u].Enabled /\ ~paused[u])',
                      ~InStore(u)'
               PROVE  \E d \in Thread : Setter(d, u)' \/ Firing(d, u)'
    BY Zenon DEF Armed
  <2>1. ~InStore(u) /\ u # timer[c]
    BY <1>3, Zenon
  <2>2. PICK d \in Thread : Setter(d, u) \/ Firing(d, u)
    BY Zenon, <2>1 DEF Armed, Reset, timerVars
  <2>3. d = c => Setter(d, u)' \/ Firing(d, u)'
    BY Zenon, <2>1, <2>2 DEF Reset, LockStore, Goto, Setter, Firing, Types
  <2>4. d # c => Setter(d, u)' \/ Firing(d, u)'
    BY Zenon, <2>2 DEF Reset, LockStore, Goto, Setter, Firing, Types
  <2> QED
    BY SMTT(30), Z3T(30), <2>3, <2>4
<1>7. Quiet'
  BY Zenon DEF Reset, LockStore, Goto, Types, Thread, Calls, InTrigger, Quiet,
     Stops, Clears,
     timerVars
<1>8. ExpirationsCounted'
  BY Zenon DEF Reset, ExpirationsCounted, timerVars
<1> QED
  BY <1>4, <1>5, <1>6, <1>7, <1>8

(* CancelTimer takes out a timer that is disabled or paused (Quiet). *)
LEMMA CancelTimerStep ==
  ASSUME Reading, Inv, NEW c \in Thread, CancelTimer(c)
  PROVE  Inv'
<1> USE DEF Inv
<1>1. Types'
  BY Zenon, TimerAssumption DEF Reading, CancelTimer, LockStore, Goto, Unit,
     Types,
     Setting, Pc, Thread, timerVars, storeVars, vars
<1>2. Calls'
  BY Zenon, TimerAssumption DEF Reading, CancelTimer, LockStore, Goto, Unit,
     Types,
     Thread, Calls, InTrigger, timerVars, storeVars, vars
<1>3. Armed'
  BY SMTT(30), Z3T(30) DEF CancelTimer, LockStore, Goto, Unit, Types, Thread,
     Calls, InTrigger,
     Armed, InStore, Setter, Firing, Quiet, Stops, timerVars, storeVars, vars
<1>4. Quiet'
  BY Zenon DEF CancelTimer, LockStore, Goto, Unit, Types, Thread, Calls,
     InTrigger,
     Quiet, Stops, Clears, timerVars, storeVars, vars
<1>5. ExpirationsCounted'
  BY Zenon DEF CancelTimer, LockStore, Goto, Unit, Types, Thread, Calls,
     InTrigger,
     Quiet, Stops, Clears, ExpirationsCounted, timerVars, storeVars, vars
<1> QED
  BY <1>1, <1>2, <1>3, <1>4, <1>5

(* Only a paused timer's count is cleared (Quiet). *)
LEMMA ClearStep ==
  ASSUME Reading, Inv, NEW c \in Thread, Clear(c)
  PROVE  Inv'
<1> USE DEF Inv
<1>1. Types'
  BY Zenon, TimerAssumption DEF Reading, Clear, Goto, Types, Setting, Pc,
     Thread,
     timerVars, storeVars, vars
<1>2. Calls'
  BY TimerAssumption DEF Reading, Clear, Goto, Types, Thread, Calls,
     InTrigger, timerVars, storeVars, vars
<1>3. Armed'
  BY SMTT(30), Z3T(30) DEF Clear, Goto, Types, Thread, Calls, InTrigger,
     Armed, InStore,
     Setter, Firing, Quiet, Stops, timerVars, storeVars, vars
<1>4. Quiet'
  BY Zenon DEF Clear, Goto, Types, Thread, Calls, InTrigger, Quiet, Stops,
     Clears,
     timerVars, storeVars, vars
<1>5. ExpirationsCounted'
  BY ZenonT(40) DEF Clear, Goto, Types, Thread, Calls, InTrigger, Quiet, Stops,
     Clears,
     ExpirationsCounted, timerVars, storeVars, vars
<1> QED
  BY <1>1, <1>2, <1>3, <1>4, <1>5

(* A call that has armed its timer ends. *)
LEMMA SetRunningStep ==
  ASSUME Reading, Inv, NEW c \in Thread, SetRunning(c)
  PROVE  Inv'
<1> USE DEF Inv
<1>1. Types'
  BY Zenon, TimerAssumption DEF Reading, SetRunning, Goto, Types, Setting, Pc,
     Thread, timerVars, storeVars, vars
<1>2. Calls'
  BY TimerAssumption DEF Reading, SetRunning, Goto, Types, Thread, Calls,
     InTrigger, timerVars, storeVars, vars
<1>3. Armed'
  BY SMTT(30), Z3T(30) DEF SetRunning, Goto, Types, Thread, Calls, InTrigger,
     Armed, InStore,
     Setter, Firing, Quiet, Stops, timerVars, storeVars, vars
<1>4. Quiet'
  BY SMTT(30), Z3T(30) DEF SetRunning, Goto, Types, Thread, Calls, InTrigger,
     Quiet, Stops,
     Clears, timerVars, storeVars, vars
<1>5. ExpirationsCounted'
  BY Zenon DEF SetRunning, Goto, Types, Thread, Calls, InTrigger, Quiet, Stops,
     Clears, ExpirationsCounted, timerVars, storeVars, vars
<1> QED
  BY <1>1, <1>2, <1>3, <1>4, <1>5

(* The timer that leaves the store is in the hands of the firing. *)
LEMMA GetFirstStep ==
  ASSUME Reading, Inv, NEW c \in Thread, GetFirst(c)
  PROVE  Inv'
<1> USE DEF Inv
<1>1. Types'
  BY Zenon, TimerAssumption DEF Reading, GetFirst, Goto, First, Types,
     Setting, Pc,
     Thread, timerVars, storeVars, vars
<1>2. Calls'
  BY Zenon, TimerAssumption DEF Reading, GetFirst, Goto, First, Types, Thread,
     Calls, InTrigger, timerVars, storeVars, vars
<1>3. Armed'
  BY SMTT(30), Z3T(30) DEF GetFirst, Goto, First, Types, Thread, Calls,
     InTrigger, Armed,
     InStore, Setter, Firing, Quiet, Stops, timerVars, storeVars, vars
<1>4. Quiet'
  BY Zenon DEF GetFirst, Goto, First, Types, Thread, Calls, InTrigger, Quiet,
     Stops, Clears, timerVars, storeVars, vars
<1>5. ExpirationsCounted'
  BY Zenon DEF GetFirst, Goto, First, Types, Thread, Calls, InTrigger, Quiet,
     Stops, Clears, ExpirationsCounted, timerVars, storeVars, vars
<1> QED
  BY <1>1, <1>2, <1>3, <1>4, <1>5

(* The lock of the store is released and the call goes on. *)
LEMMA TriggerDoneStep ==
  ASSUME Reading, Inv, NEW c \in Thread, TriggerDone(c)
  PROVE  Inv'
<1> USE DEF Inv
<1>1. Types'
  BY Zenon, TimerAssumption DEF Reading, TriggerDone, Goto, Types, Setting, Pc,
     Thread, timerVars, storeVars, vars
<1>2. Calls'
  BY Zenon, TimerAssumption DEF Reading, TriggerDone, Goto, Types, Thread,
     Calls,
     InTrigger, timerVars, storeVars, vars
<1>3. Armed'
  BY Zenon DEF TriggerDone, Goto, Types, Thread, Calls, InTrigger, Armed,
     InStore,
     Setter, Firing, Quiet, Stops, timerVars, storeVars, vars
<1>4. Quiet'
  BY ZenonT(40) DEF TriggerDone, Goto, Types, Thread, Calls, InTrigger, Quiet,
     Stops,
     Clears, timerVars, storeVars, vars
<1>5. ExpirationsCounted'
  BY Zenon DEF TriggerDone, Goto, Types, Thread, Calls, InTrigger, Quiet,
     Stops,
     Clears, ExpirationsCounted, timerVars, storeVars, vars
<1> QED
  BY <1>1, <1>2, <1>3, <1>4, <1>5

(* Fire only sets the state of the timer. *)
LEMMA FireStep ==
  ASSUME Reading, Inv, NEW c \in Thread, Fire(c)
  PROVE  Inv'
<1> USE DEF Inv
<1>1. Types'
  BY Zenon, TimerAssumption DEF Reading, Fire, Goto, Types, Setting, Pc,
     Thread,
     timerVars, storeVars, vars
<1>2. Calls'
  BY SMTT(30), Z3T(30), TimerAssumption DEF Reading, Fire, Goto, Types,
     Thread, Calls,
     InTrigger, timerVars, storeVars, vars
<1>3. Armed'
  BY SMTT(30), Z3T(30) DEF Fire, Goto, Types, Thread, Calls, InTrigger,
     Armed, InStore, Setter,
     Firing, Quiet, Stops, timerVars, storeVars, vars
<1>4. Quiet'
  BY SMTT(30), Z3T(30) DEF Fire, Goto, Types, Thread, Calls, InTrigger,
     Quiet, Stops, Clears,
     timerVars, storeVars, vars
<1>5. ExpirationsCounted'
  BY Zenon DEF Fire, Goto, Types, Thread, Calls, InTrigger, Quiet, Stops,
     Clears,
     ExpirationsCounted, timerVars, storeVars, vars
<1> QED
  BY <1>1, <1>2, <1>3, <1>4, <1>5

(* Timeout: a timer that At leaves enabled has a delay, so it is put back. *)
LEMMA TimeoutStep ==
  ASSUME Reading, Inv, NEW c \in Thread, Timeout(c)
  PROVE  Inv'
<1> USE DEF Inv
<1> DEFINE t == fired[c]
           at == IF paused[t] THEN <<setting[t], 0>>
                              ELSE At(setting[t], now + FireSlack)
           a == at[1]
           n == at[2]
           d == IF paused[t] THEN 0 ELSE NextExpire(a, now)
<1>1. pc[c] = "Timeout" /\ t \in Timer
  BY Zenon DEF Timeout, Types, Calls
<1>2. /\ setting[t] \in Setting /\ now \in Nat /\ now + FireSlack \in Nat
      /\ FireSlack \in Nat /\ paused[t] \in BOOLEAN
  BY SMTT(30), Z3T(30), <1>1, TimerAssumption DEF Types
<1>3. paused[t] => a = setting[t] /\ n = 0
  OBVIOUS
<1>4. ~paused[t] => /\ a = At(setting[t], now + FireSlack)[1]
                    /\ n = At(setting[t], now + FireSlack)[2]
  BY SMTT(30), Z3T(30)
<1>5. a \in Setting /\ n \in Nat
  BY <1>2, <1>3, <1>4, AtFacts, Zenon
<1>6. ~paused[t] /\ a.Enabled =>
        /\ setting[t].Enabled /\ a.Next > now + FireSlack
        /\ a.Period = setting[t].Period
        /\ a.Next = setting[t].Next + n * setting[t].Period
  BY <1>2, <1>4, AtFacts, Zenon
<1>7. a.Enabled => setting[t].Enabled
  BY <1>2, <1>3, <1>6, Zenon
<1>8. ~paused[t] /\ a.Enabled => a.Next > now
  BY <1>2, <1>5, <1>6 DEF Setting
<1>9. d \in Nat /\ (~paused[t] /\ a.Enabled => d > 0)
  BY <1>2, <1>5, <1>8, NextExpireFacts, Zenon
<1>10. /\ setting' = [setting EXCEPT ![t] = a]
       /\ val' = [val EXCEPT ![t] = @ + n]
       /\ UNCHANGED <<paused, first, State, storeVars, storeLock, timer, ret>>
  BY Zenon DEF Timeout
<1>11. Later = {now}
  BY DEF Reading, Later
<1>12. /\ now' = now
       /\ IF d > 0
            THEN /\ Goto(c, "Timeout", "FireReset")
                 /\ delta' = [delta EXCEPT ![c] = d]
                 /\ UNCHANGED fired
            ELSE FireEnd(c, "Timeout") /\ UNCHANGED delta
  BY <1>11, Zenon DEF Timeout
<1> HIDE DEF a, n, d, at
<1>13. \/ /\ pc' = [pc EXCEPT ![c] = "FireReset"]
          /\ delta' = [delta EXCEPT ![c] = d] /\ fired' = fired
       \/ /\ pc' = [pc EXCEPT ![c] = "Trigger"] /\ delta' = delta
          /\ fired' = [fired EXCEPT ![c] = NoTimer]
          /\ paused[t] \/ ~a.Enabled
  BY <1>9, <1>12, Zenon DEF Goto, FireEnd
<1>14. Types'
  BY SMTT(30), Z3T(30), <1>1, <1>5, <1>9, <1>10, <1>12, <1>13 DEF Types, Pc,
     storeVars
<1>15. Calls'
  BY SMTT(30), Z3T(30), <1>1, <1>10, <1>13 DEF Types, Calls, InTrigger
<1>16. Armed'
  <2> SUFFICES ASSUME NEW u \in Timer, (setting[u].Enabled /\ ~paused[u])',
                      ~InStore(u)'
               PROVE  \E e \in Thread : Setter(e, u)' \/ Firing(e, u)'
    BY Zenon DEF Armed
  <2>1. setting[u].Enabled /\ ~paused[u] /\ ~InStore(u)
    BY Zenon, <1>1, <1>7, <1>10 DEF Types, InStore, storeVars
  <2>2. PICK e \in Thread : Setter(e, u) \/ Firing(e, u)
    BY Zenon, <2>1 DEF Armed
  <2>3. CASE e # c
    BY <2>2, <2>3, <1>10, <1>13 DEF Setter, Firing, Types
  <2>4. CASE e = c
    <3>1. u = t
      BY <2>2, <2>4, <1>1 DEF Setter, Firing
    <3>2. a.Enabled /\ ~paused[t]
      BY Zenon, <2>1, <3>1, <1>1, <1>10 DEF Types
    <3>3. Firing(c, u)'
      BY SMTT(30), Z3T(30), <3>1, <3>2, <1>1, <1>13 DEF Firing, Types
    <3> QED
      BY SMTT(30), Z3T(30), <3>3
  <2> QED
    BY Zenon, <2>3, <2>4
<1>17. Quiet'
  <2>1. ASSUME NEW e \in Thread, Stops(e)'
        PROVE  (~setting[timer[e]].Enabled \/ paused[timer[e]])'
    <3>1. Stops(e) /\ timer[e] \in Timer
      BY ZenonT(40), <2>1, <1>1, <1>10, <1>13 DEF Stops, Types, Calls
    <3> QED
      BY Zenon, <3>1, <1>1, <1>7, <1>10 DEF Quiet, Types
  <2>2. ASSUME NEW e \in Thread, Clears(e)' PROVE paused[timer[e]]'
    <3>1. Clears(e)
      BY SMTT(30), Z3T(30), <2>2, <1>1, <1>10, <1>13 DEF Clears, Types
    <3> QED
      BY Zenon, <3>1, <1>10 DEF Quiet
  <2> QED
    BY <2>1, <2>2, Zenon DEF Quiet
<1>18. ExpirationsCounted'
  BY <1>1, <1>5, <1>6, <1>10, AdvanceCounted, Zenon
<1> QED
  BY <1>14, <1>15, <1>16, <1>17, <1>18

(* The firing puts its timer back. *)
LEMMA FireResetStep ==
  ASSUME Reading, Inv, NEW c \in Thread, FireReset(c)
  PROVE  Inv'
<1> USE DEF Inv
<1>1. fired[c] \in Timer /\ delta[c] \in Nat
  BY SMTT(30), Z3T(30) DEF FireReset, Goto, Types, Calls
<1>2. ResetTimer(fired[c], delta[c])
  BY Zenon DEF FireReset
<1>3. /\ Expire' \in [Timer -> Nat]
      /\ timerSeq' \subseteq [expire : Nat, timerId : Timer]
      /\ \A u \in Timer : InStore(u) => InStore(u)'
      /\ \A u \in Timer : u = fired[c] => InStore(u)'
  BY <1>1, <1>2, ResetTimerFacts, Zenon
<1>4. Types'
  BY Zenon, <1>3 DEF FireReset, Goto, Types, Pc, Thread, timerVars
<1>5. Calls'
  BY Zenon DEF FireReset, Goto, Types, Thread, Calls, InTrigger, timerVars
<1>6. Armed'
  <2> SUFFICES ASSUME NEW u \in Timer, (setting[u].Enabled /\ ~paused[u])',
                      ~InStore(u)'
               PROVE  \E d \in Thread : Setter(d, u)' \/ Firing(d, u)'
    BY Zenon DEF Armed
  <2>1. ~InStore(u) /\ u # fired[c]
    BY <1>3, Zenon
  <2>2. PICK d \in Thread : Setter(d, u) \/ Firing(d, u)
    BY Zenon, <2>1 DEF Armed, FireReset, timerVars
  <2>3. d = c => Setter(d, u)' \/ Firing(d, u)'
    BY Zenon, <2>1, <2>2 DEF FireReset, Goto, Setter, Firing, Types
  <2>4. d # c => Setter(d, u)' \/ Firing(d, u)'
    BY Zenon, <2>2 DEF FireReset, Goto, Setter, Firing, Types
  <2> QED
    BY <2>3, <2>4
<1>7. Quiet'
  BY Zenon DEF FireReset, Goto, Types, Thread, Calls, InTrigger, Quiet, Stops,
     Clears,
     timerVars
<1>8. ExpirationsCounted'
  BY Zenon DEF FireReset, ExpirationsCounted, timerVars
<1> QED
  BY <1>4, <1>5, <1>6, <1>7, <1>8

(* The firing of a timer that was put back ends. *)
LEMMA FireRunningStep ==
  ASSUME Reading, Inv, NEW c \in Thread, FireRunning(c)
  PROVE  Inv'
<1> USE DEF Inv
<1>1. Types'
  BY Zenon, TimerAssumption DEF Reading, FireRunning, FireEnd, Goto, Types,
     Setting,
     Pc, Thread, timerVars, storeVars, vars
<1>2. Calls'
  BY SMTT(30), Z3T(30), TimerAssumption DEF Reading, FireRunning, FireEnd,
     Goto, Types, Thread,
     Calls, InTrigger, timerVars, storeVars, vars
<1>3. Armed'
  BY SMTT(30), Z3T(30) DEF FireRunning, FireEnd, Goto, Types, Thread, Calls,
     InTrigger, Armed,
     InStore, Setter, Firing, Quiet, Stops, timerVars, storeVars, vars
<1>4. Quiet'
  BY Zenon DEF FireRunning, FireEnd, Goto, Types, Thread, Calls, InTrigger,
     Quiet,
     Stops, Clears, timerVars, storeVars, vars
<1>5. ExpirationsCounted'
  BY SMTT(30), Z3T(30) DEF FireRunning, FireEnd, Goto, Types, Thread, Calls,
     InTrigger, Quiet,
     Stops, Clears, ExpirationsCounted, timerVars, storeVars, vars
<1> QED
  BY <1>1, <1>2, <1>3, <1>4, <1>5

(* Cancel pauses its timer. *)
LEMMA CancelStep ==
  ASSUME Reading, Inv, NEW c \in Thread, NEW t \in Timer, Cancel(c, t)
  PROVE  Inv'
<1> USE DEF Inv
<1>1. Types'
  BY Zenon, TimerAssumption DEF Reading, Cancel, Begin, Goto, Types, Setting,
     Pc,
     Thread, timerVars, storeVars, vars
<1>2. Calls'
  BY SMTT(30), Z3T(30), TimerAssumption DEF Reading, Cancel, Begin, Goto,
     Types, Thread, Calls,
     InTrigger, timerVars, storeVars, vars
<1>3. Armed'
  BY SMTT(30), Z3T(30) DEF Cancel, Begin, Goto, Types, Thread, Calls,
     InTrigger, Armed,
     InStore, Setter, Firing, Quiet, Stops, timerVars, storeVars, vars
<1>4. Quiet'
  BY SMTT(30), Z3T(30) DEF Cancel, Begin, Goto, Types, Thread, Calls,
     InTrigger, Quiet, Stops,
     Clears, timerVars, storeVars, vars
<1>5. ExpirationsCounted'
  BY DEF Cancel, Begin, Goto, Types, Thread, Calls, InTrigger, Quiet, Stops,
     Clears, ExpirationsCounted, timerVars, storeVars, vars
<1> QED
  BY Zenon, <1>1, <1>2, <1>3, <1>4, <1>5

(* Destroy disables its timer. *)
LEMMA DestroyStep ==
  ASSUME Reading, Inv, NEW c \in Thread, NEW t \in Timer, Destroy(c, t)
  PROVE  Inv'
<1> USE DEF Inv
<1>1. Types'
  BY ZenonT(40), TimerAssumption DEF Reading, Destroy, Begin, Goto, Types,
     Setting, Pc,
     Thread, timerVars, storeVars, vars
<1>2. Calls'
  BY TimerAssumption DEF Reading, Destroy, Begin, Goto, Types, Thread, Calls,
     InTrigger, timerVars, storeVars, vars
<1>3. Armed'
  BY DEF Destroy, Begin, Goto, Types, Thread, Calls, InTrigger, Armed,
     InStore, Setter, Firing, Quiet, Stops, timerVars, storeVars, vars
<1>4. Quiet'
  BY DEF Destroy, Begin, Goto, Types, Thread, Calls, InTrigger, Quiet, Stops,
     Clears, timerVars, storeVars, vars
<1>5. ExpirationsCounted'
  BY SMTT(30), Z3T(30) DEF Destroy, Begin, Goto, Types, Thread, Calls,
     InTrigger, Quiet, Stops,
     Clears, ExpirationsCounted, timerVars, storeVars, vars
<1> QED
  BY <1>1, <1>2, <1>3, <1>4, <1>5

(* Get: a timer that At leaves enabled has a delay. *)
LEMMA GetStep ==
  ASSUME Reading, Inv, NEW c \in Thread, NEW t \in Timer, Get(c, t)
  PROVE  Inv'
<1> USE DEF Inv
<1> DEFINE at == At(setting[t], now + FireSlack)
           a == at[1]
           n == at[2]
           d == NextExpire(a, now)
<1>1. /\ c \in Caller /\ pc[c] = "Idle" /\ ~paused[t]
      /\ \A e \in Thread : timer[e] # t
  BY TimerAssumption DEF Reading, Get, Begin, Goto, Calls, Thread
<1>2. /\ setting[t] \in Setting /\ now \in Nat /\ now + FireSlack \in Nat
      /\ FireSlack \in Nat
  BY SMTT(30), Z3T(30), TimerAssumption DEF Types
<1>3. a \in Setting /\ n \in Nat
  BY <1>2, AtFacts, Zenon
<1>4. a.Enabled => /\ setting[t].Enabled /\ a.Next > now + FireSlack
                   /\ a.Period = setting[t].Period
                   /\ a.Next = setting[t].Next + n * setting[t].Period
  BY <1>2, AtFacts, Zenon
<1>5. a.Enabled => a.Next > now
  BY SMTT(30), Z3T(30), <1>2, <1>3, <1>4 DEF Setting
<1>6. d \in Nat /\ (a.Enabled => d > 0)
  BY <1>2, <1>3, <1>5, NextExpireFacts, Zenon
<1>7. /\ setting' = [setting EXCEPT ![t] = a]
      /\ val' = [val EXCEPT ![t] = @ + n]
      /\ delta' = [delta EXCEPT ![c] = d]
      /\ pc' = [pc EXCEPT ![c] = "Reset"]
      /\ timer' = [timer EXCEPT ![c] = t]
      /\ now' = now
      /\ UNCHANGED <<paused, first, State, storeVars, storeLock, fired, ret>>
  BY Zenon DEF Get, Begin, Goto, Reading, Later
<1> HIDE DEF a, n, d, at
<1>8. Types'
  BY SMTT(30), Z3T(30), <1>3, <1>6, <1>7 DEF Types, Pc, storeVars, Setting
<1>9. Calls'
  BY SMTT(30), Z3T(30), <1>1, <1>7, TimerAssumption DEF Types, Thread, Calls,
     InTrigger
<1>10. Armed'
  <2> SUFFICES ASSUME NEW u \in Timer, (setting[u].Enabled /\ ~paused[u])',
                      ~InStore(u)'
               PROVE  \E e \in Thread : Setter(e, u)' \/ Firing(e, u)'
    BY Zenon DEF Armed
  <2>1. CASE u = t
    BY Zenon, <2>1, <1>1, <1>6, <1>7 DEF Types, Setter, Thread
  <2>2. CASE u # t
    <3>1. setting[u].Enabled /\ ~paused[u] /\ ~InStore(u)
      BY Zenon, <2>2, <1>7 DEF Types, InStore, storeVars
    <3>2. PICK e \in Thread : Setter(e, u) \/ Firing(e, u)
      BY SMTT(30), Z3T(30), <3>1 DEF Armed
    <3> QED
      BY Zenon, <3>2, <2>2, <1>1, <1>7 DEF Setter, Firing, Types
  <2> QED
    BY SMTT(30), Z3T(30), <2>1, <2>2
<1>11. Quiet'
  <2>1. ASSUME NEW e \in Thread, Stops(e)'
        PROVE  (~setting[timer[e]].Enabled \/ paused[timer[e]])'
    <3>1. CASE e = c
      BY SMTT(30), Z3T(30), <2>1, <3>1, <1>6, <1>7 DEF Stops, Types
    <3>2. CASE e # c
      <4>1. Stops(e) /\ timer[e] \in Timer /\ timer[e] # t
        BY Zenon, <2>1, <3>2, <1>1, <1>7 DEF Stops, Types, Calls
      <4> QED
        BY Zenon, <4>1, <3>2, <1>7 DEF Quiet, Types
    <3> QED
      BY Zenon, <3>1, <3>2
  <2>2. ASSUME NEW e \in Thread, Clears(e)' PROVE paused[timer[e]]'
    <3>1. CASE e = c
      BY Zenon, <2>2, <3>1, <1>1, <1>7 DEF Clears, Types, Calls, InTrigger
    <3>2. CASE e # c
      <4>1. Clears(e) /\ timer[e] \in Timer /\ timer[e] # t
        BY SMTT(30), Z3T(30), <2>2, <3>2, <1>1, <1>7 DEF Clears, Types, Calls
      <4> QED
        BY Zenon, <4>1, <3>2, <1>7 DEF Quiet, Types
    <3> QED
      BY Zenon, <3>1, <3>2
  <2> QED
    BY <2>1, <2>2, Zenon DEF Quiet
<1>12. ExpirationsCounted'
  BY <1>3, <1>4, <1>7, AdvanceCounted, Zenon
<1> QED
  BY <1>8, <1>9, <1>10, <1>11, <1>12

(* SwapAnd: the same for the new setting; it also unpauses the timer,      *)
(* which no call in Stop has, since this call is the only one on it.       *)
LEMMA SwapAndStep ==
  ASSUME Reading, Inv, NEW c \in Thread, NEW t \in Timer, NEW s \in Wanted,
         SwapAnd(c, t, s)
  PROVE  Inv'
<1> USE DEF Inv
<1> DEFINE at == At(s, now + SwapSlack)
           a == at[1]
           n == at[2]
           d == NextExpire(a, now)
<1>1. /\ c \in Caller /\ pc[c] = "Idle"
      /\ \A e \in Thread : timer[e] # t
  BY Zenon, TimerAssumption DEF Reading, SwapAnd, Begin, Goto, Calls, Thread
<1>2. /\ s \in Setting /\ now \in Nat /\ now + SwapSlack \in Nat
      /\ SwapSlack \in Nat
  <2>1. Stopped \in Setting
    BY Zenon DEF Stopped, Setting
  <2>2. ASSUME NEW w \in [Enabled : {TRUE}, Next : 1..MaxTime,
                          Period : Period \cup {0}]
        PROVE  w \in Setting
    <3>1. 1..MaxTime \subseteq Nat /\ Period \cup {0} \subseteq Nat
      BY Times, Zenon
    <3>2. /\ w = [Enabled |-> w.Enabled, Next |-> w.Next, Period |-> w.Period]
          /\ w.Enabled \in BOOLEAN
          /\ w.Next \in 1..MaxTime /\ w.Period \in Period \cup {0}
      BY Zenon
    <3>3. w.Next \in Nat /\ w.Period \in Nat
      BY <3>1, <3>2, Zenon
    <3> QED
      BY Zenon, <3>2, <3>3 DEF Setting
  <2>3. s \in Setting
    BY <2>1, <2>2, Zenon DEF Wanted
  <2> QED
    BY <2>3, Times, Zenon DEF Types
<1>3. a \in Setting /\ n \in Nat
  BY <1>2, AtFacts, Zenon
<1>4. a.Enabled => /\ a.Next > now + SwapSlack
                   /\ a.Period = s.Period
                   /\ a.Next = s.Next + n * s.Period
  BY <1>2, AtFacts, Zenon
<1>5. a.Enabled => a.Next > now
  BY <1>2, <1>3, <1>4 DEF Setting
<1>6. d \in Nat /\ (a.Enabled => d > 0)
  BY <1>2, <1>3, <1>5, NextExpireFacts, Zenon
<1>7. s.Next \in Nat
  BY <1>2 DEF Setting
<1>8. /\ setting' = [setting EXCEPT ![t] = a]
      /\ paused' = [paused EXCEPT ![t] = FALSE]
      /\ val' = [val EXCEPT ![t] = n]
      /\ first' = [first EXCEPT ![t] = s.Next]
      /\ delta' = [delta EXCEPT ![c] = d]
      /\ pc' = [pc EXCEPT ![c] = "Reset"]
      /\ timer' = [timer EXCEPT ![c] = t]
      /\ now' = now
      /\ UNCHANGED <<State, storeVars, storeLock, fired, ret>>
  BY Zenon DEF SwapAnd, Begin, Goto, Reading, Later
<1> HIDE DEF a, n, d, at
<1>9. Types'
  BY Zenon, <1>3, <1>6, <1>8, <1>7 DEF Types, Pc, storeVars, Setting
<1>10. Calls'
  BY SMTT(30), <1>1, <1>8, TimerAssumption DEF Types, Thread, Calls, InTrigger
<1>11. Armed'
  <2> SUFFICES ASSUME NEW u \in Timer, (setting[u].Enabled /\ ~paused[u])',
                      ~InStore(u)'
               PROVE  \E e \in Thread : Setter(e, u)' \/ Firing(e, u)'
    BY Zenon DEF Armed
  <2>1. CASE u = t
    BY SMTT(30), Z3T(30), <2>1, <1>1, <1>6, <1>8 DEF Types, Setter, Thread
  <2>2. CASE u # t
    <3>1. setting[u].Enabled /\ ~paused[u] /\ ~InStore(u)
      BY Zenon, <2>2, <1>8 DEF Types, InStore, storeVars
    <3>2. PICK e \in Thread : Setter(e, u) \/ Firing(e, u)
      BY Zenon, <3>1 DEF Armed
    <3> QED
      BY Zenon, <3>2, <2>2, <1>1, <1>8 DEF Setter, Firing, Types
  <2> QED
    BY SMTT(30), Z3T(30), <2>1, <2>2
<1>12. Quiet'
  <2>1. ASSUME NEW e \in Thread, Stops(e)'
        PROVE  (~setting[timer[e]].Enabled \/ paused[timer[e]])'
    <3>1. CASE e = c
      BY SMTT(30), Z3T(30), <2>1, <3>1, <1>6, <1>8 DEF Stops, Types
    <3>2. CASE e # c
      <4>1. Stops(e) /\ timer[e] \in Timer /\ timer[e] # t
        BY Zenon, <2>1, <3>2, <1>1, <1>8 DEF Stops, Types, Calls
      <4> QED
        BY Zenon, <4>1, <3>2, <1>8 DEF Quiet, Types
    <3> QED
      BY Zenon, <3>1, <3>2
  <2>2. ASSUME NEW e \in Thread, Clears(e)' PROVE paused[timer[e]]'
    <3>1. CASE e = c
      BY Zenon, <2>2, <3>1, <1>1, <1>8 DEF Clears, Types, Calls, InTrigger
    <3>2. CASE e # c
      <4>1. Clears(e) /\ timer[e] \in Timer /\ timer[e] # t
        BY Zenon, <2>2, <3>2, <1>1, <1>8 DEF Clears, Types, Calls
      <4> QED
        BY Zenon, <4>1, <3>2, <1>8 DEF Quiet, Types
    <3> QED
      BY Zenon, <3>1, <3>2
  <2> QED
    BY <2>1, <2>2, Zenon DEF Quiet
<1>13. ExpirationsCounted'
  <2> SUFFICES ASSUME NEW u \in Timer,
                      (/\ setting[u].Enabled /\ setting[u].Period > 0
                       /\ ~paused[u])'
               PROVE  (setting[u].Next
                        = first[u] + val[u] * setting[u].Period)'
    BY Zenon DEF ExpirationsCounted
  <2>1. CASE u # t
    BY Zenon, <2>1, <1>8 DEF Types, ExpirationsCounted
  <2>2. CASE u = t
    BY <2>2, <1>4, <1>8 DEF Types
  <2> QED
    BY SMTT(30), Z3T(30), <2>1, <2>2
<1> QED
  BY Zenon, <1>9, <1>10, <1>11, <1>12, <1>13

-----------------------------------------------------------------------------
(* Inv holds initially and every step keeps it. *)
LEMMA InvInit == Init => Inv
<1> SUFFICES ASSUME Init PROVE Inv
  BY Zenon
<1>1. Types
  BY SMTT(30), Z3T(30), TimerAssumption DEF Init, Types, Setting, Stopped,
     Pc, Thread
<1>2. Calls
  BY Zenon, TimerAssumption DEF Init, Calls, InTrigger, Thread
<1>3. Armed
  BY Zenon, TimerAssumption DEF Init, Armed, InStore, Stopped
<1>4. Quiet
  BY Zenon DEF Init, Quiet, Stops, Clears
<1>5. ExpirationsCounted
  BY SMTT(30), Z3T(30), TimerAssumption, Distribute DEF Init,
     ExpirationsCounted, Stopped
<1> QED
  BY SMTT(30), Z3T(30), <1>1, <1>2, <1>3, <1>4, <1>5 DEF Inv

LEMMA InvNext == Reading /\ Inv /\ [Next]_vars => Inv'
<1> SUFFICES ASSUME Reading, Inv, [Next]_vars PROVE Inv'
  BY Zenon
<1>1. CASE UNCHANGED vars
  BY <1>1 DEF vars, Inv, Types, Calls, InTrigger, Armed, InStore, Setter,
     Firing, Quiet, Stops, Clears, ExpirationsCounted
<1>2. CASE Tick
  BY <1>2, TickStep
<1>3. CASE IOTrigger
  BY SMTT(30), Z3T(30), <1>3, IOTriggerStep
<1>4. ASSUME NEW c \in Thread, Call(c) PROVE Inv'
  BY <1>4, CancelStep, DestroyStep, GetStep, SwapAndStep, Zenon DEF Call
<1>5. ASSUME NEW c \in Thread, Step(c) PROVE Inv'
  BY Zenon, <1>5, ResetZeroStep, ResetStep, StopNotRunningStep,
     StopRunningStep,
     CancelTimerStep, ClearStep, SetRunningStep, GetFirstStep,
     TriggerDoneStep, FireStep, TimeoutStep, FireResetStep, FireRunningStep,
     Zenon DEF Step
<1> QED
  BY <1>1, <1>2, <1>3, <1>4, <1>5, Zenon DEF Next

LEMMA Invariant ==
  ASSUME Reading
  PROVE  Spec => []Inv
<1>1. Inv /\ [Next]_vars => Inv'
  BY InvNext
<1> QED
  BY InvInit, <1>1, PTL DEF Spec

(* However many timers and threads there are: when the calls on one timer  *)
(* are not concurrent and the clock readings of a critical section agree,  *)
(* no interleaving of SwapAnd, Get, Cancel and Destroy with the firings    *)
(* leaves a timer enabled, unattended and out of the store.                *)
THEOREM Arms ==
  ASSUME ~Sharing, ~Stall
  PROVE  Spec => []EnabledArmed
<1>1. Spec => []Inv
  BY Zenon, Invariant DEF Reading
<1>2. Inv => EnabledArmed
  BY Zenon DEF Inv, Armed, EnabledArmed, Busy, Setter, Firing
<1> QED
  BY <1>1, <1>2, PTL

(* Whoever of Timer::Fire, Get and SwapAnd sees an expiration first, each  *)
(* one of a periodic timer is counted once, for any periods and slacks.    *)
THEOREM Counts ==
  ASSUME ~Sharing, ~Stall
  PROVE  Spec => []ExpirationsCounted
<1>1. Spec => []Inv
  BY Invariant DEF Reading
<1>2. Inv => ExpirationsCounted
  BY DEF Inv
<1> QED
  BY <1>1, <1>2, PTL
=============================================================================
