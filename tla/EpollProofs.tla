---------------------------- MODULE EpollProofs -----------------------------
(***************************************************************************)
(* Proofs about Epoll, for any number of files, waiters, controllers and   *)
(* closers: the ready list holds the entries that are ready, no event is   *)
(* lost, and nobody sleeps beside a list that is not empty.                *)
(***************************************************************************)
EXTENDS Epoll, SequenceTheorems, TLAPS

WaitPc == {"Idle", "Lock", "Scan", "Look", "Take", "Enter", "Block", "Leave",
           "DropFiles", "DropLists"}
UpdatePc == {"Register", "Readiness", "CallBack", "Wake", "Unregister", "Update"}
DelPc == {"DelUnregister", "DelUnlist", "DelFiles", "DelLists"}
DropPc == {"DropFiles", "DropLists"}
CtlPc == {"Idle", "Add", "Mod", "Del", "Done"} \cup UpdatePc \cup DelPc \cup DropPc
NotifyPc == {"Idle", "Notify", "CallBack", "Wake"} \cup DropPc
WalkPc == {"Scan", "Look", "Take"}

(* Where an actor can be, and what it has there: a file; the list during a *)
(* walk, also when it drops a file in it; the map from the lookup of       *)
(* AddEntry and UpdateEntry on.  The waiter of an entry is in the file's   *)
(* queue from EventRegister on, and stays there while Notify calls back.   *)
Place(a) ==
  /\ a \in Waiter =>
       /\ pc[a] \in WaitPc
       /\ file[a] # NoFile <=> pc[a] \in {"Look", "Take"} \cup DropPc
       /\ pc[a] \in WalkPc \cup DropPc => lists = a
  /\ a \in Controller =>
       /\ pc[a] \in CtlPc
       /\ file[a] # NoFile <=> pc[a] # "Idle"
       /\ pc[a] \in UpdatePc => files = a /\ file[a] \in known
       /\ pc[a] \in {"Update", "Register", "DelUnlist", "DelFiles", "DelLists"} =>
            file[a] \notin registered
  /\ a \in Closer =>
       /\ pc[a] \in {"Idle"} \cup DropPc
       /\ file[a] # NoFile <=> pc[a] # "Idle"
  /\ a \in File =>
       /\ pc[a] \in NotifyPc /\ file[a] = a
       /\ pc[a] \in {"CallBack", "Wake"} => a \in registered

(* The last to let go of a file is alone with it, and nobody gets it again *)
(* before the wait entry is dropped.                                       *)
Alone(a) ==
  pc[a] \in DropPc =>
    /\ ~open[file[a]] /\ file[a] \in registered
    /\ \A t \in Task : t # a => file[t] # file[a]
    /\ a = file[a] \/ pc[file[a]] = "Idle"

Places == \A a \in Actor : Place(a) /\ Alone(a)

(* epoll_ctl calls on one file come one after the other. *)
OneCtl ==
  \A c, d \in Controller : file[c] = file[d] /\ file[c] # NoFile => c = d

(* A wait queue has the waiter of an entry of the map, or of one that is   *)
(* about to go.                                                            *)
RegisteredKnown == \A f \in registered : f \in known \/ Leaving(f)

(* A walk visits entries that are in the list; as long as it has found     *)
(* nothing, the entries it has still to visit are all there are.           *)
Walks ==
  \A t \in Waiter :
    pc[t] \in WalkPc =>
      /\ IsInjective(rest[t]) /\ Range(rest[t]) \subseteq Range(readyList)
      /\ pc[t] # "Scan" => /\ file[t] \in Range(readyList) \ Range(rest[t])
                           /\ got[t] < max
      /\ got[t] = 0 => Range(readyList) \subseteq Range(rest[t]) \cup {file[t]}

Sleepers == \A t \in Waiter : pc[t] = "Block" => t \in queue

(* What comes while a walk is about to take an entry calls back after it.  *)
Coming(f) ==
  \/ pc[f] \in {"Notify", "CallBack"}
  \/ \E c \in Controller : file[c] = f /\ pc[c] \in {"Readiness", "CallBack"}

TakeKept ==
  \A t \in Waiter :
    (/\ pc[t] = "Take" /\ file[t] \in registered /\ ready[file[t]]
     /\ ~ok[t] \/ (owed[file[t]] /\ call[t] # "avail")) => Coming(file[t])

Structure ==
  TypeOK /\ Places /\ OneCtl /\ RegisteredKnown /\ ListedReady /\ Walks

Inv == Structure /\ Sleepers /\ SleeperNotified /\ TakeKept /\ EventKept
-----------------------------------------------------------------------------
(* What the operations on a list of wait entries do to the entries in it. *)

(* An entry is in the list at some position. *)
LEMMA InList ==
  ASSUME NEW T, NEW q \in Seq(T)
  PROVE  /\ Len(q) \in Nat /\ DOMAIN q = 1..Len(q)
         /\ \A j \in 1..Len(q) : q[j] \in T
         /\ \A x : x \in Range(q) <=> \E j \in 1..Len(q) : q[j] = x
         /\ Range(q) \subseteq T
         /\ q = <<>> <=> Range(q) = {}
<1>1. /\ Len(q) \in Nat /\ DOMAIN q = 1..Len(q)
      /\ \A j \in 1..Len(q) : q[j] \in T
  BY Zenon, LenProperties, ElementOfSeq
<1>2. \A x : x \in Range(q) <=> \E j \in 1..Len(q) : q[j] = x
  BY Zenon, <1>1 DEF Range
<1>3. q = <<>> <=> Len(q) = 0
  BY Zenon, EmptySeq
<1>4. q = <<>> <=> Range(q) = {}
  <2>1. ASSUME Len(q) # 0 PROVE Range(q) # {}
    <3>1. 1 \in 1..Len(q)
      BY <1>1, <2>1
    <3> QED
      BY Zenon, <1>2, <3>1
  <2>2. ASSUME Len(q) = 0 PROVE Range(q) = {}
    <3>1. 1..Len(q) = {}
      BY <2>2
    <3> QED
      BY Zenon, <1>2, <3>1
  <2> QED
    BY Zenon, <1>3, <2>1, <2>2
<1> QED
  BY Zenon, <1>1, <1>2, <1>4

(* PushBack adds one entry. *)
LEMMA PushBackList ==
  ASSUME NEW T, NEW q \in Seq(T), NEW t \in T
  PROVE  /\ PushBack(q, t) \in Seq(T)
         /\ Range(PushBack(q, t)) = Range(q) \cup {t}
         /\ IsInjective(q) /\ t \notin Range(q) => IsInjective(PushBack(q, t))
<1> DEFINE r == Append(q, t)
           n == Len(q)
<1>1. /\ r \in Seq(T)
      /\ Len(r) = n + 1
      /\ \A i \in 1..n : r[i] = q[i]
      /\ r[n + 1] = t
  BY AppendProperties
<1>2. n \in Nat /\ DOMAIN q = 1..n /\ DOMAIN r = 1..(n + 1)
  BY Zenon, <1>1, InList
<1>3. PushBack(q, t) = r
  BY Zenon DEF PushBack
<1> HIDE DEF r, n
<1>4. t \in Range(r) /\ Range(q) \subseteq Range(r)
  BY <1>1, <1>2 DEF Range
<1>5. Range(r) \subseteq Range(q) \cup {t}
  BY <1>1, <1>2 DEF Range
<1>6. ASSUME IsInjective(q), t \notin Range(q)
      PROVE  IsInjective(r)
  <2>1. \A i \in 1..n : q[i] # t
    BY Zenon, <1>2, <1>6 DEF Range
  <2> QED
    BY <1>1, <1>2, <1>6, <2>1 DEF IsInjective
<1> QED
  BY Zenon, <1>1, <1>3, <1>4, <1>5, <1>6

(* Remove of a linked entry takes it out and keeps the others. *)
LEMMA RemoveAtList ==
  ASSUME NEW T, NEW q \in Seq(T), NEW t \in Range(q)
  PROVE  /\ RemoveEntry(q, t) \in Seq(T)
         /\ Len(RemoveEntry(q, t)) = Len(q) - 1
         /\ \E i \in 1..Len(q) :
              /\ q[i] = t
              /\ \A j \in 1..(Len(q) - 1) :
                   RemoveEntry(q, t)[j] = IF j < i THEN q[j] ELSE q[j + 1]
<1> DEFINE i == CHOOSE j \in DOMAIN q : q[j] = t
           before == SubSeq(q, 1, i - 1)
           after == SubSeq(q, i + 1, Len(q))
           r == before \o after
<1>1. Len(q) \in Nat /\ DOMAIN q = 1..Len(q) /\ \A j \in 1..Len(q) : q[j] \in T
  BY Zenon, LenProperties, ElementOfSeq
<1>2. i \in 1..Len(q) /\ q[i] = t
  BY Zenon, <1>1 DEF Range
<1>3. RemoveEntry(q, t) = r
  BY Zenon DEF RemoveEntry
<1> HIDE DEF i
<1>4. /\ before \in Seq(T)
      /\ Len(before) = i - 1
      /\ \A j \in 1..(i - 1) : before[j] = q[j]
  <2>1. /\ before \in Seq(T)
        /\ Len(before) = IF 1 <= i - 1 THEN (i - 1) - 1 + 1 ELSE 0
        /\ \A j \in 1..((i - 1) - 1 + 1) : before[j] = q[1 + j - 1]
    <3>1. 1 \in Int /\ i - 1 \in Int /\ \A j \in 1..(i - 1) : q[j] \in T
      BY <1>1, <1>2
    <3> QED
      BY <3>1, SubSeqProperties
  <2> HIDE DEF before
  <2>2. Len(before) = i - 1
    BY <1>2, <2>1
  <2>3. ASSUME NEW j \in 1..(i - 1)
        PROVE  before[j] = q[j]
    <3>1. j \in 1..((i - 1) - 1 + 1) /\ 1 + j - 1 = j
      BY <1>1, <1>2
    <3> QED
      BY Zenon, <2>1, <3>1
  <2> QED
    BY Zenon, <2>1, <2>2, <2>3
<1>5. /\ after \in Seq(T)
      /\ Len(after) = Len(q) - i
      /\ \A j \in 1..(Len(q) - i) : after[j] = q[i + j]
  <2>1. /\ after \in Seq(T)
        /\ Len(after) = IF i + 1 <= Len(q) THEN Len(q) - (i + 1) + 1 ELSE 0
        /\ \A j \in 1..(Len(q) - (i + 1) + 1) : after[j] = q[(i + 1) + j - 1]
    <3>1. i + 1 \in Int /\ Len(q) \in Int /\ \A j \in (i + 1)..Len(q) : q[j] \in T
      BY <1>1, <1>2
    <3> QED
      BY <3>1, SubSeqProperties
  <2> HIDE DEF after
  <2>2. Len(after) = Len(q) - i
    <3>1. Len(q) \in Nat /\ i \in 1..Len(q)
      BY Zenon, <1>1, <1>2
    <3>2. (IF i + 1 <= Len(q) THEN Len(q) - (i + 1) + 1 ELSE 0) = Len(q) - i
      BY ONLY <3>1
    <3> QED
      BY ONLY <2>1, <3>2
  <2>3. ASSUME NEW j \in 1..(Len(q) - i)
        PROVE  after[j] = q[i + j]
    <3>1. j \in 1..(Len(q) - (i + 1) + 1) /\ (i + 1) + j - 1 = i + j
      BY <1>1, <1>2
    <3>2. after[j] = q[(i + 1) + j - 1]
      BY Zenon, <2>1, <3>1
    <3> QED
      BY Zenon, <3>1, <3>2
  <2> QED
    BY Zenon, <2>1, <2>2, <2>3
<1> HIDE DEF before, after
<1>6. /\ r \in Seq(T)
      /\ Len(r) = Len(before) + Len(after)
      /\ \A j \in 1..(Len(before) + Len(after)) :
           r[j] = IF j <= Len(before) THEN before[j] ELSE after[j - Len(before)]
  BY Zenon, <1>4, <1>5, ConcatProperties
<1>7. Len(r) \in Nat /\ DOMAIN r = 1..Len(r)
  BY Zenon, <1>6, LenProperties
<1>8. Len(r) = Len(q) - 1
  BY ONLY <1>1, <1>2, <1>4, <1>5, <1>6
<1>9. ASSUME NEW j \in 1..(Len(q) - 1)
      PROVE  r[j] = IF j < i THEN q[j] ELSE q[j + 1]
  <2>1. /\ r[j] = IF j <= i - 1 THEN before[j] ELSE after[j - (i - 1)]
        /\ j <= i - 1 <=> j < i
    BY <1>1, <1>2, <1>4, <1>5, <1>6
  <2>2. CASE j < i
    BY <1>2, <1>4, <2>1, <2>2
  <2>3. CASE ~(j < i)
    <3>1. j - (i - 1) \in 1..(Len(q) - i) /\ i + (j - (i - 1)) = j + 1
      BY <1>1, <1>2, <2>3
    <3> QED
      BY Zenon, <1>5, <2>1, <2>3, <3>1
  <2> QED
    BY Zenon, <2>2, <2>3
<1> QED
  BY Zenon, <1>2, <1>3, <1>6, <1>8, <1>9

(* Remove takes out the entry that is in the list, and that one only. *)
LEMMA RemoveEntryList ==
  ASSUME NEW T, NEW q \in Seq(T), NEW t \in Range(q)
  PROVE  /\ RemoveEntry(q, t) \in Seq(T)
         /\ Range(q) \ {t} \subseteq Range(RemoveEntry(q, t))
         /\ Range(RemoveEntry(q, t)) \subseteq Range(q)
         /\ IsInjective(q) => /\ IsInjective(RemoveEntry(q, t))
                              /\ Range(RemoveEntry(q, t)) = Range(q) \ {t}
<1> DEFINE r == RemoveEntry(q, t)
           n == Len(q)
<1>1. /\ r \in Seq(T) /\ Len(r) = n - 1
      /\ n \in Nat /\ DOMAIN q = 1..n /\ DOMAIN r = 1..(n - 1)
      /\ \A x : x \in Range(q) <=> \E j \in 1..n : q[j] = x
      /\ \A x : x \in Range(r) <=> \E j \in 1..(n - 1) : r[j] = x
  <2>1. r \in Seq(T) /\ Len(r) = n - 1
    BY Zenon, RemoveAtList
  <2>2. /\ n \in Nat /\ DOMAIN q = 1..n
        /\ \A x : x \in Range(q) <=> \E j \in 1..n : q[j] = x
    BY Zenon, InList
  <2> HIDE DEF r, n
  <2>3. /\ DOMAIN r = 1..Len(r)
        /\ \A x : x \in Range(r) <=> \E j \in 1..Len(r) : r[j] = x
    BY Zenon, <2>1, InList
  <2> QED
    BY Zenon, <2>1, <2>2, <2>3
<1>2. PICK i \in 1..n : /\ q[i] = t
                        /\ \A j \in 1..(n - 1) :
                             r[j] = IF j < i THEN q[j] ELSE q[j + 1]
  BY Zenon, RemoveAtList
<1> HIDE DEF r, n
<1>3. \A j \in 1..(n - 1) : /\ j < i => r[j] = q[j] /\ j \in 1..n
                            /\ j >= i => r[j] = q[j + 1] /\ j + 1 \in 1..n
  BY <1>1, <1>2
<1>4. Range(r) \subseteq Range(q)
  <2>1. ASSUME NEW j \in 1..(n - 1) PROVE r[j] \in Range(q)
    <3>1. j < i \/ j >= i
      BY <1>1, <1>2
    <3> QED
      BY Zenon, <1>1, <1>3, <3>1
  <2> QED
    BY Zenon, <1>1, <2>1
<1>5. ASSUME NEW u \in Range(q), u # t
      PROVE  u \in Range(r)
  <2>1. PICK k \in 1..n : q[k] = u
    BY Zenon, <1>1
  <2>2. CASE k < i
    <3>1. k \in 1..(n - 1)
      BY <1>1, <1>2, <2>2
    <3> QED
      BY Zenon, <1>1, <1>3, <2>1, <2>2, <3>1
  <2>3. CASE k > i
    <3>1. k - 1 \in 1..(n - 1) /\ k - 1 >= i /\ (k - 1) + 1 = k
      BY <1>1, <1>2, <2>3
    <3>2. r[k - 1] = q[k]
      BY Zenon, <1>3, <3>1
    <3> QED
      BY Zenon, <1>1, <2>1, <3>1, <3>2
  <2> QED
    BY <1>1, <1>2, <1>5, <2>1, <2>2, <2>3
<1>6. ASSUME IsInjective(q)
      PROVE  IsInjective(r) /\ t \notin Range(r)
  <2>1. \A a, b \in 1..n : q[a] = q[b] => a = b
    BY Zenon, <1>1, <1>6 DEF IsInjective
  <2>2. ASSUME NEW a \in 1..(n - 1), NEW b \in 1..(n - 1), r[a] = r[b]
        PROVE  a = b
    <3> DEFINE f(j) == IF j < i THEN j ELSE j + 1
    <3>1. r[a] = q[f(a)] /\ r[b] = q[f(b)] /\ f(a) \in 1..n /\ f(b) \in 1..n
      BY <1>1, <1>2, <1>3
    <3>2. f(a) = f(b)
      BY Zenon, <2>1, <2>2, <3>1
    <3> QED
      BY <1>1, <1>2, <3>2
  <2>3. ASSUME NEW a \in 1..(n - 1) PROVE r[a] # t
    <3>1. CASE a < i
      BY <1>2, <1>3, <2>1, <3>1
    <3>2. CASE a >= i
      BY <1>1, <1>2, <1>3, <2>1, <3>2
    <3> QED
      BY <1>1, <1>2, <3>1, <3>2
  <2> QED
    BY Zenon, <1>1, <2>2, <2>3 DEF IsInjective
<1> QED
  BY Zenon, <1>1, <1>4, <1>5, <1>6 DEF r

(* The walk over a list: its head, then the rest. *)
LEMMA WalkList ==
  ASSUME NEW T, NEW q \in Seq(T), q # <<>>
  PROVE  /\ Head(q) \in T /\ Head(q) \in Range(q) /\ Tail(q) \in Seq(T)
         /\ Range(q) = {Head(q)} \cup Range(Tail(q))
         /\ IsInjective(q) => IsInjective(Tail(q)) /\ Head(q) \notin Range(Tail(q))
<1> DEFINE r == Tail(q)
           n == Len(q)
<1>1. /\ r \in Seq(T)
      /\ Len(r) = n - 1
      /\ \A i \in 1..Len(r) : r[i] = q[i + 1]
      /\ Head(q) = q[1]
  BY HeadTailProperties
<1>2. /\ n \in Nat /\ DOMAIN q = 1..n
      /\ \A j \in 1..n : q[j] \in T
      /\ \A x : x \in Range(q) <=> \E j \in 1..n : q[j] = x
      /\ n # 0
  BY Zenon, InList, EmptySeq
<1>3. /\ DOMAIN r = 1..(n - 1)
      /\ \A x : x \in Range(r) <=> \E j \in 1..(n - 1) : r[j] = x
      /\ \A i \in 1..(n - 1) : r[i] = q[i + 1] /\ i + 1 \in 1..n
  <2> HIDE DEF r, n
  <2>1. /\ DOMAIN r = 1..Len(r)
        /\ \A x : x \in Range(r) <=> \E j \in 1..Len(r) : r[j] = x
    BY Zenon, <1>1, InList
  <2>2. \A i \in 1..(n - 1) : i + 1 \in 1..n
    BY <1>2
  <2> QED
    BY Zenon, <1>1, <2>1, <2>2
<1> HIDE DEF r, n
<1>4. 1 \in 1..n /\ Head(q) \in Range(q) /\ Head(q) \in T
  BY <1>1, <1>2
<1>5. Range(r) \subseteq Range(q)
  BY Zenon, <1>2, <1>3
<1>6. ASSUME NEW k \in 1..n, k # 1
      PROVE  q[k] \in Range(r)
  <2>1. k - 1 \in 1..(n - 1) /\ (k - 1) + 1 = k
    BY <1>2, <1>6
  <2> QED
    BY Zenon, <1>3, <2>1
<1>7. Range(q) \subseteq {Head(q)} \cup Range(r)
  BY Zenon, <1>1, <1>2, <1>6
<1>8. ASSUME IsInjective(q)
      PROVE  IsInjective(r) /\ Head(q) \notin Range(r)
  <2>1. \A a, b \in 1..n : q[a] = q[b] => a = b
    BY Zenon, <1>2, <1>8 DEF IsInjective
  <2>2. \A a \in 1..(n - 1) : a + 1 # 1
    BY <1>2
  <2>3. Head(q) \notin Range(r)
    BY <1>1, <1>3, <1>4, <2>1, <2>2
  <2>4. \A a, b \in 1..(n - 1) : r[a] = r[b] => a + 1 = b + 1
    BY Zenon, <1>3, <2>1
  <2> QED
    BY <1>3, <2>3, <2>4 DEF IsInjective
<1> QED
  BY Zenon, <1>1, <1>4, <1>5, <1>7, <1>8 DEF r

-----------------------------------------------------------------------------
(* A step of one actor leaves the places of the others alone. *)
Moves(a) ==
  /\ pc' \in [Actor -> Pc] /\ file' \in [Actor -> File \cup {NoFile}]
  /\ \A b \in Actor : b # a => pc'[b] = pc[b] /\ file'[b] = file[b]

LeavingAt(a, f) == file[a] = f /\ pc[a] \in DropPc \cup DelPc

LEMMA LeavingKept ==
  ASSUME NEW a \in Actor, Moves(a), NEW f, Leaving(f),
         LeavingAt(a, f) => LeavingAt(a, f)'
  PROVE  Leaving(f)'
BY Zenon DEF Moves, Leaving, LeavingAt, DropPc, DelPc

(* What makes EventKept speak of f, and what it then says. *)
Waits(f) ==
  /\ f \in registered /\ Alive(f) /\ ready[f] /\ entry[f].state = "Waiting"
  /\ owed[f] \/ entry[f].flags = "level"

PendingAt(a, f) ==
  \/ a = f /\ pc[a] \in {"Notify", "CallBack"}
  \/ a \in Controller /\ file[a] = f /\ pc[a] \in {"Readiness", "CallBack"}
  \/ a \in Waiter /\ file[a] = f /\ pc[a] = "Take" /\ ok[a]

LEMMA PendingSomewhere ==
  ASSUME NEW f \in File
  PROVE  /\ Pending(f) <=> \E a \in Actor : PendingAt(a, f)
         /\ Coming(f) <=> \E a \in Actor \ Waiter : PendingAt(a, f)
BY Zenon, EpollAssumption DEF Pending, Coming, PendingAt, Actor,
   Task, At

LEMMA PendingKept ==
  ASSUME NEW a \in Actor, Moves(a), NEW f \in File,
         \A t \in Waiter : t # a => ok'[t] = ok[t]
  PROVE  /\ (PendingAt(a, f) => PendingAt(a, f)') => (Pending(f) => Pending(f)')
         /\ (a \notin Waiter /\ PendingAt(a, f) => PendingAt(a, f)') =>
              (Coming(f) => Coming(f)')
<1>1. \A b \in Actor : b # a /\ PendingAt(b, f) => PendingAt(b, f)'
  BY Zenon DEF Moves, PendingAt
<1>2. /\ Pending(f) <=> \E b \in Actor : PendingAt(b, f)
      /\ Coming(f) <=> \E b \in Actor \ Waiter : PendingAt(b, f)
  BY Zenon, PendingSomewhere
<1>3. /\ Pending(f)' <=> \E b \in Actor : PendingAt(b, f)'
      /\ Coming(f)' <=> \E b \in Actor \ Waiter : PendingAt(b, f)'
  BY Zenon, EpollAssumption DEF Pending, Coming, PendingAt,
     Actor, Task, At
<1> QED
  BY Zenon, <1>1, <1>2, <1>3

(* A file that is alive after a step was alive before, unless it was       *)
(* opened or got by the one that steps.                                    *)
LEMMA AliveBack ==
  ASSUME NEW a \in Actor, Moves(a), NEW f \in File, Alive(f)',
         open'[f] => open[f],
         a \in Task /\ file'[a] = f /\ pc'[a] \notin DropPc =>
           Alive(f) \/ (file[a] = f /\ pc[a] \notin DropPc)
  PROVE  Alive(f)
BY Zenon DEF Moves, Alive, DropPc, Actor

-----------------------------------------------------------------------------
(* Only the holder of the list walks. *)
LEMMA NoWalk ==
  ASSUME Inv, NEW t \in Waiter, t # lists
  PROVE  pc[t] \notin WalkPc \cup DropPc
BY Zenon DEF Inv, Structure, Places, Place, Actor, Task

(* A step that leaves the entries and the list alone, and is not one of a  *)
(* walk, leaves the list and the walks in order.                           *)
LEMMA ListedFrame ==
  ASSUME Inv, UNCHANGED <<entry, readyList>>,
         \A f \in File : f \in known \/ Leaving(f) => f \in known' \/ Leaving(f)'
  PROVE  ListedReady'
<1>1. Range(readyList) \subseteq File
  BY Zenon, InList DEF Inv, Structure, TypeOK
<1> QED
  BY Zenon, <1>1 DEF Inv, Structure, ListedReady

LEMMA WalksFrame ==
  ASSUME Inv, NEW a \in Actor, Moves(a), UNCHANGED <<readyList, rest, got>>,
         a \in Waiter => pc'[a] \notin WalkPc
  PROVE  Walks'
BY Zenon DEF Inv, Structure, Walks, Moves, Actor, Task

LEMMA ListFrame ==
  ASSUME Inv, NEW a \in Actor, Moves(a), UNCHANGED <<entry, readyList, rest, got>>,
         a \in Waiter => pc'[a] \notin WalkPc,
         \A f \in File : f \in known \/ Leaving(f) => f \in known' \/ Leaving(f)'
  PROVE  ListedReady' /\ Walks'
BY Zenon, ListedFrame, WalksFrame

(* A step that changes one entry, and its place in the list with it. *)
LEMMA ListedChange ==
  ASSUME Inv, NEW f \in File,
         readyList' \in Seq(File), IsInjective(readyList'),
         \A g \in File : g # f =>
           /\ g \in Range(readyList') => g \in Range(readyList)
           /\ g \in Range(readyList) => g \in Range(readyList')
           /\ entry'[g] = entry[g],
         f \in Range(readyList') <=> entry'[f].state = "Ready",
         f \in Range(readyList') => f \in known' \/ Leaving(f)',
         \A g \in File : g # f /\ (g \in known \/ Leaving(g)) =>
           g \in known' \/ Leaving(g)'
  PROVE  ListedReady'
<1>1. Range(readyList') \subseteq File
  BY Zenon, InList
<1> QED
  BY Zenon, <1>1 DEF Inv, Structure, ListedReady

Entries == [state : {"Ready", "Waiting", "Disabled"}, flags : Flags \cup {"none"}]

LEMMA EntryState ==
  ASSUME TypeOK, NEW f \in File, NEW s \in {"Ready", "Waiting", "Disabled"},
         entry' = [entry EXCEPT ![f].state = s]
  PROVE  /\ entry' \in [File -> Entries]
         /\ entry'[f].state = s /\ entry'[f].flags = entry[f].flags
         /\ \A g \in File : g # f => entry'[g] = entry[g]
<1>1. entry \in [File -> Entries]
  BY Zenon DEF TypeOK, Entries
<1>2. entry[f] \in Entries /\ entry'[f] = [entry[f] EXCEPT !.state = s]
  BY Zenon, <1>1
<1>3. /\ entry'[f] \in Entries /\ entry'[f].state = s
      /\ entry'[f].flags = entry[f].flags
  BY Zenon, <1>2 DEF Entries
<1> QED
  BY Zenon, <1>1, <1>3

LEMMA UnlistEffect ==
  ASSUME Inv, NEW f \in File, Unlist(f)
  PROVE  /\ readyList' \in Seq(File) /\ IsInjective(readyList')
         /\ f \notin Range(readyList')
         /\ \A g \in File : g # f =>
              (g \in Range(readyList') <=> g \in Range(readyList))
         /\ readyList' # <<>> => readyList # <<>>
<1>1. readyList \in Seq(File) /\ IsInjective(readyList)
      /\ (f \in Range(readyList) <=> entry[f].state = "Ready")
  BY Zenon DEF Inv, Structure, TypeOK, ListedReady
<1>2. CASE entry[f].state = "Ready"
  <2>1. readyList' = RemoveEntry(readyList, f)
    BY Zenon, <1>2 DEF Unlist
  <2>2. readyList' \in Seq(File) /\ IsInjective(readyList')
        /\ Range(readyList') = Range(readyList) \ {f}
    BY Zenon, <1>1, <1>2, <2>1, RemoveEntryList
  <2> QED
    BY <1>1, <2>2, InList
<1>3. CASE entry[f].state # "Ready"
  BY Zenon, <1>1, <1>3 DEF Unlist
<1> QED
  BY Zenon, <1>2, <1>3

(* A step that neither wakes nor puts anybody to sleep. *)
LEMMA SleepFrame ==
  ASSUME Inv, NEW a \in Actor, Moves(a),
         readyList' # <<>> => readyList # <<>>,
         pc[a] = "Wake" => pc'[a] = "Wake",
         a \in Waiter => pc'[a] # "Block",
         \A t \in Waiter : t # a => /\ t \in queue => t \in queue'
                                    /\ event'[t] = event[t]
  PROVE  Sleepers' /\ SleeperNotified'
<1>1. Sleepers'
  BY Zenon DEF Inv, Sleepers, Moves, Actor, Task
<1>2. SleeperNotified'
  BY Zenon DEF Inv, SleeperNotified, At, Moves, Actor, Task
<1> QED
  BY Zenon, <1>1, <1>2

(* A step that brings no event without a callback for it, and takes none   *)
(* back.                                                                   *)
LEMMA KeptFrame ==
  ASSUME Inv, NEW a \in Actor, Moves(a),
         \A t \in Waiter : t # a => ok'[t] = ok[t] /\ call'[t] = call[t],
         a \in Waiter /\ pc'[a] = "Take" /\ ready'[file'[a]] =>
           ok'[a] /\ (call'[a] = "avail" \/ ~owed'[file'[a]]),
         registered' \subseteq File,
         \A f \in registered' :
           \/ ~ready'[f]
           \/ Coming(f)'
           \/ /\ f \in registered /\ ready[f] /\ (owed'[f] => owed[f])
              /\ open'[f] => open[f]
              /\ Waits(f)' =>
                   entry[f].state = "Waiting" /\ entry'[f].flags = entry[f].flags
              /\ a \in Task /\ file'[a] = f /\ pc'[a] \notin DropPc =>
                   Alive(f) \/ (file[a] = f /\ pc[a] \notin DropPc)
              /\ PendingAt(a, f) =>
                   \/ PendingAt(a, f)'
                   \/ ~Waits(f)' /\ (lists = Nobody \/ a \in Waiter)
  PROVE  TakeKept' /\ EventKept'
<1>t. \A t \in Waiter : t \in Actor
  BY Zenon DEF Actor, Task
<1>1. ASSUME NEW t \in Waiter, pc'[t] = "Take", file'[t] \in registered',
             ready'[file'[t]],
             ~ok'[t] \/ (owed'[file'[t]] /\ call'[t] # "avail")
      PROVE  Coming(file[t])'
  <2>1. t # a /\ pc[t] = "Take" /\ file'[t] = file[t]
    BY Zenon, <1>t, <1>1 DEF Moves
  <2>2. CASE Coming(file[t])'
    BY Zenon, <2>2
  <2>3. CASE ~Coming(file[t])'
    <3>1. /\ file[t] \in registered /\ ready[file[t]] /\ file[t] \in File
          /\ ~ok[t] \/ (owed[file[t]] /\ call[t] # "avail")
      BY Zenon, <1>1, <2>1, <2>3 DEF Coming
    <3>2. lists # Nobody
      BY <2>1, NoWalk, EpollAssumption DEF WalkPc
    <3>3. a \notin Waiter /\ PendingAt(a, file[t]) => PendingAt(a, file[t])'
      BY ZenonT(40), <1>1, <2>1, <2>3, <3>2 DEF Coming, PendingAt
    <3>4. Coming(file[t])
      BY Zenon, <2>1, <3>1 DEF Inv, TakeKept
    <3>5. \A f \in File :
            (a \notin Waiter /\ PendingAt(a, f) => PendingAt(a, f)') =>
              (Coming(f) => Coming(f)')
      BY Zenon, PendingKept
    <3> QED
      BY <2>1, <3>1, <3>3, <3>4, <3>5 DEF Coming
  <2> QED
    BY Zenon, <2>2, <2>3
<1>2. ASSUME NEW f \in registered', Waits(f)'
      PROVE  Pending(f)'
  <2>1. CASE Coming(f)'
    BY Zenon, <2>1 DEF Coming, Pending
  <2>2. CASE ~Coming(f)'
    <3>1. Alive(f)
      BY Zenon, <1>2, <2>2, AliveBack DEF Waits
    <3>2. Waits(f) /\ (PendingAt(a, f) => PendingAt(a, f)')
      BY Zenon, <1>2, <2>2, <3>1 DEF Waits
    <3>3. Pending(f)
      BY Zenon, <3>2 DEF Waits, Inv, EventKept
    <3> QED
      BY Zenon, <3>2, <3>3, PendingKept
  <2> QED
    BY Zenon, <2>1, <2>2
<1>3. TakeKept'
  BY Zenon, <1>1 DEF TakeKept
<1>4. EventKept'
  BY Zenon, <1>2 DEF EventKept, Waits
<1> QED
  BY Zenon, <1>3, <1>4

LEMMA KeptQuiet ==
  ASSUME Inv, NEW a \in Actor, Moves(a), UNCHANGED <<ready, owed, entry, ok>>,
         \A t \in Waiter : t # a => call'[t] = call[t],
         a \in Waiter => pc'[a] # "Take",
         registered' \subseteq registered,
         \A f \in File : open'[f] => open[f],
         a \in Task => \/ file'[a] = NoFile \/ pc'[a] \in DropPc
                       \/ file'[a] = file[a] /\ pc[a] \notin DropPc
                       \/ Alive(file'[a]),
         \A f \in File : f \in registered /\ ready[f] /\ PendingAt(a, f) =>
           PendingAt(a, f)'
  PROVE  TakeKept' /\ EventKept'
<1>1. registered \subseteq File /\ NoFile \notin File
  BY Zenon, EpollAssumption DEF Inv, Structure, TypeOK
<1>2. ASSUME NEW f \in registered', ready'[f]
      PROVE  /\ f \in registered /\ ready[f] /\ (owed'[f] => owed[f])
             /\ open'[f] => open[f]
             /\ Waits(f)' =>
                  entry[f].state = "Waiting" /\ entry'[f].flags = entry[f].flags
             /\ a \in Task /\ file'[a] = f /\ pc'[a] \notin DropPc =>
                  Alive(f) \/ (file[a] = f /\ pc[a] \notin DropPc)
             /\ PendingAt(a, f) => PendingAt(a, f)'
  <2>1. f \in registered /\ f \in File /\ ready[f]
    BY Zenon, <1>1, <1>2
  <2> QED
    BY Zenon, <1>1, <1>2, <2>1 DEF Waits
<1> QED
  BY Zenon, <1>1, <1>2, KeptFrame

(* Who lets go of a file goes on without it, or was the last to have it. *)
LEMMA LetGoEffect ==
  ASSUME Inv, NEW a \in Actor, NEW l \in Pc, file[a] \in File, LetGo(a, file[a], l)
  PROVE  /\ Moves(a)
         /\ \/ pc'[a] = l /\ file'[a] = IF a = file[a] THEN a ELSE NoFile
            \/ /\ pc'[a] = "DropFiles" /\ file'[a] = file[a]
               /\ ~open[file[a]] /\ file[a] \in registered
               /\ \A t \in Task : t # a => file[t] # file[a]
               /\ a = file[a] \/ pc[file[a]] = "Idle"
BY Zenon DEF Inv, Structure, TypeOK, LetGo, Goto, Busy, Moves, Pc

LEMMA ReturnEffect ==
  ASSUME Inv, NEW a \in Actor, pc[a] \in {"CallBack", "Wake"}, Return(a)
  PROVE  /\ Moves(a) /\ file'[a] = file[a] /\ a \in Controller \cup File
         /\ a \in Controller => pc'[a] = "Done"
         /\ a \in File => \/ pc'[a] = "Idle"
                          \/ /\ pc'[a] = "DropFiles"
                             /\ ~open[a] /\ a \in registered
                             /\ \A t \in Task : file[t] # a
<1>1. Place(a) /\ TypeOK
  BY Zenon DEF Inv, Structure, Places
<1>2. a \in Controller \/ (a \in File /\ file[a] = a /\ a \notin Task)
  BY Zenon, <1>1, EpollAssumption DEF Place, Actor, Task, WaitPc, DropPc
<1>3. CASE a \in Controller
  <2>1. a \notin File
    BY Zenon, <1>3, EpollAssumption
  <2>2. pc' = [pc EXCEPT ![a] = "Done"] /\ file' = file
    BY Zenon, <2>1 DEF Return, Goto
  <2> QED
    BY Zenon, <1>1, <1>3, <2>1, <2>2 DEF Moves, TypeOK, Pc
<1>4. CASE a \notin Controller
  <2>1. "Idle" \in Pc /\ LetGo(a, file[a], "Idle")
    BY Zenon, <1>2, <1>4 DEF Return, Pc
  <2> QED
    BY <1>2, <1>4, <2>1, LetGoEffect
<1> QED
  BY Zenon, <1>3, <1>4
(* What a step may do to the files, the map and the wait queues: it adds   *)
(* or takes away only the file of the one that steps, and gets only a file *)
(* that is alive.                                                          *)
LEMMA PlacesFrame ==
  ASSUME Inv, NEW a \in Actor, Moves(a), Place(a)', Alone(a)',
         lists' = lists \/ lists \in {Nobody, a},
         files' = files \/ files \in {Nobody, a},
         \A f \in File : f # file[a] => /\ f \in known <=> f \in known'
                                        /\ f \in registered <=> f \in registered',
         registered' = registered \/ QueueFree(file[a]),
         registered' \subseteq registered \/ a \in Controller,
         registered' = registered \/ a \in Task \/ pc[a] # "Idle",
         file[a] \in known' \/ files = Nobody \/ file[a] \notin known,
         \A f \in File : open'[f] => \/ open[f]
                                     \/ \A b \in Actor : LeavingAt(b, f) =>
                                       pc[b] \notin DropPc,
         a \in Task => \/ file'[a] \in {file[a], NoFile}
                       \/ Alive(file'[a]) \/ pc'[a] \in DropPc,
         a \in File /\ pc[a] = "Idle" => pc'[a] = "Idle" \/ Alive(a)
  PROVE  Places'
<1> USE EpollAssumption DEF Inv, Structure, TypeOK, Moves, Actor, Task
<1>1. Place(a) /\ Alone(a)
  BY Zenon DEF Places
<1> SUFFICES ASSUME NEW b \in Actor, b # a
             PROVE  Place(b)' /\ Alone(b)'
  BY Zenon DEF Places
<1>2. Place(b) /\ Alone(b)
  BY Zenon DEF Places
<1>3. pc'[b] = pc[b] /\ file'[b] = file[b]
  BY Zenon
<1>4. b \in Waiter => Place(b)'
  BY ZenonT(30), <1>2, <1>3 DEF Place
<1>5. b \in Closer => Place(b)'
  BY Zenon, <1>2, <1>3 DEF Place
<1>6. ASSUME b \in Controller
      PROVE  Place(b)'
  <2>1. pc[b] \in UpdatePc => files' = b /\ file[b] \in known'
    <3>1. pc[b] \in UpdatePc => files = b /\ file[b] \in known /\ b # Nobody
      BY Zenon, <1>6, <1>2 DEF Place
    <3> QED
      BY Zenon, <3>1
  <2>2. ASSUME pc[b] # "Idle", file[b] \notin registered
        PROVE  file[b] \notin registered'
    <3>1. file[b] \in File
      BY ZenonT(40), <1>6, <1>2, <2>2 DEF Place
    <3>2. a \in Controller => file[a] # file[b]
      BY Zenon, <1>6, <3>1 DEF OneCtl
    <3> QED
      BY Zenon, <2>2, <3>1, <3>2
  <2>3. b \notin Waiter /\ b \notin Closer /\ b \notin File
    BY Zenon, <1>6
  <2> QED
    BY Zenon, <1>2, <1>3, <2>1, <2>2, <2>3 DEF Place
<1>7. b \in File => Place(b)'
  BY ZenonT(30), <1>2, <1>3 DEF Place, QueueFree
<1>8. ASSUME pc[b] \in DropPc
      PROVE  Alone(b)'
  <2>1. /\ ~open[file[b]] /\ file[b] \in registered /\ file[b] \in File
        /\ \A t \in Task : t # b => file[t] # file[b]
        /\ b = file[b] \/ pc[file[b]] = "Idle"
    BY Zenon, <1>2, <1>8 DEF Alone
  <2>2. ~open'[file[b]]
    BY Zenon, <1>8, <2>1 DEF LeavingAt
  <2>3. ~Alive(file[b])
    BY Zenon, <1>8, <2>1 DEF Alive, DropPc
  <2>4. file[b] \in registered'
    <3>1. CASE a \in Task
      BY Zenon, <2>1, <3>1
    <3>2. CASE a \notin Task
      <4>1. a \in File /\ file[a] = a
        BY Zenon, <1>1, <3>2 DEF Place
      <4> QED
        BY Zenon, <2>1, <3>2, <4>1
    <3> QED
      BY Zenon, <3>1, <3>2
  <2>5. a \in Task => file'[a] # file[b]
    <3>1. CASE pc'[a] \in DropPc /\ file'[a] = file[b]
      <4>1. b \in Task => file'[b] # file'[a]
        BY Zenon, <3>1 DEF Alone
      <4>2. b \in File => b = file[b]
        BY Zenon, <1>2 DEF Place
      <4>3. a = file'[a] \/ pc'[file'[a]] = "Idle"
        BY Zenon, <3>1 DEF Alone
      <4> QED
        BY Zenon, <1>3, <1>8, <3>1, <4>1, <4>2, <4>3 DEF DropPc
    <3> QED
      BY <2>1, <2>3, <3>1
  <2>6. b = file[b] \/ pc'[file[b]] = "Idle"
    BY ZenonT(40), <2>1, <2>3
  <2> QED
    BY ZenonT(40), <1>3, <2>1, <2>2, <2>4, <2>5, <2>6 DEF Alone
<1>9. Alone(b)'
  BY Zenon, <1>3, <1>8 DEF Alone
<1> QED
  BY Zenon, <1>4, <1>5, <1>6, <1>7, <1>9

LEMMA OneCtlFrame ==
  ASSUME Inv, NEW a \in Actor, Moves(a),
         a \in Controller => \/ file'[a] \in {file[a], NoFile}
                             \/ \A d \in Controller : file[d] # file'[a]
  PROVE  OneCtl'
BY Zenon DEF Inv, Structure, OneCtl, Moves, Actor, Task

LEMMA KnownFrame ==
  ASSUME Inv, NEW a \in Actor, Moves(a),
         \A f \in File : f \in known => f \in known' \/ LeavingAt(a, f)',
         \A f \in File : LeavingAt(a, f) => LeavingAt(a, f)',
         registered' \subseteq registered \cup known', registered' \subseteq File
  PROVE  /\ \A f \in File : f \in known \/ Leaving(f) => f \in known' \/ Leaving(f)'
         /\ RegisteredKnown'
<1>1. \A f \in File : Leaving(f) => Leaving(f)'
  BY Zenon, LeavingKept
<1>2. \A f \in File : LeavingAt(a, f)' => Leaving(f)'
  BY Zenon DEF LeavingAt, Leaving, DropPc, DelPc
<1> QED
  BY Zenon, <1>1, <1>2 DEF Inv, Structure, RegisteredKnown

-----------------------------------------------------------------------------
(* Every step preserves the invariant. *)

LEMMA ArriveInv ==
  ASSUME Inv, NEW f \in File, Arrive(f)
  PROVE  Inv'
<1> USE EpollAssumption DEF Arrive, Alive, Busy, At, Goto, fileVars,
        epollVars, scanVars,
        Actor, Task
<1>t. TypeOK /\ Place(f) /\ Alone(f) /\ f \in Actor
  BY Zenon DEF Inv, Structure, Places, Actor, Task
<1>m. Moves(f)
  BY Zenon, <1>t DEF Moves, TypeOK, Pc
<1>1. TypeOK'
  BY <1>t DEF TypeOK, Pc
<1>2. Place(f)' /\ Alone(f)'
  BY Zenon, <1>t DEF Place, Alone, TypeOK, WaitPc, UpdatePc, DelPc, DropPc,
     CtlPc, NotifyPc, WalkPc
<1>3. Places'
  BY Zenon, <1>t, <1>m, <1>2, PlacesFrame DEF Place, TypeOK, Alive,
     LeavingAt, QueueFree, WaitPc, UpdatePc, DelPc, DropPc, CtlPc, NotifyPc,
     WalkPc
<1>4. OneCtl'
  BY Zenon, <1>t, <1>m, OneCtlFrame DEF TypeOK
<1>5. /\ \A g \in File : g \in known \/ Leaving(g) => g \in known' \/ Leaving(g)'
      /\ RegisteredKnown'
  BY Zenon, <1>t, <1>m, KnownFrame DEF TypeOK, Place, LeavingAt, WaitPc,
     UpdatePc, DelPc, DropPc, CtlPc, NotifyPc, WalkPc
<1>6. ListedReady' /\ Walks'
  BY Zenon, <1>t, <1>m, <1>5, ListFrame DEF TypeOK, WalkPc
<1>7. Sleepers' /\ SleeperNotified'
  BY Zenon, <1>t, <1>m, SleepFrame DEF TypeOK
<1>8. TakeKept' /\ EventKept'
  BY Zenon, <1>t, <1>m, KeptFrame DEF TypeOK, Place, PendingAt, Coming,
     Alive, Waits,
     WaitPc, UpdatePc, DelPc, DropPc, CtlPc, NotifyPc, WalkPc
<1> QED
  BY Zenon, <1>1, <1>3, <1>4, <1>5, <1>6, <1>7, <1>8 DEF Inv, Structure

LEMMA DrainInv ==
  ASSUME Inv, NEW f \in File, Drain(f)
  PROVE  Inv'
<1> USE EpollAssumption DEF Drain, At, Goto, fileVars, epollVars, scanVars,
        Actor, Task
<1>t. TypeOK /\ Place(f) /\ Alone(f) /\ f \in Actor
  BY Zenon DEF Inv, Structure, Places, Actor, Task
<1>m. Moves(f)
  BY Zenon, <1>t DEF Moves, TypeOK, Pc
<1>1. TypeOK'
  BY <1>t DEF TypeOK, Pc
<1>2. Place(f)' /\ Alone(f)'
  BY Zenon, <1>t DEF Place, Alone, TypeOK, WaitPc, UpdatePc, DelPc, DropPc,
     CtlPc, NotifyPc, WalkPc
<1>3. Places'
  BY Zenon, <1>t, <1>m, <1>2, PlacesFrame DEF Place, TypeOK, Alive,
     LeavingAt, QueueFree, WaitPc, UpdatePc, DelPc, DropPc, CtlPc, NotifyPc,
     WalkPc
<1>4. OneCtl'
  BY Zenon, <1>t, <1>m, OneCtlFrame DEF TypeOK
<1>5. /\ \A g \in File : g \in known \/ Leaving(g) => g \in known' \/ Leaving(g)'
      /\ RegisteredKnown'
  BY Zenon, <1>t, <1>m, KnownFrame DEF TypeOK, Place, LeavingAt, WaitPc,
     UpdatePc, DelPc, DropPc, CtlPc, NotifyPc, WalkPc
<1>6. ListedReady' /\ Walks'
  BY Zenon, <1>t, <1>m, <1>5, ListFrame DEF TypeOK, WalkPc
<1>7. Sleepers' /\ SleeperNotified'
  BY Zenon, <1>t, <1>m, SleepFrame DEF TypeOK
<1>8. TakeKept' /\ EventKept'
  <2>1. ASSUME NEW g \in registered', ready'[g], ~Coming(g)'
        PROVE  /\ g \in registered /\ ready[g] /\ (owed'[g] => owed[g])
               /\ open'[g] => open[g]
               /\ Waits(g)' =>
                    entry[g].state = "Waiting" /\ entry'[g].flags = entry[g].flags
               /\ f \in Task /\ file'[f] = g /\ pc'[f] \notin DropPc =>
                    Alive(g) \/ (file[f] = g /\ pc[f] \notin DropPc)
               /\ PendingAt(f, g) =>
                    \/ PendingAt(f, g)'
                    \/ ~Waits(g)' /\ (lists = Nobody \/ f \in Waiter)
    BY Zenon, <1>t, <2>1 DEF TypeOK, Waits, PendingAt, Coming
  <2> QED
    BY Zenon, <1>t, <1>m, <1>1, <2>1, KeptFrame DEF TypeOK
<1> QED
  BY Zenon, <1>1, <1>3, <1>4, <1>5, <1>6, <1>7, <1>8 DEF Inv,
     Structure

LEMMA ReopenInv ==
  ASSUME Inv, NEW f \in File, Reopen(f)
  PROVE  Inv'
<1> USE EpollAssumption DEF Reopen, Busy, At, Goto, fileVars, epollVars,
        scanVars,
        Actor, Task
<1>t. TypeOK /\ Place(f) /\ Alone(f) /\ f \in Actor
  BY Zenon DEF Inv, Structure, Places, Actor, Task
<1>m. Moves(f)
  BY Zenon, <1>t DEF Moves, TypeOK, Pc
<1>1. TypeOK'
  BY <1>t DEF TypeOK, Pc
<1>2. /\ Place(f)' /\ Alone(f)'
      /\ \A b \in Actor : LeavingAt(b, f) => pc[b] \notin DropPc
  <2>1. Place(f)' /\ Alone(f)'
    BY Zenon, <1>t DEF Place, Alone, TypeOK, WaitPc, UpdatePc, DelPc, DropPc,
       CtlPc, NotifyPc, WalkPc
  <2>2. ASSUME NEW b \in Actor, LeavingAt(b, f)
        PROVE  pc[b] \notin DropPc
    <3>1. b \in File => b = file[b]
      BY Zenon DEF Inv, Structure, Places, Place
    <3> QED
      BY Zenon, <2>2, <3>1 DEF LeavingAt, DropPc
  <2> QED
    BY Zenon, <2>1, <2>2
<1>3. Places'
  BY Zenon, <1>t, <1>m, <1>2, PlacesFrame DEF Place, TypeOK, Alive,
     LeavingAt, QueueFree, WaitPc, UpdatePc, DelPc, DropPc, CtlPc, NotifyPc,
     WalkPc
<1>4. OneCtl'
  BY Zenon, <1>t, <1>m, OneCtlFrame DEF TypeOK
<1>5. /\ \A g \in File : g \in known \/ Leaving(g) => g \in known' \/ Leaving(g)'
      /\ RegisteredKnown'
  BY Zenon, <1>t, <1>m, KnownFrame DEF TypeOK, Place, LeavingAt, WaitPc,
     UpdatePc, DelPc, DropPc, CtlPc, NotifyPc, WalkPc
<1>6. ListedReady' /\ Walks'
  BY Zenon, <1>t, <1>m, <1>5, ListFrame DEF TypeOK, WalkPc
<1>7. Sleepers' /\ SleeperNotified'
  BY Zenon, <1>t, <1>m, SleepFrame DEF TypeOK
<1>8. TakeKept' /\ EventKept'
  <2>1. ASSUME NEW g \in registered', ready'[g], ~Coming(g)'
        PROVE  /\ g \in registered /\ ready[g] /\ (owed'[g] => owed[g])
               /\ open'[g] => open[g]
               /\ Waits(g)' =>
                    entry[g].state = "Waiting" /\ entry'[g].flags = entry[g].flags
               /\ f \in Task /\ file'[f] = g /\ pc'[f] \notin DropPc =>
                    Alive(g) \/ (file[f] = g /\ pc[f] \notin DropPc)
               /\ PendingAt(f, g) =>
                    \/ PendingAt(f, g)'
                    \/ ~Waits(g)' /\ (lists = Nobody \/ f \in Waiter)
    BY Zenon, <1>t, <2>1 DEF TypeOK, Waits, PendingAt, Coming
  <2> QED
    BY Zenon, <1>t, <1>m, <1>1, <2>1, KeptFrame DEF TypeOK
<1> QED
  BY Zenon, <1>1, <1>3, <1>4, <1>5, <1>6, <1>7, <1>8 DEF Inv, Structure

LEMMA CloseInv ==
  ASSUME Inv, NEW c \in Closer, NEW f \in File, Close(c, f)
  PROVE  Inv'
<1> USE EpollAssumption DEF At, fileVars, epollVars, scanVars, Actor, Task
<1>t. TypeOK /\ Place(c) /\ Alone(c) /\ c \in Actor
  BY Zenon DEF Inv, Structure, Places
<1>e. /\ pc[c] = "Idle" /\ c \notin File /\ c \notin Waiter /\ c \notin Controller
      /\ pc' \in [Actor -> Pc] /\ file' \in [Actor -> File \cup {NoFile}]
      /\ \A b \in Actor : b # c => pc'[b] = pc[b] /\ file'[b] = file[b]
      /\ \/ pc'[c] = pc[c] /\ file'[c] = file[c]
         \/ /\ pc'[c] = "DropFiles" /\ file'[c] = f /\ f \in registered
            /\ pc[f] = "Idle" /\ \A t \in Task : file[t] # f
      /\ open' = [open EXCEPT ![f] = FALSE]
      /\ UNCHANGED <<ready, owed, known, registered, entry, readyList, files,
                     lists, queue, event, call, rest, got, ok>>
  <2>1. CASE UNCHANGED <<pc, file>>
    BY Zenon, <1>t, <2>1 DEF Close, TypeOK
  <2>2. CASE ~UNCHANGED <<pc, file>>
    <3>1. /\ pc' = [pc EXCEPT ![c] = "DropFiles"] /\ file' = [file EXCEPT ![c] = f]
          /\ \A t \in Task : file[t] # f
          /\ pc[f] = "Idle" /\ f \in registered
      BY Zenon, <2>2 DEF Close, Busy, Goto
    <3>2. /\ "DropFiles" \in Pc /\ pc \in [Actor -> Pc]
          /\ file \in [Actor -> File \cup {NoFile}]
      BY Zenon, <1>t DEF TypeOK, Pc
    <3>3. /\ pc[c] = "Idle" /\ c \notin File /\ c \notin Waiter
          /\ c \notin Controller
          /\ open' = [open EXCEPT ![f] = FALSE]
          /\ UNCHANGED <<ready, owed, known, registered, entry, readyList, files,
                         lists, queue, event, call, rest, got, ok>>
      BY Zenon DEF Close
    <3> QED
      BY Zenon, <1>t, <3>1, <3>2, <3>3
  <2> QED
    BY Zenon, <2>1, <2>2
<1>m. Moves(c)
  BY Zenon, <1>t, <1>e DEF Moves
<1>1. TypeOK'
  BY <1>t, <1>e, <1>m DEF TypeOK, Moves
<1>2. Place(c)' /\ Alone(c)'
  BY <1>t, <1>e, <1>m DEF Place, Alone, TypeOK, Moves,
     WaitPc,
     UpdatePc, DelPc, DropPc, CtlPc, NotifyPc, WalkPc
<1>3. Places'
  BY Zenon, <1>t, <1>e, <1>m, <1>2, PlacesFrame DEF Place, TypeOK, Alive,
     LeavingAt, QueueFree, WaitPc, UpdatePc, DelPc, DropPc, CtlPc, NotifyPc,
     WalkPc
<1>4. OneCtl'
  BY Zenon, <1>t, <1>e, <1>m, OneCtlFrame
<1>5. /\ \A g \in File : g \in known \/ Leaving(g) => g \in known' \/ Leaving(g)'
      /\ RegisteredKnown'
  BY Zenon, <1>t, <1>e, <1>m, KnownFrame DEF TypeOK, LeavingAt, DropPc, DelPc
<1>6. ListedReady' /\ Walks'
  BY Zenon, <1>t, <1>e, <1>m, <1>5, ListFrame
<1>7. Sleepers' /\ SleeperNotified'
  BY Zenon, <1>t, <1>e, <1>m, SleepFrame
<1>8. TakeKept' /\ EventKept'
  BY Zenon, <1>t, <1>e, <1>m, KeptQuiet DEF TypeOK, PendingAt, Alive, DropPc
<1> QED
  BY Zenon, <1>1, <1>3, <1>4, <1>5, <1>6, <1>7, <1>8 DEF Inv, Structure

LEMMA NotifyInv ==
  ASSUME Inv, NEW f \in File, Notify(f)
  PROVE  Inv'
<1> USE EpollAssumption DEF At, fileVars, epollVars, scanVars, Actor, Task
<1>t. TypeOK /\ Place(f) /\ Alone(f) /\ f \in Actor
  BY Zenon DEF Inv, Structure, Places
<1>e. /\ pc[f] = "Notify" /\ f \notin Task /\ file[f] = f
      /\ pc' \in [Actor -> Pc] /\ file' \in [Actor -> File \cup {NoFile}]
      /\ \A b \in Actor : b # f => pc'[b] = pc[b] /\ file'[b] = file[b]
      /\ file'[f] = f
      /\ \/ pc'[f] = "CallBack" /\ f \in registered
         \/ pc'[f] = "Idle" /\ f \notin registered
      /\ UNCHANGED <<open, ready, owed, known, registered, entry, readyList, files,
                     lists, queue, event, call, rest, got, ok>>
  <2>0. /\ file[f] = f /\ "Idle" \in Pc /\ f \notin Task /\ pc[f] = "Notify"
        /\ UNCHANGED <<open, ready, owed, known, registered, entry, readyList, files,
                       lists, queue, event, call, rest, got, ok>>
    BY Zenon, <1>t DEF Place, Pc, Notify
  <2>1. CASE f \in registered
    <3>1. pc' = [pc EXCEPT ![f] = "CallBack"] /\ file' = file
      BY Zenon, <2>1 DEF Notify, Goto
    <3> QED
      BY Zenon, <1>t, <2>0, <2>1, <3>1 DEF TypeOK, Pc
  <2>2. CASE f \notin registered
    <3>1. LetGo(f, file[f], "Idle")
      BY Zenon, <2>0, <2>2 DEF Notify
    <3>2. Moves(f) /\ pc'[f] = "Idle" /\ file'[f] = f
      BY ZenonT(40), <1>t, <2>0, <2>2, <3>1, LetGoEffect
    <3> QED
      BY Zenon, <1>t, <2>0, <2>2, <3>2 DEF Moves
  <2> QED
    BY Zenon, <2>1, <2>2
<1>m. Moves(f)
  BY Zenon, <1>t, <1>e DEF Moves
<1>1. TypeOK'
  BY Zenon, <1>t, <1>e, <1>m DEF TypeOK, Moves
<1>2. Place(f)' /\ Alone(f)'
  BY Zenon, <1>t, <1>e, <1>m DEF Place, Alone, TypeOK, Moves, WaitPc,
     UpdatePc, DelPc, DropPc, CtlPc, NotifyPc, WalkPc
<1>3. Places'
  BY Zenon, <1>t, <1>e, <1>m, <1>2, PlacesFrame DEF Place, TypeOK, Alive,
     LeavingAt, QueueFree, WaitPc, UpdatePc, DelPc, DropPc, CtlPc, NotifyPc,
     WalkPc
<1>4. OneCtl'
  BY Zenon, <1>t, <1>e, <1>m, OneCtlFrame
<1>5. /\ \A g \in File : g \in known \/ Leaving(g) => g \in known' \/ Leaving(g)'
      /\ RegisteredKnown'
  BY Zenon, <1>t, <1>e, <1>m, KnownFrame DEF TypeOK, LeavingAt, DropPc, DelPc
<1>6. ListedReady' /\ Walks'
  BY Zenon, <1>t, <1>e, <1>m, <1>5, ListFrame
<1>7. Sleepers' /\ SleeperNotified'
  BY Zenon, <1>t, <1>e, <1>m, SleepFrame
<1>8. TakeKept' /\ EventKept'
  BY <1>t, <1>e, <1>m, KeptQuiet DEF TypeOK, PendingAt,
     Alive, DropPc
<1> QED
  BY Zenon, <1>1, <1>3, <1>4, <1>5, <1>6, <1>7, <1>8 DEF Inv,
     Structure

LEMMA CallBackInv ==
  ASSUME Inv, NEW a \in Actor, CallBack(a)
  PROVE  Inv'
<1> USE EpollAssumption DEF At, fileVars, epollVars, scanVars, Actor, Task
<1>t. TypeOK /\ Place(a) /\ Alone(a) /\ a \in Actor
  BY Zenon DEF Inv, Structure, Places
<1>e. /\ pc[a] = "CallBack" /\ a \in Controller \cup File /\ file[a] \in File
      /\ file'[a] = file[a] /\ lists = Nobody /\ a # Nobody
      /\ pc' \in [Actor -> Pc] /\ file' \in [Actor -> File \cup {NoFile}]
      /\ \A b \in Actor : b # a => pc'[b] = pc[b] /\ file'[b] = file[b]
      /\ entry' \in [File -> Entries]
      /\ \A g \in File : g # file[a] => entry'[g] = entry[g]
      /\ entry'[file[a]].state # "Waiting"
      /\ \/ /\ a \in Controller => pc'[a] = "Done"
            /\ a \in File => \/ pc'[a] = "Idle"
                             \/ /\ pc'[a] = "DropFiles" /\ file[a] = a
                                /\ ~open[a] /\ a \in registered
                                /\ \A t \in Task : file[t] # a
            /\ UNCHANGED <<entry, readyList>>
         \/ /\ pc'[a] = "Wake" /\ entry[file[a]].state = "Waiting"
            /\ readyList' = PushBack(readyList, file[a])
            /\ entry'[file[a]].state = "Ready"
      /\ UNCHANGED <<open, ready, owed, known, registered, files, lists, queue,
                     event, call, rest, got, ok>>
  <2>1. /\ pc[a] = "CallBack" /\ lists = Nobody
        /\ UNCHANGED <<open, ready, owed, known, registered, files, lists, queue,
                       event, call, rest, got, ok>>
    BY Zenon DEF CallBack
  <2>2. /\ a \in Controller \cup File /\ file[a] \in File
        /\ (a \in File => file[a] = a) /\ a # Nobody
    BY Zenon, <1>t, <2>1 DEF Place, TypeOK, WaitPc, DropPc
  <2>3. CASE entry[file[a]].state = "Waiting"
    <3>1. /\ entry' = [entry EXCEPT ![file[a]].state = "Ready"]
          /\ readyList' = PushBack(readyList, file[a])
          /\ pc' = [pc EXCEPT ![a] = "Wake"] /\ file' = file
      BY Zenon, <2>3 DEF CallBack, Goto
    <3>2. /\ entry' \in [File -> Entries] /\ entry'[file[a]].state = "Ready"
          /\ \A g \in File : g # file[a] => entry'[g] = entry[g]
      BY Zenon, <1>t, <2>2, <3>1, EntryState
    <3>3. /\ pc' \in [Actor -> Pc] /\ file' \in [Actor -> File \cup {NoFile}]
          /\ \A b \in Actor : b # a => pc'[b] = pc[b] /\ file'[b] = file[b]
          /\ pc'[a] = "Wake" /\ file'[a] = file[a]
      BY Zenon, <1>t, <3>1 DEF TypeOK, Pc
    <3> QED
      BY Zenon, <2>1, <2>2, <2>3, <3>1, <3>2, <3>3
  <2>4. CASE entry[file[a]].state # "Waiting"
    <3>1. Return(a) /\ UNCHANGED <<entry, readyList>>
      BY Zenon, <2>4 DEF CallBack
    <3>2. entry' \in [File -> Entries]
      BY Zenon, <1>t, <3>1 DEF TypeOK, Entries
    <3> QED
      BY Zenon, <1>t, <2>1, <2>2, <2>4, <3>1, <3>2, ReturnEffect DEF Moves
  <2> QED
    BY Zenon, <2>3, <2>4
<1>m. Moves(a)
  BY Zenon, <1>t, <1>e DEF Moves
<1>0. /\ readyList' \in Seq(File) /\ IsInjective(readyList')
      /\ \A g \in File : g # file[a] =>
           (g \in Range(readyList') <=> g \in Range(readyList))
      /\ file[a] \in Range(readyList') <=> entry'[file[a]].state = "Ready"
  <2>0. file[a] \in File
    BY Zenon, <1>e
  <2>1. /\ readyList \in Seq(File) /\ IsInjective(readyList)
        /\ (file[a] \in Range(readyList) <=> entry[file[a]].state = "Ready")
    BY Zenon, <1>t, <1>e DEF Inv, Structure, TypeOK, ListedReady
  <2>2. CASE UNCHANGED <<entry, readyList>>
    BY Zenon, <2>1, <2>2
  <2>3. CASE ~UNCHANGED <<entry, readyList>>
    <3>1. /\ readyList' = PushBack(readyList, file[a])
          /\ entry'[file[a]].state = "Ready"
          /\ file[a] \notin Range(readyList)
      BY Zenon, <1>e, <2>1, <2>3
    <3>2. /\ readyList' \in Seq(File)
          /\ Range(readyList') = Range(readyList) \cup {file[a]}
          /\ IsInjective(readyList')
      BY <2>0, <2>1, <3>1, PushBackList
    <3> QED
      BY Zenon, <3>1, <3>2
  <2> QED
    BY Zenon, <2>2, <2>3
<1>1. TypeOK'
  BY Zenon, <1>t, <1>e, <1>m, <1>0 DEF TypeOK, Moves, Entries
<1>2. Place(a)' /\ Alone(a)'
  BY ZenonT(40), <1>t, <1>e, <1>m DEF Place, Alone, TypeOK, Moves, WaitPc,
     UpdatePc, DelPc, DropPc, CtlPc, NotifyPc, WalkPc
<1>3. Places'
  BY Zenon, <1>t, <1>e, <1>m, <1>2, PlacesFrame DEF Place, TypeOK, Alive,
     LeavingAt, QueueFree, WaitPc, UpdatePc, DelPc, DropPc, CtlPc, NotifyPc,
     WalkPc
<1>4. OneCtl'
  BY Zenon, <1>t, <1>e, <1>m, OneCtlFrame
<1>5. /\ \A g \in File : g \in known \/ Leaving(g) => g \in known' \/ Leaving(g)'
      /\ RegisteredKnown'
  BY Zenon, <1>t, <1>e, <1>m, KnownFrame DEF TypeOK, LeavingAt, DropPc, DelPc
<1>6. ListedReady' /\ Walks'
  <2>1. file[a] \in known' \/ Leaving(file[a])'
    <3>1. file[a] \in known \/ Leaving(file[a])
      BY Zenon, <1>t, <1>e DEF Inv, Structure, RegisteredKnown, Place, UpdatePc
    <3> QED
      BY Zenon, <1>e, <1>5, <3>1
  <2>2. ListedReady'
    BY ZenonT(30), <1>e, <1>0, <1>5, <2>1, ListedChange
  <2>3. Walks'
    BY Zenon, <1>t, <1>e, <1>m, NoWalk DEF Walks, Moves, WalkPc
  <2> QED
    BY Zenon, <2>2, <2>3
<1>7. Sleepers' /\ SleeperNotified'
  <2>1. CASE pc'[a] = "Wake"
    <3>1. Sleepers'
      BY Zenon, <1>e, <2>1 DEF Inv, Sleepers
    <3> QED
      BY Zenon, <1>t, <2>1, <3>1 DEF SleeperNotified
  <2>2. CASE pc'[a] # "Wake"
    BY Zenon, <1>t, <1>e, <1>m, <2>2, SleepFrame
  <2> QED
    BY Zenon, <2>1, <2>2
<1>8. TakeKept' /\ EventKept'
  <2>1. ASSUME NEW g \in registered', ready'[g], ~Coming(g)'
        PROVE  /\ g \in registered /\ ready[g] /\ (owed'[g] => owed[g])
               /\ open'[g] => open[g]
               /\ Waits(g)' =>
                    entry[g].state = "Waiting" /\ entry'[g].flags = entry[g].flags
               /\ a \in Task /\ file'[a] = g /\ pc'[a] \notin DropPc =>
                    Alive(g) \/ (file[a] = g /\ pc[a] \notin DropPc)
               /\ PendingAt(a, g) =>
                    \/ PendingAt(a, g)'
                    \/ ~Waits(g)' /\ (lists = Nobody \/ a \in Waiter)
    <3>1. g = file[a] => entry'[g].state # "Waiting"
      BY Zenon, <1>e
    <3>2. g # file[a] => entry'[g] = entry[g] /\ ~PendingAt(a, g)
      BY <1>t, <1>e, <2>1 DEF TypeOK, Place, PendingAt
    <3> QED
      BY Zenon, <1>t, <1>e, <2>1, <3>1, <3>2 DEF TypeOK, Waits, DropPc
  <2>2. a \notin Waiter /\ registered' \subseteq File /\ UNCHANGED <<ok, call>>
    BY Zenon, <1>t, <1>e DEF TypeOK
  <2> QED
    BY Zenon, <1>m, <2>1, <2>2, KeptFrame
<1> QED
  BY Zenon, <1>1, <1>3, <1>4, <1>5, <1>6, <1>7, <1>8 DEF Inv, Structure

LEMMA WakeInv ==
  ASSUME Inv, NEW a \in Actor, Wake(a)
  PROVE  Inv'
<1> USE EpollAssumption DEF At, fileVars, epollVars, scanVars, Actor, Task
<1>t. TypeOK /\ Place(a) /\ Alone(a) /\ a \in Actor
  BY DEF Inv, Structure, Places
<1>e. /\ pc[a] = "Wake" /\ a \in Controller \cup File /\ file'[a] = file[a]
      /\ file[a] \in File
      /\ pc' \in [Actor -> Pc] /\ file' \in [Actor -> File \cup {NoFile}]
      /\ \A b \in Actor : b # a => pc'[b] = pc[b] /\ file'[b] = file[b]
      /\ a \in Controller => pc'[a] = "Done"
      /\ a \in File => \/ pc'[a] = "Idle"
                       \/ /\ pc'[a] = "DropFiles" /\ file[a] = a
                          /\ ~open[a] /\ a \in registered
                          /\ \A t \in Task : file[t] # a
      /\ event' = [t \in Waiter |-> event[t] \/ t \in queue]
      /\ UNCHANGED <<open, ready, owed, known, registered, entry, readyList, files,
                     lists, queue, call, rest, got, ok>>
  <2>1. pc[a] = "Wake" /\ Return(a)
    BY Zenon DEF Wake
  <2>2. a \in Controller \cup File =>
          file[a] \in File /\ (a \in File => file[a] = a)
    BY Zenon, <1>t, <2>1 DEF Place, TypeOK
  <2> QED
    BY Zenon, <1>t, <2>1, <2>2, ReturnEffect DEF Wake, Moves
<1>m. Moves(a)
  BY Zenon, <1>t, <1>e DEF Moves
<1>1. TypeOK'
  BY Zenon, <1>t, <1>e, <1>m DEF TypeOK, Moves
<1>2. Place(a)' /\ Alone(a)'
  BY ZenonT(40), <1>t, <1>e, <1>m DEF Place, Alone, TypeOK, Moves, WaitPc,
     UpdatePc, DelPc, DropPc, CtlPc, NotifyPc, WalkPc
<1>3. Places'
  BY Zenon, <1>t, <1>e, <1>m, <1>2, PlacesFrame DEF Place, TypeOK, Alive,
     LeavingAt, QueueFree, WaitPc, UpdatePc, DelPc, DropPc, CtlPc, NotifyPc,
     WalkPc
<1>4. OneCtl'
  BY Zenon, <1>t, <1>e, <1>m, OneCtlFrame
<1>5. /\ \A g \in File : g \in known \/ Leaving(g) => g \in known' \/ Leaving(g)'
      /\ RegisteredKnown'
  BY Zenon, <1>t, <1>e, <1>m, KnownFrame DEF TypeOK, LeavingAt, DropPc, DelPc
<1>6. ListedReady' /\ Walks'
  BY Zenon, <1>t, <1>e, <1>m, <1>5, ListFrame
<1>7. Sleepers' /\ SleeperNotified'
  <2>1. \A t \in Waiter : pc'[t] = "Block" => pc[t] = "Block"
    BY Zenon, <1>e
  <2>2. Sleepers'
    BY Zenon, <1>e, <2>1 DEF Inv, Sleepers
  <2>3. \A t \in Waiter : pc[t] = "Block" => event'[t]
    BY Zenon, <1>e DEF Inv, Sleepers
  <2> QED
    BY Zenon, <2>1, <2>2, <2>3 DEF SleeperNotified
<1>8. TakeKept' /\ EventKept'
  BY Zenon, <1>t, <1>e, <1>m, KeptQuiet DEF TypeOK, PendingAt, Alive, DropPc
<1> QED
  BY <1>1, <1>3, <1>4, <1>5, <1>6, <1>7, <1>8 DEF Inv,
     Structure

LEMMA DropFilesInv ==
  ASSUME Inv, NEW a \in Actor, DropFiles(a)
  PROVE  Inv'
<1> USE EpollAssumption DEF DropFiles, At, Goto, fileVars, epollVars, scanVars,
        Actor, Task
<1>t. TypeOK /\ Place(a) /\ Alone(a) /\ a \in Actor
  BY Zenon DEF Inv, Structure, Places, Actor, Task
<1>m. Moves(a)
  BY Zenon, <1>t DEF Moves, TypeOK, Pc
<1>1. TypeOK'
  BY Zenon, <1>t DEF TypeOK, Pc
<1>2. Place(a)' /\ Alone(a)'
  BY Zenon, <1>t DEF Place, Alone, TypeOK, WaitPc, UpdatePc, DelPc, DropPc,
     CtlPc, NotifyPc, WalkPc
<1>3. Places'
  BY Zenon, <1>t, <1>m, <1>2, PlacesFrame DEF Place, TypeOK, Alive,
     LeavingAt, QueueFree, WaitPc, UpdatePc, DelPc, DropPc, CtlPc, NotifyPc,
     WalkPc
<1>4. OneCtl'
  BY Zenon, <1>t, <1>m, OneCtlFrame DEF TypeOK
<1>5. /\ \A g \in File : g \in known \/ Leaving(g) => g \in known' \/ Leaving(g)'
      /\ RegisteredKnown'
  BY Zenon, <1>t, <1>m, KnownFrame DEF TypeOK, Place, LeavingAt, WaitPc,
     UpdatePc, DelPc, DropPc, CtlPc, NotifyPc, WalkPc
<1>6. ListedReady' /\ Walks'
  BY Zenon, <1>t, <1>m, <1>5, ListFrame DEF TypeOK, WalkPc
<1>7. Sleepers' /\ SleeperNotified'
  BY Zenon, <1>t, <1>m, SleepFrame DEF TypeOK
<1>8. TakeKept' /\ EventKept'
  BY Zenon, <1>t, <1>m, KeptQuiet DEF TypeOK, Place, PendingAt, Alive,
     WaitPc, UpdatePc, DelPc, DropPc, CtlPc, NotifyPc, WalkPc
<1> QED
  BY Zenon, <1>1, <1>3, <1>4, <1>5, <1>6, <1>7, <1>8 DEF Inv, Structure

LEMMA DropListsInv ==
  ASSUME Inv, NEW a \in Actor, DropLists(a)
  PROVE  Inv'
<1> USE EpollAssumption DEF At, fileVars, epollVars, scanVars, Actor, Task
<1>t. /\ TypeOK /\ Place(a) /\ Alone(a)
      /\ lists = Nobody /\ pc[a] \in {"DropLists", "DelLists"}
  BY Zenon DEF Inv, Structure, Places, DropLists
<1>e. /\ a \notin Waiter /\ file[a] \in File /\ a # Nobody
      /\ pc[a] = "DelLists" => a \in Controller
      /\ pc' \in [Actor -> Pc] /\ file' \in [Actor -> File \cup {NoFile}]
      /\ \A b \in Actor : b # a => pc'[b] = pc[b] /\ file'[b] = file[b]
      /\ entry' \in [File -> Entries]
      /\ \A g \in File : g # file[a] => entry'[g] = entry[g]
      /\ readyList' \in Seq(File) /\ IsInjective(readyList')
      /\ file[a] \notin Range(readyList')
      /\ \A g \in File : g # file[a] =>
           (g \in Range(readyList') <=> g \in Range(readyList))
      /\ readyList' # <<>> => readyList # <<>>
      /\ entry'[file[a]].state # "Ready"
      /\ pc'[a] = "Idle" /\ file'[a] = IF a = file[a] THEN a ELSE NoFile
      /\ registered' = registered \ {file[a]}
      /\ UNCHANGED <<open, ready, owed, known, files, lists, queue,
                     event, call, rest, got, ok>>
  <2>1. /\ a \notin Waiter /\ file[a] \in File /\ a # Nobody
        /\ pc[a] = "DelLists" => a \in Controller
    BY Zenon, <1>t DEF Place, TypeOK, WaitPc, DropPc, NotifyPc
  <2>2. /\ Unlist(file[a]) /\ registered' = registered \ {file[a]}
        /\ UNCHANGED <<open, ready, owed, known, files, lists, queue,
                       event, call, rest, got, ok>>
    BY Zenon DEF DropLists
  <2>3. /\ entry' \in [File -> Entries]
        /\ entry'[file[a]].state # "Ready"
        /\ \A g \in File : g # file[a] => entry'[g] = entry[g]
    BY Zenon, <1>t, <2>1 DEF DropLists, NewEntry, TypeOK, Entries
  <2>4. /\ pc' = [pc EXCEPT ![a] = "Idle"]
        /\ file' = [file EXCEPT ![a] = IF a = file[a] THEN file[a] ELSE NoFile]
        /\ pc \in [Actor -> Pc] /\ file \in [Actor -> File \cup {NoFile}]
        /\ "Idle" \in Pc
    BY Zenon, <1>t DEF DropLists, Goto, TypeOK, Pc
  <2>5. /\ pc' \in [Actor -> Pc] /\ file' \in [Actor -> File \cup {NoFile}]
        /\ \A b \in Actor : b # a => pc'[b] = pc[b] /\ file'[b] = file[b]
        /\ pc'[a] = "Idle" /\ file'[a] = IF a = file[a] THEN a ELSE NoFile
    BY Zenon, <2>1, <2>4
  <2>6. /\ readyList' \in Seq(File) /\ IsInjective(readyList')
        /\ file[a] \notin Range(readyList')
        /\ \A g \in File : g # file[a] =>
             (g \in Range(readyList') <=> g \in Range(readyList))
        /\ readyList' # <<>> => readyList # <<>>
    BY Zenon, <2>1, <2>2, UnlistEffect
  <2> QED
    BY Zenon, <2>1, <2>2, <2>3, <2>5, <2>6
<1>m. Moves(a)
  BY Zenon, <1>t, <1>e DEF Moves
<1>1. TypeOK'
  BY Zenon, <1>t, <1>e, <1>m DEF TypeOK, Moves, Entries
<1>2. Place(a)' /\ Alone(a)'
  BY <1>t, <1>e, <1>m DEF Place, Alone, TypeOK, Moves,
     WaitPc,
     UpdatePc, DelPc, DropPc, CtlPc, NotifyPc, WalkPc
<1>3. Places'
  <2>1. registered' = registered \/ QueueFree(file[a])
    <3>1. CASE pc[a] = "DropLists"
      BY Zenon, <1>t, <3>1 DEF Alone, QueueFree, DropPc
    <3>2. CASE pc[a] = "DelLists"
      <4>1. file[a] \notin registered
        BY Zenon, <1>t, <1>e, <3>2 DEF Place
      <4> QED
        BY <1>e, <4>1
    <3> QED
      BY Zenon, <1>t, <3>1, <3>2
  <2> QED
    BY Zenon, <1>t, <1>e, <1>m, <1>2, <2>1, PlacesFrame DEF TypeOK
<1>4. OneCtl'
  BY Zenon, <1>t, <1>e, <1>m, OneCtlFrame
<1>5. /\ \A g \in File : g # file[a] /\ (g \in known \/ Leaving(g)) =>
            g \in known' \/ Leaving(g)'
      /\ RegisteredKnown'
  <2>1. \A g \in File : g # file[a] /\ Leaving(g) => Leaving(g)'
    BY Zenon, <1>t, <1>e, <1>m, LeavingKept DEF LeavingAt
  <2>2. registered \subseteq File /\ \A g \in registered : g \in known \/ Leaving(g)
    BY Zenon DEF Inv, Structure, RegisteredKnown, TypeOK
  <2> QED
    BY Zenon, <1>e, <2>1, <2>2 DEF RegisteredKnown
<1>6. ListedReady' /\ Walks'
  <2>1. ListedReady'
    BY ZenonT(40), <1>t, <1>e, <1>5, ListedChange
  <2>2. Walks'
    BY Zenon, <1>t, <1>e, <1>m, NoWalk DEF Walks, Moves, WalkPc
  <2> QED
    BY <2>1, <2>2
<1>7. Sleepers' /\ SleeperNotified'
  BY Zenon, <1>t, <1>e, <1>m, SleepFrame
<1>8. TakeKept' /\ EventKept'
  <2>1. ASSUME NEW g \in registered', ready'[g], ~Coming(g)'
        PROVE  /\ g \in registered /\ ready[g] /\ (owed'[g] => owed[g])
               /\ open'[g] => open[g]
               /\ Waits(g)' =>
                    entry[g].state = "Waiting" /\ entry'[g].flags = entry[g].flags
               /\ a \in Task /\ file'[a] = g /\ pc'[a] \notin DropPc =>
                    Alive(g) \/ (file[a] = g /\ pc[a] \notin DropPc)
               /\ PendingAt(a, g) =>
                    \/ PendingAt(a, g)'
                    \/ ~Waits(g)' /\ (lists = Nobody \/ a \in Waiter)
    <3>1. g # file[a]
      BY Zenon, <1>t, <1>e, <2>1
    <3> QED
      BY <1>t, <1>e, <2>1, <3>1 DEF TypeOK, Waits, PendingAt
  <2>2. /\ registered' \subseteq File /\ pc'[a] # "Take"
        /\ \A w \in Waiter : w # a => ok'[w] = ok[w] /\ call'[w] = call[w]
    BY Zenon, <1>t, <1>1, <1>e DEF TypeOK
  <2> QED
    BY Zenon, <1>t, <1>m, <2>1, <2>2, KeptFrame
<1> QED
  BY Zenon, <1>1, <1>3, <1>4, <1>5, <1>6, <1>7, <1>8 DEF Inv, Structure

LEMMA StartCtlInv ==
  ASSUME Inv, NEW c \in Controller, NEW f \in File,
         NEW l \in {"Add", "Mod", "Del"}, StartCtl(c, f, l)
  PROVE  Inv'
<1> USE EpollAssumption DEF StartCtl, At, Goto, fileVars, epollVars, scanVars,
        Actor, Task
<1>t. TypeOK /\ Place(c) /\ Alone(c) /\ c \in Actor
  BY Zenon DEF Inv, Structure, Places, Actor, Task
<1>m. Moves(c)
  BY Zenon, <1>t DEF Moves, TypeOK, Pc
<1>1. TypeOK'
  BY Zenon, <1>t DEF TypeOK, Pc
<1>2. Place(c)' /\ Alone(c)'
  BY Zenon, <1>t DEF Place, Alone, TypeOK, WaitPc, UpdatePc, DelPc, DropPc,
     CtlPc, NotifyPc, WalkPc
<1>3. Places'
  BY Zenon, <1>t, <1>m, <1>2, PlacesFrame DEF Place, TypeOK, Alive,
     LeavingAt, QueueFree, WaitPc, UpdatePc, DelPc, DropPc, CtlPc, NotifyPc,
     WalkPc
<1>4. OneCtl'
  BY Zenon, <1>t, <1>m, OneCtlFrame DEF TypeOK
<1>5. /\ \A g \in File : g \in known \/ Leaving(g) => g \in known' \/ Leaving(g)'
      /\ RegisteredKnown'
  BY Zenon, <1>t, <1>m, KnownFrame DEF TypeOK, Place, LeavingAt, WaitPc,
     UpdatePc, DelPc, DropPc, CtlPc, NotifyPc, WalkPc
<1>6. ListedReady' /\ Walks'
  BY Zenon, <1>t, <1>m, <1>5, ListFrame DEF TypeOK, WalkPc
<1>7. Sleepers' /\ SleeperNotified'
  BY Zenon, <1>t, <1>m, SleepFrame DEF TypeOK
<1>8. TakeKept' /\ EventKept'
  BY Zenon, <1>t, <1>m, KeptQuiet DEF TypeOK, Place, PendingAt, Alive,
     WaitPc, UpdatePc, DelPc, DropPc, CtlPc, NotifyPc, WalkPc
<1> QED
  BY Zenon, <1>1, <1>3, <1>4, <1>5, <1>6, <1>7, <1>8 DEF Inv, Structure

LEMMA AddEntryInv ==
  ASSUME Inv, NEW c \in Controller, AddEntry(c)
  PROVE  Inv'
<1> USE EpollAssumption DEF At, fileVars, epollVars, scanVars, Actor, Task
<1>t. TypeOK /\ Place(c) /\ Alone(c) /\ c \in Actor
  BY Zenon DEF Inv, Structure, Places
<1>e. /\ pc[c] = "Add" /\ c \notin File /\ c \notin Waiter /\ c \notin Closer
      /\ file[c] \in File /\ files = Nobody
      /\ pc' \in [Actor -> Pc] /\ file' \in [Actor -> File \cup {NoFile}]
      /\ \A b \in Actor : b # c => pc'[b] = pc[b] /\ file'[b] = file[b]
      /\ entry' \in [File -> Entries]
      /\ \A g \in File : g # file[c] => entry'[g] = entry[g]
      /\ file'[c] = file[c]
      /\ \/ pc'[c] = "Done" /\ UNCHANGED <<known, entry, files>>
         \/ /\ file[c] \notin known /\ file[c] \notin registered
            /\ file[c] \notin Range(readyList) /\ entry'[file[c]].state # "Ready"
            /\ pc'[c] = "Register" /\ known' = known \cup {file[c]} /\ files' = c
      /\ UNCHANGED <<open, ready, owed, registered, readyList, lists, queue,
                     event, call, rest, got, ok>>
  <2>1. /\ pc[c] = "Add" /\ file[c] \in File /\ files = Nobody /\ file' = file
        /\ c \notin File /\ c \notin Waiter /\ c \notin Closer
        /\ UNCHANGED <<open, ready, owed, registered, readyList, lists, queue,
                       event, call, rest, got, ok>>
    BY Zenon, <1>t DEF AddEntry, Place, TypeOK
  <2>2. /\ pc \in [Actor -> Pc] /\ file \in [Actor -> File \cup {NoFile}]
        /\ {"Done", "Register"} \subseteq Pc
    BY Zenon, <1>t DEF TypeOK, Pc
  <2>3. CASE file[c] \in known
    <3>1. pc' = [pc EXCEPT ![c] = "Done"] /\ UNCHANGED <<known, entry, files>>
      BY Zenon, <2>3 DEF AddEntry, Goto
    <3> QED
      BY Zenon, <1>t, <2>1, <2>2, <3>1 DEF TypeOK, Entries
  <2>4. CASE file[c] \notin known
    <3>1. ~Leaving(file[c])
      <4> SUFFICES ASSUME NEW b \in Actor, file[b] = file[c], pc[b] \in DropPc \cup DelPc
                   PROVE  FALSE
        BY Zenon DEF Leaving, DropPc, DelPc
      <4>1. Place(b) /\ Alone(b) /\ OneCtl
        BY Zenon DEF Inv, Structure, Places
      <4>2. b # c
        BY Zenon, <2>1 DEF DropPc, DelPc
      <4>3. pc[b] \in DelPc => b \in Controller
        BY Zenon, <4>1 DEF Place, WaitPc, DropPc, NotifyPc, DelPc
      <4> QED
        BY Zenon, <2>1, <4>1, <4>2, <4>3 DEF Alone, OneCtl
    <3>2. file[c] \notin registered /\ file[c] \notin Range(readyList)
      BY Zenon, <2>4, <3>1 DEF Inv, Structure, RegisteredKnown, ListedReady
    <3>3. /\ pc' = [pc EXCEPT ![c] = "Register"] /\ files' = c
          /\ known' = known \cup {file[c]}
      BY Zenon, <2>4 DEF AddEntry, Goto
    <3>4. PICK x \in Flags : entry' = [entry EXCEPT ![file[c]] = NewEntry(x)]
      BY Zenon, <2>4 DEF AddEntry
    <3>5. /\ entry' \in [File -> Entries]
          /\ entry'[file[c]].state # "Ready"
          /\ \A g \in File : g # file[c] => entry'[g] = entry[g]
      BY Zenon, <1>t, <2>1, <3>4 DEF NewEntry, TypeOK, Entries
    <3> QED
      BY Zenon, <1>t, <2>1, <2>2, <2>4, <3>2, <3>3, <3>5
  <2> QED
    BY Zenon, <2>3, <2>4
<1>m. Moves(c)
  BY Zenon, <1>t, <1>e DEF Moves
<1>1. TypeOK'
  BY <1>t, <1>e, <1>m DEF TypeOK, Moves, Entries
<1>2. Place(c)' /\ Alone(c)'
  BY Zenon, <1>t, <1>e, <1>m DEF Place, Alone, TypeOK, Moves, WaitPc,
     UpdatePc, DelPc, DropPc, CtlPc, NotifyPc, WalkPc
<1>3. Places'
  BY Zenon, <1>t, <1>e, <1>m, <1>2, PlacesFrame DEF Place, TypeOK, Alive,
     LeavingAt, QueueFree, WaitPc, UpdatePc, DelPc, DropPc, CtlPc, NotifyPc,
     WalkPc
<1>4. OneCtl'
  BY Zenon, <1>t, <1>e, <1>m, OneCtlFrame
<1>5. /\ \A g \in File : g \in known \/ Leaving(g) => g \in known' \/ Leaving(g)'
      /\ RegisteredKnown'
  BY Zenon, <1>t, <1>e, <1>m, KnownFrame DEF TypeOK, LeavingAt, DropPc, DelPc
<1>6. ListedReady' /\ Walks'
  <2>1. ListedReady'
    <3>1. readyList' \in Seq(File) /\ IsInjective(readyList')
          /\ (file[c] \in Range(readyList) => file[c] \in known \/ Leaving(file[c]))
          /\ (file[c] \in Range(readyList) <=> entry[file[c]].state = "Ready")
      BY Zenon, <1>t, <1>e DEF Inv, Structure, ListedReady, TypeOK
    <3> QED
      BY ZenonT(40), <1>t, <1>e, <1>5, <3>1, ListedChange
  <2>2. Walks'
    BY Zenon, <1>t, <1>e, <1>m, WalksFrame
  <2> QED
    BY Zenon, <2>1, <2>2
<1>7. Sleepers' /\ SleeperNotified'
  BY Zenon, <1>t, <1>e, <1>m, SleepFrame
<1>8. TakeKept' /\ EventKept'
  <2>1. ASSUME NEW g \in registered', ready'[g], ~Coming(g)'
        PROVE  /\ g \in registered /\ ready[g] /\ (owed'[g] => owed[g])
               /\ open'[g] => open[g]
               /\ Waits(g)' =>
                    entry[g].state = "Waiting" /\ entry'[g].flags = entry[g].flags
               /\ c \in Task /\ file'[c] = g /\ pc'[c] \notin DropPc =>
                    Alive(g) \/ (file[c] = g /\ pc[c] \notin DropPc)
               /\ PendingAt(c, g) =>
                    \/ PendingAt(c, g)'
                    \/ ~Waits(g)' /\ (lists = Nobody \/ c \in Waiter)
    <3>1. entry'[g] = entry[g]
      BY <1>t, <1>e, <2>1 DEF TypeOK
    <3> QED
      BY Zenon, <1>t, <1>e, <2>1, <3>1 DEF TypeOK, Waits, PendingAt, DropPc
  <2> QED
    BY Zenon, <1>t, <1>m, <1>1, <2>1, KeptFrame, <1>e DEF TypeOK
<1> QED
  BY Zenon, <1>1, <1>3, <1>4, <1>5, <1>6, <1>7, <1>8 DEF Inv, Structure

LEMMA UpdateEntryInv ==
  ASSUME Inv, NEW c \in Controller, UpdateEntry(c)
  PROVE  Inv'
<1> USE EpollAssumption DEF UpdateEntry, At, Goto, fileVars, epollVars,
        scanVars,
        Actor, Task
<1>t. TypeOK /\ Place(c) /\ Alone(c) /\ c \in Actor
  BY Zenon DEF Inv, Structure, Places, Actor, Task
<1>m. Moves(c)
  <2>1. \E l \in {"Done", "Unregister"} : pc' = [pc EXCEPT ![c] = l]
    BY Zenon, <1>t DEF TypeOK
  <2> QED
    BY <1>t, <2>1 DEF Moves, TypeOK, Pc
<1>1. TypeOK'
  <2>1. files' \in {files, c} /\ pc' \in [Actor -> Pc]
    BY Zenon, <1>m DEF Moves
  <2> QED
    BY ZenonT(40), <1>t, <2>1 DEF TypeOK
<1>2. Place(c)' /\ Alone(c)'
  BY <1>t DEF Place, Alone, TypeOK, WaitPc, UpdatePc, DelPc,
     DropPc, CtlPc, NotifyPc, WalkPc
<1>3. Places'
  BY Zenon, <1>t, <1>m, <1>2, PlacesFrame DEF Place, TypeOK, Alive,
     LeavingAt, QueueFree, WaitPc, UpdatePc, DelPc, DropPc, CtlPc, NotifyPc,
     WalkPc
<1>4. OneCtl'
  BY Zenon, <1>t, <1>m, OneCtlFrame DEF TypeOK
<1>5. /\ \A g \in File : g \in known \/ Leaving(g) => g \in known' \/ Leaving(g)'
      /\ RegisteredKnown'
  BY Zenon, <1>t, <1>m, KnownFrame DEF TypeOK, Place, LeavingAt, WaitPc,
     UpdatePc, DelPc, DropPc, CtlPc, NotifyPc, WalkPc
<1>6. ListedReady' /\ Walks'
  BY Zenon, <1>t, <1>m, <1>5, ListFrame DEF TypeOK, WalkPc
<1>7. Sleepers' /\ SleeperNotified'
  BY Zenon, <1>t, <1>m, SleepFrame DEF TypeOK
<1>8. TakeKept' /\ EventKept'
  BY Zenon, <1>t, <1>m, KeptQuiet DEF TypeOK, Place, PendingAt, Alive,
     WaitPc, UpdatePc, DelPc, DropPc, CtlPc, NotifyPc, WalkPc
<1> QED
  BY Zenon, <1>1, <1>3, <1>4, <1>5, <1>6, <1>7, <1>8 DEF Inv, Structure

LEMMA RemoveKnownInv ==
  ASSUME Inv, NEW c \in Controller, RemoveKnown(c)
  PROVE  Inv'
<1> USE EpollAssumption DEF RemoveKnown, At, Goto, fileVars, epollVars,
        scanVars,
        Actor, Task
<1>t. TypeOK /\ Place(c) /\ Alone(c) /\ c \in Actor
  BY Zenon DEF Inv, Structure, Places, Actor, Task
<1>m. Moves(c)
  BY Zenon, <1>t DEF Moves, TypeOK, Pc
<1>1. TypeOK'
  BY Zenon, <1>t DEF TypeOK, Pc
<1>2. Place(c)' /\ Alone(c)'
  BY Zenon, <1>t DEF Place, Alone, TypeOK, WaitPc, UpdatePc, DelPc, DropPc,
     CtlPc, NotifyPc, WalkPc
<1>3. Places'
  BY Zenon, <1>t, <1>m, <1>2, PlacesFrame DEF Place, TypeOK, Alive,
     LeavingAt, QueueFree, WaitPc, UpdatePc, DelPc, DropPc, CtlPc, NotifyPc,
     WalkPc
<1>4. OneCtl'
  BY Zenon, <1>t, <1>m, OneCtlFrame DEF TypeOK
<1>5. /\ \A g \in File : g \in known \/ Leaving(g) => g \in known' \/ Leaving(g)'
      /\ RegisteredKnown'
  <2>1. \A g \in File : g \in known => g \in known' \/ LeavingAt(c, g)'
    BY <1>t DEF TypeOK, LeavingAt, DelPc
  <2>2. \A g \in File : ~LeavingAt(c, g)
    BY Zenon, <1>t DEF LeavingAt, DropPc, DelPc
  <2>3. registered' \subseteq registered /\ registered \subseteq File
    BY Zenon, <1>t DEF TypeOK
  <2> QED
    BY Zenon, <1>t, <1>m, <2>1, <2>2, <2>3, KnownFrame
<1>6. ListedReady' /\ Walks'
  BY Zenon, <1>t, <1>m, <1>5, ListFrame DEF TypeOK, WalkPc
<1>7. Sleepers' /\ SleeperNotified'
  BY Zenon, <1>t, <1>m, SleepFrame DEF TypeOK
<1>8. TakeKept' /\ EventKept'
  BY Zenon, <1>t, <1>m, KeptQuiet DEF TypeOK, Place, PendingAt, Alive,
     WaitPc, UpdatePc, DelPc, DropPc, CtlPc, NotifyPc, WalkPc
<1> QED
  BY Zenon, <1>1, <1>3, <1>4, <1>5, <1>6, <1>7, <1>8 DEF Inv, Structure

LEMMA EventUnregisterInv ==
  ASSUME Inv, NEW c \in Controller, EventUnregister(c)
  PROVE  Inv'
<1> USE EpollAssumption DEF EventUnregister, QueueFree, At, Goto, fileVars,
        epollVars, scanVars,
        Actor, Task
<1>t. TypeOK /\ Place(c) /\ Alone(c) /\ c \in Actor
  BY Zenon DEF Inv, Structure, Places, Actor, Task
<1>m. Moves(c)
  BY Zenon, <1>t DEF Moves, TypeOK, Pc
<1>1. TypeOK'
  BY Zenon, <1>t DEF TypeOK, Pc
<1>2. Place(c)' /\ Alone(c)'
  BY Zenon, <1>t DEF Place, Alone, TypeOK, WaitPc, UpdatePc, DelPc, DropPc,
     CtlPc, NotifyPc, WalkPc
<1>3. Places'
  BY Zenon, <1>t, <1>m, <1>2, PlacesFrame DEF Place, TypeOK, Alive,
     LeavingAt, QueueFree, WaitPc, UpdatePc, DelPc, DropPc, CtlPc, NotifyPc,
     WalkPc
<1>4. OneCtl'
  BY Zenon, <1>t, <1>m, OneCtlFrame DEF TypeOK
<1>5. /\ \A g \in File : g \in known \/ Leaving(g) => g \in known' \/ Leaving(g)'
      /\ RegisteredKnown'
  BY Zenon, <1>t, <1>m, KnownFrame DEF TypeOK, Place, LeavingAt, WaitPc,
     UpdatePc, DelPc, DropPc, CtlPc, NotifyPc, WalkPc
<1>6. ListedReady' /\ Walks'
  BY Zenon, <1>t, <1>m, <1>5, ListFrame DEF TypeOK, WalkPc
<1>7. Sleepers' /\ SleeperNotified'
  BY Zenon, <1>t, <1>m, SleepFrame DEF TypeOK
<1>8. TakeKept' /\ EventKept'
  BY ZenonT(40), <1>t, <1>m, KeptQuiet DEF TypeOK, Place, PendingAt, Alive,
     WaitPc, UpdatePc, DelPc, DropPc, CtlPc, NotifyPc, WalkPc
<1> QED
  BY Zenon, <1>1, <1>3, <1>4, <1>5, <1>6, <1>7, <1>8 DEF Inv, Structure

LEMMA UpdateInv ==
  ASSUME Inv, NEW c \in Controller, Update(c)
  PROVE  Inv'
<1> USE EpollAssumption DEF At, fileVars, epollVars, scanVars, Actor, Task
<1>t. TypeOK /\ Place(c) /\ Alone(c) /\ c \in Actor
  BY DEF Inv, Structure, Places
<1>e. /\ pc[c] = "Update" /\ c \notin File /\ c \notin Waiter /\ c \notin Closer
      /\ file[c] \in File /\ file[c] \notin registered /\ file[c] \in known
      /\ files = c
      /\ lists = Nobody
      /\ pc' \in [Actor -> Pc] /\ file' \in [Actor -> File \cup {NoFile}]
      /\ \A b \in Actor : b # c => pc'[b] = pc[b] /\ file'[b] = file[b]
      /\ entry' \in [File -> Entries]
      /\ \A g \in File : g # file[c] => entry'[g] = entry[g]
      /\ readyList' \in Seq(File) /\ IsInjective(readyList')
      /\ file[c] \notin Range(readyList')
      /\ \A g \in File : g # file[c] =>
           (g \in Range(readyList') <=> g \in Range(readyList))
      /\ readyList' # <<>> => readyList # <<>>
      /\ entry'[file[c]].state # "Ready"
      /\ pc'[c] = "Register" /\ file'[c] = file[c]
      /\ UNCHANGED <<open, ready, owed, known, registered, files, lists, queue,
                     event, call, rest, got, ok>>
  <2>1. /\ pc[c] = "Update" /\ file[c] \in File /\ file[c] \notin registered
        /\ file[c] \in known /\ files = c
        /\ c \notin File /\ c \notin Waiter /\ c \notin Closer
    BY Zenon, <1>t DEF Update, Place, TypeOK, UpdatePc
  <2>2. Unlist(file[c]) /\ lists = Nobody
        /\ UNCHANGED <<open, ready, owed, known, registered, files, lists, queue,
                       event, call, rest, got, ok>>
    BY Zenon DEF Update
  <2>3. /\ entry' \in [File -> Entries]
        /\ entry'[file[c]].state # "Ready"
        /\ \A g \in File : g # file[c] => entry'[g] = entry[g]
    BY <1>t, <2>1 DEF Update, NewEntry, TypeOK, Entries
  <2>4. /\ pc' = [pc EXCEPT ![c] = "Register"] /\ file' = file
        /\ pc \in [Actor -> Pc] /\ file \in [Actor -> File \cup {NoFile}]
        /\ "Register" \in Pc
    BY Zenon, <1>t DEF Update, Goto, TypeOK, Pc
  <2>5. /\ pc' \in [Actor -> Pc] /\ file' \in [Actor -> File \cup {NoFile}]
        /\ \A b \in Actor : b # c => pc'[b] = pc[b] /\ file'[b] = file[b]
        /\ pc'[c] = "Register" /\ file'[c] = file[c]
    BY Zenon, <1>t, <2>4
  <2>6. /\ readyList' \in Seq(File) /\ IsInjective(readyList')
        /\ file[c] \notin Range(readyList')
        /\ \A g \in File : g # file[c] =>
             (g \in Range(readyList') <=> g \in Range(readyList))
        /\ readyList' # <<>> => readyList # <<>>
    BY Zenon, <2>1, <2>2, UnlistEffect
  <2> QED
    BY Zenon, <2>1, <2>2, <2>3, <2>5, <2>6
<1>m. Moves(c)
  BY Zenon, <1>t, <1>e DEF Moves
<1>1. TypeOK'
  BY Zenon, <1>t, <1>e, <1>m DEF TypeOK, Moves, Entries
<1>2. Place(c)' /\ Alone(c)'
  BY Zenon, <1>t, <1>e, <1>m DEF Place, Alone, TypeOK, Moves, WaitPc,
     UpdatePc, DelPc, DropPc, CtlPc, NotifyPc, WalkPc
<1>3. Places'
  BY Zenon, <1>t, <1>e, <1>m, <1>2, PlacesFrame DEF Place, TypeOK, Alive,
     LeavingAt, QueueFree, WaitPc, UpdatePc, DelPc, DropPc, CtlPc, NotifyPc,
     WalkPc
<1>4. OneCtl'
  BY Zenon, <1>t, <1>e, <1>m, OneCtlFrame
<1>5. /\ \A g \in File : g \in known \/ Leaving(g) => g \in known' \/ Leaving(g)'
      /\ RegisteredKnown'
  BY Zenon, <1>t, <1>e, <1>m, KnownFrame DEF TypeOK, LeavingAt, DropPc, DelPc
<1>6. ListedReady' /\ Walks'
  <2>1. ListedReady'
    BY ZenonT(40), <1>t, <1>e, <1>5, ListedChange
  <2>2. Walks'
    BY Zenon, <1>t, <1>e, <1>m, NoWalk DEF Walks, Moves, WalkPc
  <2> QED
    BY <2>1, <2>2
<1>7. Sleepers' /\ SleeperNotified'
  BY Zenon, <1>t, <1>e, <1>m, SleepFrame
<1>8. TakeKept' /\ EventKept'
  <2>1. ASSUME NEW g \in registered', ready'[g], ~Coming(g)'
        PROVE  /\ g \in registered /\ ready[g] /\ (owed'[g] => owed[g])
               /\ open'[g] => open[g]
               /\ Waits(g)' =>
                    entry[g].state = "Waiting" /\ entry'[g].flags = entry[g].flags
               /\ c \in Task /\ file'[c] = g /\ pc'[c] \notin DropPc =>
                    Alive(g) \/ (file[c] = g /\ pc[c] \notin DropPc)
               /\ PendingAt(c, g) =>
                    \/ PendingAt(c, g)'
                    \/ ~Waits(g)' /\ (lists = Nobody \/ c \in Waiter)
    <3>1. g # file[c]
      BY ZenonT(40), <1>t, <1>e, <2>1
    <3> QED
      BY Zenon, <1>t, <1>e, <2>1, <3>1 DEF TypeOK, Waits, PendingAt
  <2> QED
    BY Zenon, <1>t, <1>m, <1>1, <2>1, KeptFrame, <1>e DEF TypeOK
<1> QED
  BY <1>1, <1>3, <1>4, <1>5, <1>6, <1>7, <1>8 DEF Inv,
     Structure

LEMMA DelUnlistInv ==
  ASSUME Inv, NEW c \in Controller, DelUnlist(c)
  PROVE  Inv'
<1> USE EpollAssumption DEF At, fileVars, epollVars, scanVars, Actor, Task
<1>t. TypeOK /\ Place(c) /\ Alone(c) /\ c \in Actor
  BY DEF Inv, Structure, Places
<1>e. /\ pc[c] = "DelUnlist" /\ c \notin File /\ c \notin Waiter /\ c \notin Closer
      /\ file[c] \in File /\ file[c] \notin registered
      /\ lists = Nobody
      /\ pc' \in [Actor -> Pc] /\ file' \in [Actor -> File \cup {NoFile}]
      /\ \A b \in Actor : b # c => pc'[b] = pc[b] /\ file'[b] = file[b]
      /\ entry' \in [File -> Entries]
      /\ \A g \in File : g # file[c] => entry'[g] = entry[g]
      /\ readyList' \in Seq(File) /\ IsInjective(readyList')
      /\ file[c] \notin Range(readyList')
      /\ \A g \in File : g # file[c] =>
           (g \in Range(readyList') <=> g \in Range(readyList))
      /\ readyList' # <<>> => readyList # <<>>
      /\ entry'[file[c]].state # "Ready"
      /\ pc'[c] = "DelFiles" /\ file'[c] = file[c]
      /\ UNCHANGED <<open, ready, owed, known, registered, files, lists, queue,
                     event, call, rest, got, ok>>
  <2>1. /\ pc[c] = "DelUnlist" /\ file[c] \in File /\ file[c] \notin registered
        /\ c \notin File /\ c \notin Waiter /\ c \notin Closer
    BY Zenon, <1>t DEF DelUnlist, Place, TypeOK, UpdatePc
  <2>2. Unlist(file[c]) /\ lists = Nobody
        /\ UNCHANGED <<open, ready, owed, known, registered, files, lists, queue,
                       event, call, rest, got, ok>>
    BY Zenon DEF DelUnlist
  <2>3. /\ entry' \in [File -> Entries]
        /\ entry'[file[c]].state # "Ready"
        /\ \A g \in File : g # file[c] => entry'[g] = entry[g]
    <3>1. CASE entry[file[c]].state = "Ready"
      <4>1. entry' = [entry EXCEPT ![file[c]].state = "Waiting"]
        BY Zenon, <3>1 DEF DelUnlist
      <4> QED
        BY Zenon, <1>t, <2>1, <4>1, EntryState
    <3>2. CASE entry[file[c]].state # "Ready"
      <4>1. entry' = entry
        BY Zenon, <3>2 DEF DelUnlist
      <4> QED
        BY Zenon, <1>t, <3>2, <4>1 DEF TypeOK, Entries
    <3> QED
      BY Zenon, <3>1, <3>2
  <2>4. /\ pc' = [pc EXCEPT ![c] = "DelFiles"] /\ file' = file
        /\ pc \in [Actor -> Pc] /\ file \in [Actor -> File \cup {NoFile}]
        /\ "DelFiles" \in Pc
    BY Zenon, <1>t DEF DelUnlist, Goto, TypeOK, Pc
  <2>5. /\ pc' \in [Actor -> Pc] /\ file' \in [Actor -> File \cup {NoFile}]
        /\ \A b \in Actor : b # c => pc'[b] = pc[b] /\ file'[b] = file[b]
        /\ pc'[c] = "DelFiles" /\ file'[c] = file[c]
    BY Zenon, <1>t, <2>4
  <2>6. /\ readyList' \in Seq(File) /\ IsInjective(readyList')
        /\ file[c] \notin Range(readyList')
        /\ \A g \in File : g # file[c] =>
             (g \in Range(readyList') <=> g \in Range(readyList))
        /\ readyList' # <<>> => readyList # <<>>
    BY Zenon, <2>1, <2>2, UnlistEffect
  <2> QED
    BY Zenon, <2>1, <2>2, <2>3, <2>5, <2>6
<1>m. Moves(c)
  BY Zenon, <1>t, <1>e DEF Moves
<1>1. TypeOK'
  BY Zenon, <1>t, <1>e, <1>m DEF TypeOK, Moves, Entries
<1>2. Place(c)' /\ Alone(c)'
  BY Zenon, <1>t, <1>e, <1>m DEF Place, Alone, TypeOK, Moves, WaitPc,
     UpdatePc, DelPc, DropPc, CtlPc, NotifyPc, WalkPc
<1>3. Places'
  BY Zenon, <1>t, <1>e, <1>m, <1>2, PlacesFrame DEF Place, TypeOK, Alive,
     LeavingAt, QueueFree, WaitPc, UpdatePc, DelPc, DropPc, CtlPc, NotifyPc,
     WalkPc
<1>4. OneCtl'
  BY Zenon, <1>t, <1>e, <1>m, OneCtlFrame
<1>5. /\ \A g \in File : g \in known \/ Leaving(g) => g \in known' \/ Leaving(g)'
      /\ RegisteredKnown'
  BY Zenon, <1>t, <1>e, <1>m, KnownFrame DEF TypeOK, LeavingAt, DropPc, DelPc
<1>6. ListedReady' /\ Walks'
  <2>1. ListedReady'
    BY ZenonT(40), <1>t, <1>e, <1>5, ListedChange
  <2>2. Walks'
    BY Zenon, <1>t, <1>e, <1>m, NoWalk DEF Walks, Moves, WalkPc
  <2> QED
    BY <2>1, <2>2
<1>7. Sleepers' /\ SleeperNotified'
  BY Zenon, <1>t, <1>e, <1>m, SleepFrame
<1>8. TakeKept' /\ EventKept'
  <2>1. ASSUME NEW g \in registered', ready'[g], ~Coming(g)'
        PROVE  /\ g \in registered /\ ready[g] /\ (owed'[g] => owed[g])
               /\ open'[g] => open[g]
               /\ Waits(g)' =>
                    entry[g].state = "Waiting" /\ entry'[g].flags = entry[g].flags
               /\ c \in Task /\ file'[c] = g /\ pc'[c] \notin DropPc =>
                    Alive(g) \/ (file[c] = g /\ pc[c] \notin DropPc)
               /\ PendingAt(c, g) =>
                    \/ PendingAt(c, g)'
                    \/ ~Waits(g)' /\ (lists = Nobody \/ c \in Waiter)
    <3>1. g # file[c]
      BY ZenonT(40), <1>t, <1>e, <2>1
    <3> QED
      BY Zenon, <1>t, <1>e, <2>1, <3>1 DEF TypeOK, Waits, PendingAt
  <2> QED
    BY Zenon, <1>t, <1>m, <1>1, <2>1, KeptFrame, <1>e DEF TypeOK
<1> QED
  BY <1>1, <1>3, <1>4, <1>5, <1>6, <1>7, <1>8 DEF Inv,
     Structure

LEMMA EventRegisterInv ==
  ASSUME Inv, NEW c \in Controller, EventRegister(c)
  PROVE  Inv'
<1> USE EpollAssumption DEF EventRegister, QueueFree, At, Goto, fileVars,
        epollVars, scanVars,
        Actor, Task
<1>t. /\ TypeOK /\ Place(c) /\ Alone(c) /\ c \in Actor
      /\ file[c] \in File /\ file[c] \in known
  <2>1. TypeOK /\ Place(c) /\ Alone(c) /\ c \in Actor
    BY Zenon DEF Inv, Structure, Places
  <2> QED
    BY Zenon, <2>1 DEF TypeOK, Place, UpdatePc
<1>m. Moves(c)
  BY Zenon, <1>t DEF Moves, TypeOK, Pc
<1>1. TypeOK'
  <2>1. registered' \subseteq File /\ pc' \in [Actor -> Pc]
    BY ZenonT(30), <1>t, <1>m DEF TypeOK, Moves
  <2> QED
    BY Zenon, <1>t, <2>1 DEF TypeOK
<1>2. Place(c)' /\ Alone(c)'
  BY Zenon, <1>t DEF Place, Alone, TypeOK, WaitPc, UpdatePc, DelPc, DropPc,
     CtlPc, NotifyPc, WalkPc
<1>3. Places'
  BY Zenon, <1>t, <1>m, <1>2, PlacesFrame DEF Place, TypeOK, Alive,
     LeavingAt, QueueFree, WaitPc, UpdatePc, DelPc, DropPc, CtlPc, NotifyPc,
     WalkPc
<1>4. OneCtl'
  BY Zenon, <1>t, <1>m, OneCtlFrame DEF TypeOK
<1>5. /\ \A g \in File : g \in known \/ Leaving(g) => g \in known' \/ Leaving(g)'
      /\ RegisteredKnown'
  <2>1. known' = known /\ \A g \in File : ~LeavingAt(c, g)
    BY Zenon, <1>t DEF LeavingAt, DropPc, DelPc
  <2>2. registered' \subseteq registered \cup known' /\ registered' \subseteq File
    BY Zenon, <1>t DEF TypeOK
  <2> QED
    BY Zenon, <1>t, <1>m, <2>1, <2>2, KnownFrame
<1>6. ListedReady' /\ Walks'
  BY Zenon, <1>t, <1>m, <1>5, ListFrame DEF TypeOK, WalkPc
<1>7. Sleepers' /\ SleeperNotified'
  BY Zenon, <1>t, <1>m, SleepFrame DEF TypeOK
<1>8. TakeKept' /\ EventKept'
  <2>1. ASSUME NEW g \in registered', ready'[g], ~Coming(g)'
        PROVE  /\ g \in registered /\ ready[g] /\ (owed'[g] => owed[g])
               /\ open'[g] => open[g]
               /\ Waits(g)' =>
                    entry[g].state = "Waiting" /\ entry'[g].flags = entry[g].flags
               /\ c \in Task /\ file'[c] = g /\ pc'[c] \notin DropPc =>
                    Alive(g) \/ (file[c] = g /\ pc[c] \notin DropPc)
               /\ PendingAt(c, g) =>
                    \/ PendingAt(c, g)'
                    \/ ~Waits(g)' /\ (lists = Nobody \/ c \in Waiter)
    <3>1. g # file[c]
      BY Zenon, <1>t, <2>1 DEF Coming, TypeOK
    <3> QED
      BY Zenon, <1>t, <2>1, <3>1 DEF TypeOK, Waits, PendingAt, Coming
  <2> QED
    BY Zenon, <1>t, <1>m, <1>1, <2>1, KeptFrame DEF TypeOK
<1> QED
  BY Zenon, <1>1, <1>3, <1>4, <1>5, <1>6, <1>7, <1>8 DEF Inv, Structure

LEMMA ReadinessInv ==
  ASSUME Inv, NEW c \in Controller, Readiness(c)
  PROVE  Inv'
<1> USE EpollAssumption DEF Readiness, At, Goto, fileVars, epollVars, scanVars,
        Actor, Task
<1>t. TypeOK /\ Place(c) /\ Alone(c) /\ c \in Actor
  BY Zenon DEF Inv, Structure, Places, Actor, Task
<1>m. Moves(c)
  BY Zenon, <1>t DEF Moves, TypeOK, Pc
<1>1. TypeOK'
  BY Zenon, <1>t DEF TypeOK, Pc
<1>2. Place(c)' /\ Alone(c)'
  BY Zenon, <1>t DEF Place, Alone, TypeOK, WaitPc, UpdatePc, DelPc, DropPc,
     CtlPc, NotifyPc, WalkPc
<1>3. Places'
  BY Zenon, <1>t, <1>m, <1>2, PlacesFrame DEF Place, TypeOK, Alive,
     LeavingAt, QueueFree, WaitPc, UpdatePc, DelPc, DropPc, CtlPc, NotifyPc,
     WalkPc
<1>4. OneCtl'
  BY Zenon, <1>t, <1>m, OneCtlFrame DEF TypeOK
<1>5. /\ \A g \in File : g \in known \/ Leaving(g) => g \in known' \/ Leaving(g)'
      /\ RegisteredKnown'
  BY Zenon, <1>t, <1>m, KnownFrame DEF TypeOK, Place, LeavingAt, WaitPc,
     UpdatePc, DelPc, DropPc, CtlPc, NotifyPc, WalkPc
<1>6. ListedReady' /\ Walks'
  BY Zenon, <1>t, <1>m, <1>5, ListFrame DEF TypeOK, WalkPc
<1>7. Sleepers' /\ SleeperNotified'
  BY Zenon, <1>t, <1>m, SleepFrame DEF TypeOK
<1>8. TakeKept' /\ EventKept'
  <2>1. /\ file' = file /\ pc[c] = "Readiness"
        /\ ready[file[c]] => pc'[c] = "CallBack"
    BY Zenon, <1>t DEF TypeOK
  <2>2. \A f \in File : ready[f] /\ PendingAt(c, f) => PendingAt(c, f)'
    BY ZenonT(40), <2>1 DEF PendingAt
  <2> QED
    BY Zenon, <1>t, <1>m, <2>1, <2>2, KeptQuiet DEF TypeOK, DropPc
<1> QED
  BY Zenon, <1>1, <1>3, <1>4, <1>5, <1>6, <1>7, <1>8 DEF Inv, Structure

LEMMA DoneInv ==
  ASSUME Inv, NEW c \in Controller, Done(c)
  PROVE  Inv'
<1> USE EpollAssumption DEF At, fileVars, epollVars, scanVars, Actor, Task
<1>t. TypeOK /\ Place(c) /\ Alone(c) /\ c \in Actor
  BY Zenon DEF Inv, Structure, Places
<1>e. /\ pc[c] = "Done" /\ c \notin File /\ c \notin Waiter /\ c \notin Closer
      /\ file[c] \in File
      /\ pc' \in [Actor -> Pc] /\ file' \in [Actor -> File \cup {NoFile}]
      /\ \A b \in Actor : b # c => pc'[b] = pc[b] /\ file'[b] = file[b]
      /\ \/ pc'[c] = "Idle" /\ file'[c] = NoFile
         \/ /\ pc'[c] = "DropFiles" /\ file'[c] = file[c] /\ file[c] \in registered
            /\ ~open[file[c]] /\ pc[file[c]] = "Idle"
            /\ \A t \in Task : t # c => file[t] # file[c]
      /\ files' = files \/ (files = c /\ files' = Nobody)
      /\ UNCHANGED <<open, ready, owed, known, registered, entry, readyList,
                     lists, queue, event, call, rest, got, ok>>
  <2>0. pc[c] = "Done" /\ file[c] \in File /\ "Idle" \in Pc /\ c \notin File
    BY Zenon, <1>t DEF Done, Place, TypeOK, Pc
  <2>1. LetGo(c, file[c], "Idle")
    BY Zenon DEF Done
  <2>2. /\ Moves(c)
        /\ \/ pc'[c] = "Idle" /\ file'[c] = IF c = file[c] THEN c ELSE NoFile
           \/ /\ pc'[c] = "DropFiles" /\ file'[c] = file[c]
              /\ ~open[file[c]] /\ file[c] \in registered
              /\ \A t \in Task : t # c => file[t] # file[c]
              /\ c = file[c] \/ pc[file[c]] = "Idle"
    BY Zenon, <1>t, <2>0, <2>1, LetGoEffect
  <2>3. c # file[c] /\ c \notin Waiter /\ c \notin Closer
    BY Zenon, <2>0
  <2>4. /\ files' = IF files = c THEN Nobody ELSE files
        /\ UNCHANGED <<fileVars, known, registered, entry, readyList, lists,
                       queue, event, scanVars>>
    BY Zenon DEF Done
  <2>5. /\ files' = files \/ (files = c /\ files' = Nobody)
        /\ UNCHANGED <<open, ready, owed, known, registered, entry, readyList,
                       lists, queue, event, call, rest, got, ok>>
    BY Zenon, <2>4
  <2> QED
    BY ZenonT(30), <2>0, <2>2, <2>3, <2>5 DEF Moves
<1>m. Moves(c)
  BY Zenon, <1>t, <1>e DEF Moves
<1>1. TypeOK'
  BY <1>t, <1>e, <1>m DEF TypeOK, Moves
<1>2. Place(c)' /\ Alone(c)'
  BY Zenon, <1>t, <1>e, <1>m DEF Place, Alone, TypeOK, Moves, WaitPc,
     UpdatePc, DelPc, DropPc, CtlPc, NotifyPc, WalkPc
<1>3. Places'
  BY Zenon, <1>t, <1>e, <1>m, <1>2, PlacesFrame DEF Place, TypeOK, Alive,
     LeavingAt, QueueFree, WaitPc, UpdatePc, DelPc, DropPc, CtlPc, NotifyPc,
     WalkPc
<1>4. OneCtl'
  BY Zenon, <1>t, <1>e, <1>m, OneCtlFrame
<1>5. /\ \A g \in File : g \in known \/ Leaving(g) => g \in known' \/ Leaving(g)'
      /\ RegisteredKnown'
  BY Zenon, <1>t, <1>e, <1>m, KnownFrame DEF TypeOK, LeavingAt, DropPc, DelPc
<1>6. ListedReady' /\ Walks'
  BY Zenon, <1>t, <1>e, <1>m, <1>5, ListFrame
<1>7. Sleepers' /\ SleeperNotified'
  BY Zenon, <1>t, <1>e, <1>m, SleepFrame
<1>8. TakeKept' /\ EventKept'
  BY Zenon, <1>t, <1>e, <1>m, KeptQuiet DEF TypeOK, PendingAt, Alive, DropPc
<1> QED
  BY Zenon, <1>1, <1>3, <1>4, <1>5, <1>6, <1>7, <1>8 DEF Inv, Structure

LEMMA StartWaitInv ==
  ASSUME Inv, NEW t \in Waiter, NEW k \in Calls[t], StartWait(t, k)
  PROVE  Inv'
<1> USE EpollAssumption DEF StartWait, At, Goto, fileVars, epollVars, scanVars,
        Actor, Task
<1>t. TypeOK /\ Place(t) /\ Alone(t) /\ t \in Actor
  BY Zenon DEF Inv, Structure, Places, Actor, Task
<1>m. Moves(t)
  BY Zenon, <1>t DEF Moves, TypeOK, Pc
<1>1. TypeOK'
  BY Zenon, <1>t DEF TypeOK, Pc
<1>2. Place(t)' /\ Alone(t)'
  BY Zenon, <1>t DEF Place, Alone, TypeOK, WaitPc, UpdatePc, DelPc, DropPc,
     CtlPc, NotifyPc, WalkPc
<1>3. Places'
  BY Zenon, <1>t, <1>m, <1>2, PlacesFrame DEF Place, TypeOK, Alive,
     LeavingAt, QueueFree, WaitPc, UpdatePc, DelPc, DropPc, CtlPc, NotifyPc,
     WalkPc
<1>4. OneCtl'
  BY Zenon, <1>t, <1>m, OneCtlFrame DEF TypeOK
<1>5. /\ \A g \in File : g \in known \/ Leaving(g) => g \in known' \/ Leaving(g)'
      /\ RegisteredKnown'
  BY Zenon, <1>t, <1>m, KnownFrame DEF TypeOK, Place, LeavingAt, WaitPc,
     UpdatePc, DelPc, DropPc, CtlPc, NotifyPc, WalkPc
<1>6. ListedReady' /\ Walks'
  BY Zenon, <1>t, <1>m, <1>5, ListFrame DEF TypeOK, WalkPc
<1>7. Sleepers' /\ SleeperNotified'
  BY Zenon, <1>t, <1>m, SleepFrame DEF TypeOK
<1>8. TakeKept' /\ EventKept'
  BY Zenon, <1>t, <1>m, KeptQuiet DEF TypeOK, Place, PendingAt, Alive,
     WaitPc, UpdatePc, DelPc, DropPc, CtlPc, NotifyPc, WalkPc
<1> QED
  BY Zenon, <1>1, <1>3, <1>4, <1>5, <1>6, <1>7, <1>8 DEF Inv, Structure

LEMMA LockListsInv ==
  ASSUME Inv, NEW t \in Waiter, LockLists(t)
  PROVE  Inv'
<1> USE EpollAssumption DEF At, fileVars, epollVars, scanVars, Actor, Task
<1>t. /\ TypeOK /\ Place(t) /\ Alone(t) /\ t \in Actor
      /\ \A w \in Waiter : w # t => pc[w] \notin WalkPc \cup DropPc
  <2>1. TypeOK /\ Place(t) /\ Alone(t) /\ t \in Actor
    BY Zenon DEF Inv, Structure, Places
  <2>2. lists \in {t, Nobody}
    BY Zenon, <2>1 DEF LockLists, Place, WalkPc
  <2> QED
    BY Zenon, <2>1, <2>2, NoWalk
<1>e. /\ pc[t] = "Lock" /\ t \notin File /\ t \notin Controller /\ t \notin Closer
      /\ file[t] = NoFile /\ lists = Nobody /\ lists' = t
      /\ pc' \in [Actor -> Pc] /\ file' \in [Actor -> File \cup {NoFile}]
      /\ \A b \in Actor : b # t => pc'[b] = pc[b] /\ file'[b] = file[b]
      /\ pc'[t] = "Scan" /\ file'[t] = file[t]
      /\ rest' = [rest EXCEPT ![t] = readyList]
      /\ UNCHANGED <<open, ready, owed, known, registered, entry, readyList, files,
                     queue, event, call, got, ok>>
  BY Zenon, <1>t DEF LockLists, Goto, Place, TypeOK, Pc
<1>m. Moves(t)
  BY Zenon, <1>t, <1>e DEF Moves
<1>1. TypeOK'
  BY <1>t, <1>e, <1>m DEF TypeOK, Moves
<1>2. Place(t)' /\ Alone(t)'
  BY Zenon, <1>t, <1>e, <1>m DEF Place, Alone, TypeOK, Moves, WaitPc,
     UpdatePc, DelPc, DropPc, CtlPc, NotifyPc, WalkPc
<1>3. Places'
  BY Zenon, <1>t, <1>e, <1>m, <1>2, PlacesFrame DEF Place, TypeOK, Alive,
     LeavingAt, QueueFree, WaitPc, UpdatePc, DelPc, DropPc, CtlPc, NotifyPc,
     WalkPc
<1>4. OneCtl'
  BY Zenon, <1>t, <1>e, <1>m, OneCtlFrame
<1>5. /\ \A g \in File : g \in known \/ Leaving(g) => g \in known' \/ Leaving(g)'
      /\ RegisteredKnown'
  BY Zenon, <1>t, <1>e, <1>m, KnownFrame DEF TypeOK, LeavingAt, DropPc, DelPc
<1>6. ListedReady' /\ Walks'
  <2>1. IsInjective(readyList) /\ rest'[t] = readyList
    BY ZenonT(40), <1>t, <1>e DEF Inv, Structure, ListedReady, TypeOK
  <2>2. Walks'
    BY Zenon, <1>t, <1>e, <2>1 DEF Walks
  <2> QED
    BY Zenon, <1>e, <1>5, <2>2, ListedFrame
<1>7. Sleepers' /\ SleeperNotified'
  BY Zenon, <1>t, <1>e, <1>m, SleepFrame
<1>8. TakeKept' /\ EventKept'
  BY ZenonT(40), <1>t, <1>e, <1>m, KeptQuiet DEF TypeOK, PendingAt, Alive,
     DropPc
<1> QED
  BY Zenon, <1>1, <1>3, <1>4, <1>5, <1>6, <1>7, <1>8 DEF Inv, Structure

LEMMA UnlockInv ==
  ASSUME Inv, NEW t \in Waiter, Unlock(t)
  PROVE  Inv'
<1> USE EpollAssumption DEF At, fileVars, epollVars, scanVars, Actor, Task
<1>t. /\ TypeOK /\ Place(t) /\ Alone(t) /\ t \in Actor
      /\ \A w \in Waiter : w # t => pc[w] \notin WalkPc \cup DropPc
  <2>1. TypeOK /\ Place(t) /\ Alone(t) /\ t \in Actor
    BY Zenon DEF Inv, Structure, Places
  <2>2. lists \in {t, Nobody}
    BY Zenon, <2>1 DEF Unlock, Place, WalkPc
  <2> QED
    BY Zenon, <2>1, <2>2, NoWalk
<1>e. /\ pc[t] = "Scan" /\ t \notin File /\ t \notin Controller /\ t \notin Closer
      /\ file[t] = NoFile /\ lists = t /\ lists' = Nobody /\ t # Nobody
      /\ pc' \in [Actor -> Pc] /\ file' \in [Actor -> File \cup {NoFile}]
      /\ \A b \in Actor : b # t => pc'[b] = pc[b] /\ file'[b] = file[b]
      /\ file'[t] = file[t] /\ pc'[t] \in {"Leave", "Block", "Idle", "Enter"}
      /\ pc'[t] = "Block" => t \in queue /\ got[t] = 0 /\ rest[t] = <<>>
      /\ rest' \in [Waiter -> Seq(File)] /\ got' \in [Waiter -> 0..max]
      /\ call' \in [Waiter -> {"wait", "try", "avail", "none"}]
      /\ \A w \in Waiter : w # t => call'[w] = call[w]
      /\ UNCHANGED <<open, ready, owed, known, registered, entry, readyList, files,
                     queue, event, ok>>
  <2>1. /\ pc[t] = "Scan" /\ lists = t /\ file[t] = NoFile
    BY Zenon, <1>t DEF Unlock, Place, WaitPc, WalkPc, DropPc
  <2>2. PICK l \in {"Leave", "Block", "Idle", "Enter"} :
          /\ l = "Block" => t \in queue /\ ~(got[t] > 0)
          /\ pc' = [pc EXCEPT ![t] = l]
          /\ call' = [call EXCEPT ![t] = IF l = "Idle" THEN "none" ELSE @]
    BY Zenon DEF Unlock, Goto
  <2>3. got[t] \in 0..max /\ (~(got[t] > 0) => got[t] = 0 /\ got[t] # max)
    BY <1>t DEF TypeOK
  <2>4. l = "Block" => t \in queue /\ got[t] = 0 /\ rest[t] = <<>>
    BY Zenon, <2>2, <2>3 DEF Unlock
  <2>5. /\ pc' \in [Actor -> Pc] /\ file' \in [Actor -> File \cup {NoFile}]
        /\ \A b \in Actor : b # t => pc'[b] = pc[b] /\ file'[b] = file[b]
        /\ file'[t] = file[t] /\ pc'[t] = l
    BY Zenon, <1>t, <2>2 DEF Unlock, TypeOK, Pc
  <2>6. rest' \in [Waiter -> Seq(File)] /\ got' \in [Waiter -> 0..max]
    BY <1>t DEF Unlock, TypeOK
  <2>7. /\ call' \in [Waiter -> {"wait", "try", "avail", "none"}]
        /\ \A w \in Waiter : w # t => call'[w] = call[w]
    BY Zenon, <1>t, <2>2 DEF TypeOK
  <2>8. UNCHANGED <<open, ready, owed, known, registered, entry, readyList, files,
                    queue, event, ok>> /\ lists' = Nobody
    BY Zenon DEF Unlock
  <2> QED
    BY Zenon, <1>t, <2>1, <2>2, <2>4, <2>5, <2>6, <2>7, <2>8
<1>m. Moves(t)
  BY Zenon, <1>t, <1>e DEF Moves
<1>1. TypeOK'
  BY <1>t, <1>e, <1>m DEF TypeOK, Moves
<1>2. Place(t)' /\ Alone(t)'
  BY Zenon, <1>t, <1>e, <1>m DEF Place, Alone, TypeOK, Moves, WaitPc,
     UpdatePc, DelPc, DropPc, CtlPc, NotifyPc, WalkPc
<1>3. Places'
  BY Zenon, <1>t, <1>e, <1>m, <1>2, PlacesFrame DEF Place, TypeOK, Alive,
     LeavingAt, QueueFree, WaitPc, UpdatePc, DelPc, DropPc, CtlPc, NotifyPc,
     WalkPc
<1>4. OneCtl'
  BY Zenon, <1>t, <1>e, <1>m, OneCtlFrame
<1>5. /\ \A g \in File : g \in known \/ Leaving(g) => g \in known' \/ Leaving(g)'
      /\ RegisteredKnown'
  BY Zenon, <1>t, <1>e, <1>m, KnownFrame DEF TypeOK, LeavingAt, DropPc, DelPc
<1>6. ListedReady' /\ Walks'
  <2>1. Walks'
    BY Zenon, <1>t, <1>e DEF Walks, WalkPc
  <2> QED
    BY Zenon, <1>e, <1>5, <2>1, ListedFrame
<1>7. Sleepers' /\ SleeperNotified'
  <2>1. CASE pc'[t] # "Block"
    BY Zenon, <1>t, <1>e, <1>m, <2>1, SleepFrame
  <2>2. CASE pc'[t] = "Block"
    <3>1. /\ readyList \in Seq(File)
          /\ Range(readyList) \subseteq Range(rest[t]) \cup {NoFile}
      BY Zenon, <1>t, <1>e, <2>2 DEF Inv, Structure, Walks, TypeOK, WalkPc
    <3>2. Range(rest[t]) = {}
      BY <1>t, <1>e, <2>2, InList DEF TypeOK
    <3>3. readyList = <<>>
      BY <3>1, <3>2, InList
    <3>4. Sleepers'
      BY ZenonT(40), <1>t, <1>e DEF Inv, Sleepers
    <3> QED
      BY Zenon, <1>e, <3>3, <3>4 DEF SleeperNotified
  <2> QED
    BY Zenon, <2>1, <2>2
<1>8. TakeKept' /\ EventKept'
  BY Zenon, <1>t, <1>e, <1>m, KeptQuiet DEF TypeOK, PendingAt, Alive, DropPc
<1> QED
  BY Zenon, <1>1, <1>3, <1>4, <1>5, <1>6, <1>7, <1>8 DEF Inv, Structure

LEMMA VisitInv ==
  ASSUME Inv, NEW t \in Waiter, Visit(t)
  PROVE  Inv'
<1> USE EpollAssumption DEF At, fileVars, epollVars, scanVars, Actor, Task
<1>t. /\ TypeOK /\ Place(t) /\ Alone(t) /\ t \in Actor
      /\ \A w \in Waiter : w # t => pc[w] \notin WalkPc \cup DropPc
  <2>1. TypeOK /\ Place(t) /\ Alone(t) /\ t \in Actor
    BY Zenon DEF Inv, Structure, Places
  <2>2. lists \in {t, Nobody}
    BY Zenon, <2>1 DEF Visit, Place, WalkPc
  <2> QED
    BY Zenon, <2>1, <2>2, NoWalk
<1>e. /\ pc[t] = "Scan" /\ t \notin File /\ t \notin Controller /\ t \notin Closer
      /\ file[t] = NoFile /\ lists = t /\ t # Nobody
      /\ IsInjective(rest[t]) /\ Range(rest[t]) \subseteq Range(readyList)
      /\ got[t] = 0 => Range(readyList) \subseteq Range(rest[t]) \cup {NoFile}
      /\ rest[t] \in Seq(File) /\ rest[t] # <<>> /\ got[t] < max
      /\ rest' = [rest EXCEPT ![t] = Tail(rest[t])]
      /\ pc' \in [Actor -> Pc] /\ file' \in [Actor -> File \cup {NoFile}]
      /\ \A b \in Actor : b # t => pc'[b] = pc[b] /\ file'[b] = file[b]
      /\ \/ /\ Alive(Head(rest[t])) /\ pc'[t] = "Look" /\ file'[t] = Head(rest[t])
            /\ UNCHANGED <<entry, readyList>>
         \/ /\ ~Alive(Head(rest[t])) /\ UNCHANGED <<pc, file>>
            /\ readyList' = RemoveEntry(readyList, Head(rest[t]))
            /\ entry' = [entry EXCEPT ![Head(rest[t])].state = "Waiting"]
      /\ UNCHANGED <<open, ready, owed, known, registered, files, lists,
                     queue, event, call, got, ok>>
  <2>1. pc[t] = "Scan" /\ lists = t /\ file[t] = NoFile /\ t # Nobody
    BY Zenon, <1>t DEF Visit, Place, WaitPc, WalkPc, DropPc
  <2>2. /\ IsInjective(rest[t]) /\ Range(rest[t]) \subseteq Range(readyList)
        /\ got[t] = 0 => Range(readyList) \subseteq Range(rest[t]) \cup {NoFile}
    BY Zenon, <2>1 DEF Inv, Structure, Walks, WalkPc
  <2>3. /\ rest[t] \in Seq(File) /\ rest[t] # <<>> /\ got[t] < max
        /\ rest' = [rest EXCEPT ![t] = Tail(rest[t])]
        /\ UNCHANGED <<open, ready, owed, known, registered, files, lists,
                       queue, event, call, got, ok>>
    BY Zenon, <1>t DEF Visit, TypeOK
  <2>4. Head(rest[t]) \in File
    BY Zenon, <2>3, WalkList
  <2>5. CASE Alive(Head(rest[t]))
    <3>1. /\ file' = [file EXCEPT ![t] = Head(rest[t])]
          /\ pc' = [pc EXCEPT ![t] = "Look"]
          /\ UNCHANGED <<entry, readyList>>
      BY Zenon, <2>5 DEF Visit, Goto
    <3>2. /\ pc' \in [Actor -> Pc] /\ file' \in [Actor -> File \cup {NoFile}]
          /\ \A b \in Actor : b # t => pc'[b] = pc[b] /\ file'[b] = file[b]
          /\ pc'[t] = "Look" /\ file'[t] = Head(rest[t])
      BY Zenon, <1>t, <2>4, <3>1 DEF TypeOK, Pc
    <3> QED
      BY Zenon, <2>1, <2>2, <2>3, <2>5, <3>1, <3>2
  <2>6. CASE ~Alive(Head(rest[t]))
    <3>1. /\ readyList' = RemoveEntry(readyList, Head(rest[t]))
          /\ UNCHANGED <<file, pc>>
          /\ entry' = [entry EXCEPT ![Head(rest[t])].state = "Waiting"]
      BY Zenon, <2>6 DEF Visit
    <3>2. /\ pc' \in [Actor -> Pc] /\ file' \in [Actor -> File \cup {NoFile}]
          /\ \A b \in Actor : b # t => pc'[b] = pc[b] /\ file'[b] = file[b]
      BY Zenon, <1>t, <3>1 DEF TypeOK
    <3> QED
      BY Zenon, <2>1, <2>2, <2>3, <2>6, <3>1, <3>2
  <2> QED
    BY Zenon, <2>5, <2>6
<1>m. Moves(t)
  BY Zenon, <1>t, <1>e DEF Moves
<1>0. /\ Head(rest[t]) \in File /\ Head(rest[t]) \in Range(readyList)
      /\ readyList \in Seq(File) /\ IsInjective(readyList)
      /\ rest'[t] = Tail(rest[t]) /\ rest'[t] \in Seq(File) /\ IsInjective(rest'[t])
      /\ Range(rest[t]) = {Head(rest[t])} \cup Range(rest'[t])
      /\ Head(rest[t]) \notin Range(rest'[t])
  <2>1. /\ rest'[t] = Tail(rest[t]) /\ rest[t] \in Seq(File) /\ rest[t] # <<>>
        /\ IsInjective(rest[t]) /\ Range(rest[t]) \subseteq Range(readyList)
    BY ZenonT(30), <1>t, <1>e DEF TypeOK
  <2>2. readyList \in Seq(File) /\ IsInjective(readyList)
    BY Zenon DEF Inv, Structure, TypeOK, ListedReady
  <2> QED
    BY <2>1, <2>2, WalkList
<1>a. ~Alive(Head(rest[t])) =>
        /\ entry' \in [File -> Entries] /\ entry'[Head(rest[t])].state = "Waiting"
        /\ \A g \in File : g # Head(rest[t]) => entry'[g] = entry[g]
        /\ readyList' \in Seq(File) /\ IsInjective(readyList')
        /\ Range(readyList') = Range(readyList) \ {Head(rest[t])}
  <2> SUFFICES ASSUME ~Alive(Head(rest[t]))
               PROVE  /\ entry' \in [File -> Entries]
                      /\ entry'[Head(rest[t])].state = "Waiting"
                      /\ \A g \in File : g # Head(rest[t]) => entry'[g] = entry[g]
                      /\ readyList' \in Seq(File) /\ IsInjective(readyList')
                      /\ Range(readyList') = Range(readyList) \ {Head(rest[t])}
    BY Zenon
  <2>1. /\ readyList' = RemoveEntry(readyList, Head(rest[t]))
        /\ entry' = [entry EXCEPT ![Head(rest[t])].state = "Waiting"]
    BY Zenon, <1>e
  <2>2. /\ readyList' \in Seq(File) /\ IsInjective(readyList')
        /\ Range(readyList') = Range(readyList) \ {Head(rest[t])}
    BY Zenon, <1>0, <2>1, RemoveEntryList
  <2> QED
    BY Zenon, <1>t, <1>0, <2>1, <2>2, EntryState
<1>1. TypeOK'
  <2>1. rest' \in [Waiter -> Seq(File)]
    BY Zenon, <1>t, <1>e, <1>0 DEF TypeOK
  <2>2. entry' \in [File -> Entries] /\ readyList' \in Seq(File)
    <3>1. CASE Alive(Head(rest[t]))
      BY Zenon, <1>t, <1>e, <3>1 DEF TypeOK, Entries
    <3> QED
      BY Zenon, <1>a, <3>1
  <2> QED
    BY Zenon, <1>t, <1>e, <2>1, <2>2 DEF TypeOK, Entries
<1>2. Place(t)' /\ Alone(t)'
  BY <1>t, <1>e, <1>0 DEF Place, Alone, TypeOK, WaitPc,
     UpdatePc,
     DelPc, DropPc, CtlPc, NotifyPc, WalkPc
<1>3. Places'
  BY <1>t, <1>e, <1>m, <1>2, PlacesFrame DEF Place,
     TypeOK, Alive,
     LeavingAt, QueueFree, WaitPc, UpdatePc, DelPc, DropPc, CtlPc, NotifyPc,
     WalkPc
<1>4. OneCtl'
  BY Zenon, <1>t, <1>e, <1>m, OneCtlFrame
<1>5. /\ \A g \in File : g \in known \/ Leaving(g) => g \in known' \/ Leaving(g)'
      /\ RegisteredKnown'
  BY Zenon, <1>t, <1>e, <1>m, KnownFrame DEF TypeOK, LeavingAt, DropPc, DelPc
<1>6. ListedReady' /\ Walks'
  <2>1. CASE Alive(Head(rest[t]))
    <3>1. /\ UNCHANGED <<entry, readyList>> /\ pc'[t] = "Look"
          /\ file'[t] = Head(rest[t])
      BY Zenon, <1>e, <2>1
    <3>2. Walks'
      <4>1. \A x \in Range(readyList) : x # NoFile
        BY <1>0, InList
      <4>2. rest'[t] \in Seq(File) /\ got'[t] = got[t]
        BY Zenon, <1>e, <1>0
      <4> QED
        BY ZenonT(30), <1>t, <1>e, <1>0, <3>1, <4>1, <4>2 DEF Walks
    <3> QED
      BY Zenon, <1>5, <3>1, <3>2, ListedFrame
  <2>2. CASE ~Alive(Head(rest[t]))
    <3>1. ListedReady'
      BY Zenon, <1>0, <1>a, <1>5, <2>2, ListedChange
    <3>2. UNCHANGED <<pc, file>>
      BY Zenon, <1>e, <2>2
    <3>3. Walks'
      BY Zenon, <1>t, <1>e, <1>0, <1>a, <2>2, <3>2 DEF Walks
    <3> QED
      BY Zenon, <3>1, <3>3
  <2> QED
    BY Zenon, <2>1, <2>2
<1>7. Sleepers' /\ SleeperNotified'
  <2>1. readyList # <<>> /\ pc'[t] # "Block" /\ pc[t] # "Wake"
    <3>1. readyList # <<>>
      BY <1>0 DEF Range
    <3> QED
      BY Zenon, <1>e, <3>1
  <2> QED
    BY Zenon, <1>t, <1>e, <1>m, <2>1, SleepFrame
<1>8. TakeKept' /\ EventKept'
  <2>1. ASSUME NEW g \in registered', ready'[g], ~Coming(g)'
        PROVE  /\ g \in registered /\ ready[g] /\ (owed'[g] => owed[g])
               /\ open'[g] => open[g]
               /\ Waits(g)' =>
                    entry[g].state = "Waiting" /\ entry'[g].flags = entry[g].flags
               /\ t \in Task /\ file'[t] = g /\ pc'[t] \notin DropPc =>
                    Alive(g) \/ (file[t] = g /\ pc[t] \notin DropPc)
               /\ PendingAt(t, g) =>
                    \/ PendingAt(t, g)'
                    \/ ~Waits(g)' /\ (lists = Nobody \/ t \in Waiter)
    <3>1. CASE Alive(Head(rest[t]))
      BY <1>t, <1>e, <2>1, <3>1 DEF TypeOK, Waits, PendingAt
    <3>2. CASE ~Alive(Head(rest[t]))
      <4>1. UNCHANGED <<pc, file, open>>
        BY Zenon, <1>e, <3>2
      <4>2. g = Head(rest[t]) => ~Alive(g)'
        BY Zenon, <3>2, <4>1 DEF Alive
      <4>3. g # Head(rest[t]) => entry'[g] = entry[g]
        BY ZenonT(40), <1>t, <1>e, <1>a, <2>1, <3>2 DEF TypeOK
      <4> QED
        BY ZenonT(40), <1>t, <1>e, <2>1, <4>1, <4>2, <4>3 DEF TypeOK, Waits,
           PendingAt
    <3> QED
      BY Zenon, <3>1, <3>2
  <2> QED
    BY Zenon, <1>t, <1>m, <1>1, <2>1, KeptFrame, <1>e DEF TypeOK
<1> QED
  BY Zenon, <1>1, <1>3, <1>4, <1>5, <1>6, <1>7, <1>8 DEF Inv, Structure

LEMMA LookInv ==
  ASSUME Inv, NEW t \in Waiter, Look(t)
  PROVE  Inv'
<1> USE EpollAssumption DEF At, fileVars, epollVars, scanVars, Actor, Task
<1>t. /\ TypeOK /\ Place(t) /\ Alone(t) /\ t \in Actor
      /\ \A w \in Waiter : w # t => pc[w] \notin WalkPc \cup DropPc
  <2>1. TypeOK /\ Place(t) /\ Alone(t) /\ t \in Actor
    BY Zenon DEF Inv, Structure, Places
  <2>2. lists \in {t, Nobody}
    BY Zenon, <2>1 DEF Look, Place, WalkPc
  <2> QED
    BY Zenon, <2>1, <2>2, NoWalk
<1>e. /\ pc[t] = "Look" /\ t \notin File /\ t \notin Controller /\ t \notin Closer
      /\ file[t] \in File /\ lists = t
      /\ pc' \in [Actor -> Pc] /\ file' \in [Actor -> File \cup {NoFile}]
      /\ \A b \in Actor : b # t => pc'[b] = pc[b] /\ file'[b] = file[b]
      /\ pc'[t] = "Take" /\ file'[t] = file[t]
      /\ ok' = [ok EXCEPT ![t] = ready[file[t]]]
      /\ owed' \in [File -> BOOLEAN] /\ \A g \in File : owed'[g] => owed[g]
      /\ ready[file[t]] => call[t] = "avail" \/ ~owed'[file[t]]
      /\ UNCHANGED <<open, ready, known, registered, entry, readyList, files, lists,
                     queue, event, call, rest, got>>
  <2>1. /\ pc[t] = "Look" /\ file[t] \in File /\ lists = t
    BY Zenon, <1>t DEF Look, Place, TypeOK, WaitPc, WalkPc, DropPc
  <2>2. /\ owed' \in [File -> BOOLEAN] /\ \A g \in File : owed'[g] => owed[g]
        /\ ready[file[t]] => call[t] = "avail" \/ ~owed'[file[t]]
    BY Zenon, <1>t, <2>1 DEF Look, TypeOK
  <2> QED
    BY Zenon, <1>t, <2>1, <2>2 DEF Look, Goto, TypeOK, Pc
<1>m. Moves(t)
  BY Zenon, <1>t, <1>e DEF Moves
<1>1. TypeOK'
  BY <1>t, <1>e, <1>m DEF TypeOK, Moves
<1>2. Place(t)' /\ Alone(t)'
  BY Zenon, <1>t, <1>e, <1>m DEF Place, Alone, TypeOK, Moves, WaitPc,
     UpdatePc, DelPc, DropPc, CtlPc, NotifyPc, WalkPc
<1>3. Places'
  BY Zenon, <1>t, <1>e, <1>m, <1>2, PlacesFrame DEF Place, TypeOK, Alive,
     LeavingAt, QueueFree, WaitPc, UpdatePc, DelPc, DropPc, CtlPc, NotifyPc,
     WalkPc
<1>4. OneCtl'
  BY Zenon, <1>t, <1>e, <1>m, OneCtlFrame
<1>5. /\ \A g \in File : g \in known \/ Leaving(g) => g \in known' \/ Leaving(g)'
      /\ RegisteredKnown'
  BY Zenon, <1>t, <1>e, <1>m, KnownFrame DEF TypeOK, LeavingAt, DropPc, DelPc
<1>6. ListedReady' /\ Walks'
  <2>1. Walks'
    BY Zenon, <1>t, <1>e DEF Inv, Structure, Walks, WalkPc
  <2> QED
    BY Zenon, <1>e, <1>5, <2>1, ListedFrame
<1>7. Sleepers' /\ SleeperNotified'
  BY Zenon, <1>t, <1>e, <1>m, SleepFrame
<1>8. TakeKept' /\ EventKept'
  <2>1. ASSUME NEW g \in registered', ready'[g], ~Coming(g)'
        PROVE  /\ g \in registered /\ ready[g] /\ (owed'[g] => owed[g])
               /\ open'[g] => open[g]
               /\ Waits(g)' =>
                    entry[g].state = "Waiting" /\ entry'[g].flags = entry[g].flags
               /\ t \in Task /\ file'[t] = g /\ pc'[t] \notin DropPc =>
                    Alive(g) \/ (file[t] = g /\ pc[t] \notin DropPc)
               /\ PendingAt(t, g) =>
                    \/ PendingAt(t, g)'
                    \/ ~Waits(g)' /\ (lists = Nobody \/ t \in Waiter)
    BY Zenon, <1>t, <1>e, <2>1 DEF TypeOK, Waits, PendingAt, DropPc
  <2>2. /\ registered' \subseteq File
        /\ \A w \in Waiter : w # t => ok'[w] = ok[w] /\ call'[w] = call[w]
        /\ ready'[file'[t]] => ok'[t] /\ (call'[t] = "avail" \/ ~owed'[file'[t]])
    BY ZenonT(30), <1>t, <1>e DEF TypeOK
  <2> QED
    BY Zenon, <1>t, <1>m, <2>1, <2>2, KeptFrame
<1> QED
  BY Zenon, <1>1, <1>3, <1>4, <1>5, <1>6, <1>7, <1>8 DEF Inv, Structure

LEMMA TakeInv ==
  ASSUME Inv, NEW t \in Waiter, Take(t)
  PROVE  Inv'
<1> USE EpollAssumption DEF At, fileVars, epollVars, scanVars, Actor, Task
<1>t. /\ TypeOK /\ Place(t) /\ Alone(t) /\ t \in Actor
      /\ \A w \in Waiter : w # t => pc[w] \notin WalkPc \cup DropPc
  <2>1. TypeOK /\ Place(t) /\ Alone(t) /\ t \in Actor
    BY Zenon DEF Inv, Structure, Places
  <2>2. lists \in {t, Nobody}
    BY Zenon, <2>1 DEF Take, Place, WalkPc
  <2> QED
    BY Zenon, <2>1, <2>2, NoWalk
<1>e. /\ pc[t] = "Take" /\ t \notin File /\ t \notin Controller /\ t \notin Closer
      /\ file[t] \in File /\ lists = t
      /\ pc' \in [Actor -> Pc] /\ file' \in [Actor -> File \cup {NoFile}]
      /\ \A b \in Actor : b # t => pc'[b] = pc[b] /\ file'[b] = file[b]
      /\ \/ pc'[t] = "Scan" /\ file'[t] = NoFile
         \/ /\ pc'[t] = "DropFiles" /\ file'[t] = file[t] /\ file[t] \in registered
            /\ ~open[file[t]] /\ pc[file[t]] = "Idle"
            /\ \A w \in Task : w # t => file[w] # file[t]
      /\ UNCHANGED <<open, ready, owed, known, registered, files, lists,
                     queue, event, call>>
  <2>1. /\ pc[t] = "Take" /\ file[t] \in File /\ lists = t /\ t # file[t]
        /\ "Scan" \in Pc
    BY <1>t DEF Take, Place, TypeOK, WaitPc, WalkPc,
       DropPc, Pc
  <2>2. /\ LetGo(t, file[t], "Scan")
        /\ UNCHANGED <<open, ready, owed, known, registered, files, lists,
                       queue, event, call>>
    BY Zenon DEF Take
  <2> QED
    BY ZenonT(40), <1>t, <2>1, <2>2, LetGoEffect DEF Moves
<1>m. Moves(t)
  BY Zenon, <1>t, <1>e DEF Moves
<1>0. /\ IsInjective(rest[t]) /\ Range(rest[t]) \subseteq Range(readyList)
      /\ file[t] \in Range(readyList) \ Range(rest[t]) /\ got[t] < max
      /\ got[t] = 0 => Range(readyList) \subseteq Range(rest[t]) \cup {file[t]}
      /\ readyList \in Seq(File) /\ IsInjective(readyList)
      /\ rest[t] \in Seq(File) /\ got[t] \in 0..max
  BY Zenon, <1>t, <1>e DEF Inv, Structure, Walks, TypeOK, ListedReady, WalkPc
<1>a. /\ entry' \in [File -> Entries]
      /\ entry'[file[t]].flags = entry[file[t]].flags
      /\ \A g \in File : g # file[t] => entry'[g] = entry[g]
      /\ entry'[file[t]].state = "Waiting" =>
           ~ok[t] \/ (call[t] # "avail" /\ entry[file[t]].flags # "level")
      /\ ~ok[t] => entry'[file[t]].state = "Waiting"
      /\ readyList' = IF entry'[file[t]].state = "Ready" THEN readyList
                      ELSE RemoveEntry(readyList, file[t])
  <2> DEFINE s == IF ~ok[t] THEN "Waiting"
                  ELSE IF call[t] = "avail" THEN "Ready"
                  ELSE CASE entry[file[t]].flags = "oneshot" -> "Disabled"
                         [] entry[file[t]].flags = "edge" -> "Waiting"
                         [] OTHER -> "Ready"
  <2>1. /\ entry' = [entry EXCEPT ![file[t]].state = s]
        /\ readyList' = IF s = "Ready" THEN readyList ELSE RemoveEntry(readyList, file[t])
    BY Zenon DEF Take
  <2>2. /\ s \in {"Ready", "Waiting", "Disabled"} /\ (~ok[t] => s = "Waiting")
        /\ s = "Waiting" =>
             ~ok[t] \/ (call[t] # "avail" /\ entry[file[t]].flags # "level")
    BY Zenon
  <2> HIDE DEF s
  <2>3. file[t] \in File
    BY Zenon, <1>e
  <2>4. /\ entry' \in [File -> Entries]
        /\ entry'[file[t]].state = s /\ entry'[file[t]].flags = entry[file[t]].flags
        /\ \A g \in File : g # file[t] => entry'[g] = entry[g]
    BY Zenon, <1>t, <2>1, <2>2, <2>3, EntryState
  <2> QED
    BY Zenon, <2>1, <2>2, <2>4
<1>b. /\ readyList' \in Seq(File) /\ IsInjective(readyList')
      /\ Range(readyList') = IF entry'[file[t]].state = "Ready" THEN Range(readyList)
                             ELSE Range(readyList) \ {file[t]}
  <2>1. CASE entry'[file[t]].state = "Ready"
    BY Zenon, <1>0, <1>a, <2>1
  <2>2. CASE entry'[file[t]].state # "Ready"
    <3>1. readyList' = RemoveEntry(readyList, file[t])
      BY Zenon, <1>a, <2>2
    <3>2. /\ readyList' \in Seq(File) /\ IsInjective(readyList')
          /\ Range(readyList') = Range(readyList) \ {file[t]}
      BY Zenon, <1>0, <3>1, RemoveEntryList
    <3> QED
      BY Zenon, <2>2, <3>2
  <2> QED
    BY Zenon, <2>1, <2>2
<1>c. /\ rest' \in [Waiter -> Seq(File)] /\ got' \in [Waiter -> 0..max]
      /\ rest'[t] = rest[t] \/ (rest'[t] = <<>> /\ ok[t])
      /\ got'[t] = 0 => ~ok[t] /\ got[t] = 0
      /\ ok' \in [Waiter -> BOOLEAN] /\ \A w \in Waiter : w # t => ok'[w] = ok[w]
  <2>1. /\ got' = [got EXCEPT ![t] = IF ok[t] THEN got[t] + 1 ELSE got[t]]
        /\ rest' = rest \/ (rest' = [rest EXCEPT ![t] = <<>>] /\ ok[t])
        /\ ok' = [ok EXCEPT ![t] = FALSE]
    BY Zenon DEF Take
  <2>2. /\ got \in [Waiter -> 0..max] /\ rest \in [Waiter -> Seq(File)]
        /\ ok \in [Waiter -> BOOLEAN]
    BY Zenon, <1>t DEF TypeOK
  <2>3. max \in Nat /\ (got[t] + 1 \in 0..max) /\ got[t] + 1 # 0
    BY <1>0
  <2>4. got' \in [Waiter -> 0..max] /\ (got'[t] = 0 => ~ok[t] /\ got[t] = 0)
    BY Zenon, <2>1, <2>2, <2>3
  <2>5. /\ rest' \in [Waiter -> Seq(File)]
        /\ (rest'[t] = rest[t] \/ (rest'[t] = <<>> /\ ok[t]))
    <3>1. CASE rest' = rest
      BY Zenon, <2>2, <3>1
    <3>2. CASE rest' = [rest EXCEPT ![t] = <<>>] /\ ok[t]
      BY <2>2, <3>2
    <3> QED
      BY Zenon, <2>1, <3>1, <3>2
  <2>6. ok' \in [Waiter -> BOOLEAN] /\ \A w \in Waiter : w # t => ok'[w] = ok[w]
    BY Zenon, <2>1, <2>2
  <2> QED
    BY Zenon, <2>4, <2>5, <2>6
<1>1. TypeOK'
  BY Zenon, <1>t, <1>e, <1>m, <1>a, <1>b, <1>c DEF TypeOK, Moves, Entries
<1>2. Place(t)' /\ Alone(t)'
  BY Zenon, <1>t, <1>e, <1>m DEF Place, Alone, TypeOK, Moves, WaitPc,
     UpdatePc, DelPc, DropPc, CtlPc, NotifyPc, WalkPc
<1>3. Places'
  BY Zenon, <1>t, <1>e, <1>m, <1>2, PlacesFrame DEF Place, TypeOK, Alive,
     LeavingAt, QueueFree, WaitPc, UpdatePc, DelPc, DropPc, CtlPc, NotifyPc,
     WalkPc
<1>4. OneCtl'
  BY Zenon, <1>t, <1>e, <1>m, OneCtlFrame
<1>5. /\ \A g \in File : g \in known \/ Leaving(g) => g \in known' \/ Leaving(g)'
      /\ RegisteredKnown'
  BY Zenon, <1>t, <1>e, <1>m, KnownFrame DEF TypeOK, LeavingAt, DropPc, DelPc
<1>6. ListedReady' /\ Walks'
  <2>1. ListedReady'
    <3>1. \A g \in Range(readyList) : g \in known' \/ Leaving(g)'
      BY Zenon, <1>0, <1>5, InList DEF Inv, Structure, ListedReady
    <3>2. /\ file[t] \in File /\ readyList' \in Seq(File) /\ IsInjective(readyList')
          /\ \A g \in File : g # file[t] =>
               /\ g \in Range(readyList') => g \in Range(readyList)
               /\ g \in Range(readyList) => g \in Range(readyList')
               /\ entry'[g] = entry[g]
      BY Zenon, <1>e, <1>0, <1>a, <1>b
    <3>3. \A g \in File : g = file[t] =>
            /\ g \in Range(readyList') <=> entry'[g].state = "Ready"
            /\ g \in Range(readyList') => g \in known' \/ Leaving(g)'
      BY Zenon, <1>0, <1>b, <3>1
    <3>4. \A g \in File : g \in known \/ Leaving(g) => g \in known' \/ Leaving(g)'
      BY Zenon, <1>5
    <3> QED
      BY Zenon, <3>2, <3>3, <3>4, ListedChange
  <2>2. ASSUME pc'[t] = "Scan"
        PROVE  /\ IsInjective(rest'[t])
               /\ Range(rest'[t]) \subseteq Range(readyList')
               /\ got'[t] = 0 => Range(readyList') \subseteq Range(rest'[t])
    <3>1. CASE rest'[t] = rest[t]
      BY ZenonT(40), <1>0, <1>a, <1>b, <1>c, <3>1
    <3>2. CASE rest'[t] = <<>> /\ ok[t]
      BY <1>c, <3>2 DEF IsInjective, Range
    <3> QED
      BY Zenon, <1>c, <3>1, <3>2
  <2>3. Walks'
    BY Zenon, <1>t, <1>e, <2>2 DEF Walks, WalkPc
  <2> QED
    BY Zenon, <2>1, <2>3
<1>7. Sleepers' /\ SleeperNotified'
  <2>1. readyList # <<>> /\ pc'[t] # "Block" /\ pc[t] # "Wake"
    <3>1. readyList # <<>>
      BY <1>0 DEF Range
    <3> QED
      BY Zenon, <1>e, <3>1
  <2> QED
    BY Zenon, <1>t, <1>e, <1>m, <2>1, SleepFrame
<1>8. TakeKept' /\ EventKept'
  <2>1. ASSUME NEW g \in registered', ready'[g], ~Coming(g)'
        PROVE  /\ g \in registered /\ ready[g] /\ (owed'[g] => owed[g])
               /\ open'[g] => open[g]
               /\ Waits(g)' =>
                    entry[g].state = "Waiting" /\ entry'[g].flags = entry[g].flags
               /\ t \in Task /\ file'[t] = g /\ pc'[t] \notin DropPc =>
                    Alive(g) \/ (file[t] = g /\ pc[t] \notin DropPc)
               /\ PendingAt(t, g) =>
                    \/ PendingAt(t, g)'
                    \/ ~Waits(g)' /\ (lists = Nobody \/ t \in Waiter)
    <3>1. g \in File /\ g \in registered /\ ready[g]
      BY Zenon, <1>t, <1>e, <2>1 DEF TypeOK
    <3>2. g # file[t] => entry'[g] = entry[g] /\ ~PendingAt(t, g)
      BY Zenon, <1>e, <1>a, <3>1 DEF PendingAt
    <3>3. CASE g = file[t] /\ Waits(g)'
      <4>1. ~ok[t] \/ (owed[file[t]] /\ call[t] # "avail")
        BY Zenon, <1>e, <1>a, <3>3 DEF Waits
      <4>2. Coming(file[t])
        BY Zenon, <1>e, <3>1, <3>3, <4>1 DEF Inv, TakeKept
      <4>3. \A f \in File : Coming(f) => Coming(f)'
        BY Zenon, <1>e DEF Coming
      <4> QED
        BY Zenon, <1>e, <2>1, <3>1, <3>3, <4>2, <4>3
    <3> QED
      BY ZenonT(40), <1>e, <2>1, <3>1, <3>2, <3>3 DEF Waits, DropPc
  <2>2. /\ registered' \subseteq File /\ pc'[t] # "Take"
        /\ \A w \in Waiter : w # t => ok'[w] = ok[w] /\ call'[w] = call[w]
    BY Zenon, <1>t, <1>e, <1>c DEF TypeOK
  <2> QED
    BY Zenon, <1>t, <1>m, <2>1, <2>2, KeptFrame
<1> QED
  BY Zenon, <1>1, <1>3, <1>4, <1>5, <1>6, <1>7, <1>8 DEF Inv, Structure

LEMMA EnterInv ==
  ASSUME Inv, NEW t \in Waiter, Enter(t)
  PROVE  Inv'
<1> USE EpollAssumption DEF Enter, At, Goto, fileVars, epollVars, scanVars,
        Actor, Task
<1>t. TypeOK /\ Place(t) /\ Alone(t) /\ t \in Actor
  BY Zenon DEF Inv, Structure, Places, Actor, Task
<1>m. Moves(t)
  BY Zenon, <1>t DEF Moves, TypeOK, Pc
<1>1. TypeOK'
  BY Zenon, <1>t DEF TypeOK, Pc
<1>2. Place(t)' /\ Alone(t)'
  BY Zenon, <1>t DEF Place, Alone, TypeOK, WaitPc, UpdatePc, DelPc, DropPc,
     CtlPc, NotifyPc, WalkPc
<1>3. Places'
  BY Zenon, <1>t, <1>m, <1>2, PlacesFrame DEF Place, TypeOK, Alive,
     LeavingAt, QueueFree, WaitPc, UpdatePc, DelPc, DropPc, CtlPc, NotifyPc,
     WalkPc
<1>4. OneCtl'
  BY Zenon, <1>t, <1>m, OneCtlFrame DEF TypeOK
<1>5. /\ \A g \in File : g \in known \/ Leaving(g) => g \in known' \/ Leaving(g)'
      /\ RegisteredKnown'
  BY Zenon, <1>t, <1>m, KnownFrame DEF TypeOK, Place, LeavingAt, WaitPc,
     UpdatePc, DelPc, DropPc, CtlPc, NotifyPc, WalkPc
<1>6. ListedReady' /\ Walks'
  BY Zenon, <1>t, <1>m, <1>5, ListFrame DEF TypeOK, WalkPc
<1>7. Sleepers' /\ SleeperNotified'
  BY Zenon, <1>t, <1>m, SleepFrame DEF TypeOK
<1>8. TakeKept' /\ EventKept'
  BY Zenon, <1>t, <1>m, KeptQuiet DEF TypeOK, Place, PendingAt, Alive,
     WaitPc, UpdatePc, DelPc, DropPc, CtlPc, NotifyPc, WalkPc
<1> QED
  BY Zenon, <1>1, <1>3, <1>4, <1>5, <1>6, <1>7, <1>8 DEF Inv, Structure

LEMMA WokenInv ==
  ASSUME Inv, NEW t \in Waiter, Woken(t)
  PROVE  Inv'
<1> USE EpollAssumption DEF Woken, At, Goto, fileVars, epollVars, scanVars,
        Actor, Task
<1>t. TypeOK /\ Place(t) /\ Alone(t) /\ t \in Actor
  BY Zenon DEF Inv, Structure, Places, Actor, Task
<1>m. Moves(t)
  BY Zenon, <1>t DEF Moves, TypeOK, Pc
<1>1. TypeOK'
  BY Zenon, <1>t DEF TypeOK, Pc
<1>2. Place(t)' /\ Alone(t)'
  BY Zenon, <1>t DEF Place, Alone, TypeOK, WaitPc, UpdatePc, DelPc, DropPc,
     CtlPc, NotifyPc, WalkPc
<1>3. Places'
  BY Zenon, <1>t, <1>m, <1>2, PlacesFrame DEF Place, TypeOK, Alive,
     LeavingAt, QueueFree, WaitPc, UpdatePc, DelPc, DropPc, CtlPc, NotifyPc,
     WalkPc
<1>4. OneCtl'
  BY Zenon, <1>t, <1>m, OneCtlFrame DEF TypeOK
<1>5. /\ \A g \in File : g \in known \/ Leaving(g) => g \in known' \/ Leaving(g)'
      /\ RegisteredKnown'
  BY Zenon, <1>t, <1>m, KnownFrame DEF TypeOK, Place, LeavingAt, WaitPc,
     UpdatePc, DelPc, DropPc, CtlPc, NotifyPc, WalkPc
<1>6. ListedReady' /\ Walks'
  BY Zenon, <1>t, <1>m, <1>5, ListFrame DEF TypeOK, WalkPc
<1>7. Sleepers' /\ SleeperNotified'
  BY Zenon, <1>t, <1>m, SleepFrame DEF TypeOK
<1>8. TakeKept' /\ EventKept'
  BY Zenon, <1>t, <1>m, KeptQuiet DEF TypeOK, Place, PendingAt, Alive,
     WaitPc, UpdatePc, DelPc, DropPc, CtlPc, NotifyPc, WalkPc
<1> QED
  BY Zenon, <1>1, <1>3, <1>4, <1>5, <1>6, <1>7, <1>8 DEF Inv, Structure

LEMMA GiveUpInv ==
  ASSUME Inv, NEW t \in Waiter, GiveUp(t)
  PROVE  Inv'
<1> USE EpollAssumption DEF GiveUp, At, Goto, fileVars, epollVars, scanVars,
        Actor, Task
<1>t. TypeOK /\ Place(t) /\ Alone(t) /\ t \in Actor
  BY Zenon DEF Inv, Structure, Places, Actor, Task
<1>m. Moves(t)
  BY Zenon, <1>t DEF Moves, TypeOK, Pc
<1>1. TypeOK'
  BY Zenon, <1>t DEF TypeOK, Pc
<1>2. Place(t)' /\ Alone(t)'
  BY Zenon, <1>t DEF Place, Alone, TypeOK, WaitPc, UpdatePc, DelPc, DropPc,
     CtlPc, NotifyPc, WalkPc
<1>3. Places'
  BY Zenon, <1>t, <1>m, <1>2, PlacesFrame DEF Place, TypeOK, Alive,
     LeavingAt, QueueFree, WaitPc, UpdatePc, DelPc, DropPc, CtlPc, NotifyPc,
     WalkPc
<1>4. OneCtl'
  BY Zenon, <1>t, <1>m, OneCtlFrame DEF TypeOK
<1>5. /\ \A g \in File : g \in known \/ Leaving(g) => g \in known' \/ Leaving(g)'
      /\ RegisteredKnown'
  BY Zenon, <1>t, <1>m, KnownFrame DEF TypeOK, Place, LeavingAt, WaitPc,
     UpdatePc, DelPc, DropPc, CtlPc, NotifyPc, WalkPc
<1>6. ListedReady' /\ Walks'
  BY Zenon, <1>t, <1>m, <1>5, ListFrame DEF TypeOK, WalkPc
<1>7. Sleepers' /\ SleeperNotified'
  BY Zenon, <1>t, <1>m, SleepFrame DEF TypeOK
<1>8. TakeKept' /\ EventKept'
  BY Zenon, <1>t, <1>m, KeptQuiet DEF TypeOK, Place, PendingAt, Alive,
     WaitPc, UpdatePc, DelPc, DropPc, CtlPc, NotifyPc, WalkPc
<1> QED
  BY Zenon, <1>1, <1>3, <1>4, <1>5, <1>6, <1>7, <1>8 DEF Inv, Structure

LEMMA LeaveInv ==
  ASSUME Inv, NEW t \in Waiter, Leave(t)
  PROVE  Inv'
<1> USE EpollAssumption DEF Leave, At, Goto, fileVars, epollVars, scanVars,
        Actor, Task
<1>t. TypeOK /\ Place(t) /\ Alone(t) /\ t \in Actor
  BY Zenon DEF Inv, Structure, Places, Actor, Task
<1>m. Moves(t)
  BY Zenon, <1>t DEF Moves, TypeOK, Pc
<1>1. TypeOK'
  BY Zenon, <1>t DEF TypeOK, Pc
<1>2. Place(t)' /\ Alone(t)'
  BY Zenon, <1>t DEF Place, Alone, TypeOK, WaitPc, UpdatePc, DelPc, DropPc,
     CtlPc, NotifyPc, WalkPc
<1>3. Places'
  BY Zenon, <1>t, <1>m, <1>2, PlacesFrame DEF Place, TypeOK, Alive,
     LeavingAt, QueueFree, WaitPc, UpdatePc, DelPc, DropPc, CtlPc, NotifyPc,
     WalkPc
<1>4. OneCtl'
  BY Zenon, <1>t, <1>m, OneCtlFrame DEF TypeOK
<1>5. /\ \A g \in File : g \in known \/ Leaving(g) => g \in known' \/ Leaving(g)'
      /\ RegisteredKnown'
  BY Zenon, <1>t, <1>m, KnownFrame DEF TypeOK, Place, LeavingAt, WaitPc,
     UpdatePc, DelPc, DropPc, CtlPc, NotifyPc, WalkPc
<1>6. ListedReady' /\ Walks'
  BY Zenon, <1>t, <1>m, <1>5, ListFrame DEF TypeOK, WalkPc
<1>7. Sleepers' /\ SleeperNotified'
  BY Zenon, <1>t, <1>m, SleepFrame DEF TypeOK
<1>8. TakeKept' /\ EventKept'
  BY Zenon, <1>t, <1>m, KeptQuiet DEF TypeOK, Place, PendingAt, Alive,
     WaitPc, UpdatePc, DelPc, DropPc, CtlPc, NotifyPc, WalkPc
<1> QED
  BY Zenon, <1>1, <1>3, <1>4, <1>5, <1>6, <1>7, <1>8 DEF Inv, Structure

-----------------------------------------------------------------------------
LEMMA InvInit ==
  Init => Inv
<1> SUFFICES ASSUME Init
             PROVE  Inv
  BY Zenon
<1> USE EpollAssumption DEF Init
<1>1. TypeOK
  BY DEF TypeOK, NewEntry, Actor, Pc
<1>2. \A a \in Actor : pc[a] = "Idle" /\ (a \in File => file[a] = a)
                       /\ (a \in Task => file[a] = NoFile)
  BY Zenon DEF Actor, Task
<1>3. Places
  BY Zenon, <1>2 DEF Places, Place, Alone, Actor, Task, WaitPc, CtlPc,
     NotifyPc, WalkPc,
              UpdatePc, DropPc
<1>4. OneCtl /\ RegisteredKnown /\ Walks /\ Sleepers /\ TakeKept /\ SleeperNotified
  BY Zenon, <1>2 DEF OneCtl, RegisteredKnown, Walks, Sleepers, TakeKept,
     SleeperNotified,
              At, Actor, Task, WalkPc
<1>5. Range(readyList) = {} /\ IsInjective(readyList)
  BY DEF Range, IsInjective
<1>6. ListedReady /\ EventKept
  BY Zenon, <1>5 DEF ListedReady, EventKept, NewEntry
<1> QED
  BY Zenon, <1>1, <1>3, <1>4, <1>6 DEF Inv, Structure

LEMMA InvNext ==
  Inv /\ [Next]_vars => Inv'
<1> SUFFICES ASSUME Inv, [Next]_vars
             PROVE  Inv'
  BY Zenon
<1>1. ASSUME NEW f \in File, Arrive(f) \/ Drain(f) \/ Reopen(f) \/ Notify(f)
      PROVE  Inv'
  BY Zenon, <1>1, ArriveInv, DrainInv, ReopenInv, NotifyInv
<1>2. ASSUME NEW f \in File, NEW c \in Closer, Close(c, f)
      PROVE  Inv'
  BY Zenon, <1>2, CloseInv
<1>3. ASSUME NEW f \in File, NEW c \in Controller, NEW l \in {"Add", "Mod", "Del"},
             StartCtl(c, f, l)
      PROVE  Inv'
  BY Zenon, <1>3, StartCtlInv
<1>4. ASSUME NEW c \in Controller, CtlStep(c)
      PROVE  Inv'
  BY Zenon, <1>4, AddEntryInv, UpdateEntryInv, RemoveKnownInv,
     EventUnregisterInv,
     UpdateInv, DelUnlistInv, EventRegisterInv, ReadinessInv, DoneInv
     DEF CtlStep
<1>5. ASSUME NEW t \in Waiter, NEW k \in Calls[t], StartWait(t, k)
      PROVE  Inv'
  BY Zenon, <1>5, StartWaitInv
<1>6. ASSUME NEW t \in Waiter, WaitStep(t) \/ GiveUp(t)
      PROVE  Inv'
  BY Zenon, <1>6, LockListsInv, UnlockInv, VisitInv, LookInv, TakeInv,
     EnterInv,
     WokenInv, GiveUpInv, LeaveInv DEF WaitStep
<1>7. ASSUME NEW a \in Actor, Shared(a)
      PROVE  Inv'
  BY Zenon, <1>7, CallBackInv, WakeInv, DropFilesInv, DropListsInv DEF Shared
<1>8. CASE UNCHANGED vars
  <2> USE <1>8 DEF vars
  <2>1. TypeOK' /\ Places' /\ OneCtl' /\ RegisteredKnown'
    BY ZenonT(30) DEF Inv, Structure, TypeOK, Places, Place, Alone, OneCtl,
       RegisteredKnown,
           Leaving
  <2>2. ListedReady' /\ Walks' /\ Sleepers' /\ SleeperNotified'
    BY Zenon DEF Inv, Structure, ListedReady, Leaving, Walks, Sleepers,
       SleeperNotified,
           At
  <2>3. TakeKept' /\ EventKept'
    BY Zenon DEF Inv, TakeKept, Coming, EventKept, Alive, Pending, At
  <2> QED
    BY Zenon, <2>1, <2>2, <2>3 DEF Inv, Structure
<1> QED
  BY Zenon, <1>1, <1>2, <1>3, <1>4, <1>5, <1>6, <1>7, <1>8 DEF Next

LEMMA Invariant ==
  Spec => []Inv
BY InvInit, InvNext, PTL DEF Spec

(* The ready list of an epoll object holds each entry in the state Ready   *)
(* once and no other entry, whatever calls walk it, close files and change *)
(* entries at a time: Remove never empties it, and a file that was removed *)
(* reports no event.                                                       *)
THEOREM Listed ==
  Spec => []ListedReady
<1>1. Inv => ListedReady
  BY Zenon DEF Inv, Structure
<1> QED
  BY <1>1, Invariant, PTL

(* CallBack, epoll_ctl and the walk of ReadEvents lose no event between    *)
(* them: an entry whose file has an event that no walk has seen is in the  *)
(* list, or its callback is on the way.                                    *)
THEOREM Kept ==
  Spec => []EventKept
<1>1. Inv => EventKept
  BY Zenon DEF Inv
<1> QED
  BY <1>1, Invariant, PTL

(* Nobody sleeps in WaitEpoll beside a list that is not empty, unless the  *)
(* wakeup is on its way.                                                   *)
THEOREM Notified ==
  Spec => []SleeperNotified
<1>1. Inv => SleeperNotified
  BY Zenon DEF Inv
<1> QED
  BY <1>1, Invariant, PTL
=============================================================================
