------------------------------ MODULE FileLocks -----------------------------
(***************************************************************************)
(* Advisory file locks (fs/lock.rs) in a set of segments (areaset.rs), as  *)
(* fcntl and flock use them (sys_file.rs) and the last close of a file     *)
(* gives them up (fd_table.rs, file.rs).                                   *)
(*                                                                         *)
(* A Locks object has a mutex, the segments of the file that somebody has  *)
(* locked and a queue of the tasks that wait for any of them.  What a call *)
(* does with the mutex is one step.  The segments are a sequence, in the   *)
(* order of the linked list: index 0 stands for the list's head, an index  *)
(* past the end for its tail, and gap i lies behind entry i.               *)
(***************************************************************************)
EXTENDS Integers, Sequences, SequencesExt, FiniteSets, FiniteSetsExt

CONSTANTS
  Task,
  UniqueId,    \* what owns locks: a descriptor table, or for flock a file
  Nobody,
  uid,         \* uid[t]: the owner task t locks for
  MAX_RANGE,   \* the bytes of the file are 0 .. MAX_RANGE - 1
  Starts, Lens \* l_start and l_len of the calls, with whence SEEK_SET

ASSUME FileLocksAssumption ==
  /\ uid \in [Task -> UniqueId] /\ Nobody \notin UniqueId
  /\ MAX_RANGE \in Nat \ {0} /\ Starts \subseteq 0..(MAX_RANGE - 1)

VARIABLES
  locks,       \* LocksInternal.locks
  queue,       \* the tasks whose general entry is in LocksInternal.queue
  event,       \* event[t]: the general event of t's waiter
  pc,
  req          \* req[t]: what t is blocked for

vars == <<locks, queue, event, pc, req>>

LockType == {"ReadLock", "WriteLock"}

(* ComputeRange: a length of 0 goes to the end of any file. *)
ComputeRange(start, length) ==
  IF length = 0 THEN [start |-> start, end |-> MAX_RANGE]
  ELSE IF length > 0 THEN [start |-> start, end |-> start + length]
  ELSE [start |-> start + length, end |-> start]

Ranges ==
  {ComputeRange(x[1], x[2]) :
     x \in {y \in Starts \X Lens : 0 <= y[1] + y[2] /\ y[1] + y[2] < MAX_RANGE}}
Max_Range == [start |-> 0, end |-> MAX_RANGE]
NoRequest == [type |-> "none", range |-> Max_Range]

-----------------------------------------------------------------------------
(* AreaSet *)

StartOf(s, i) == IF i > Len(s) THEN MAX_RANGE ELSE s[i].start
Ok(s, i) == i \in 1..Len(s)

FindArea(s, key) == Max({0} \cup {i \in 1..Len(s) : s[i].start <= key})

FindSeg(s, key) ==
  LET i == FindArea(s, key) IN i > 0 /\ key < s[i].end

LowerBoundSeg(s, key) ==
  IF FindSeg(s, key) THEN FindArea(s, key) ELSE FindArea(s, key) + 1

UpperBoundSeg(s, key) == FindArea(s, key)

(* Insert into gap i.  Merging keeps the value of the other segment, which *)
(* has the same holders.                                                   *)
Same(x, y) == x.Writer = y.Writer /\ x.Readers = y.Readers

Insert(s, i, new) ==
  LET prev == i > 0 /\ s[i].end = new.start /\ Same(s[i], new)
      next == i < Len(s) /\ s[i + 1].start = new.end /\ Same(s[i + 1], new)
  IN IF prev
       THEN [segs |-> IF next
                        THEN RemoveAt([s EXCEPT ![i].end = s[i + 1].end], i + 1)
                        ELSE [s EXCEPT ![i].end = new.end],
             at |-> i]
       ELSE [segs |-> IF next THEN [s EXCEPT ![i + 1].start = new.start]
                              ELSE InsertAt(s, i + 1, new),
             at |-> i + 1]

CanSplitAt(seg, x) == seg.start < x /\ x < seg.end

Split(s, i, x) ==
  InsertAt([s EXCEPT ![i].end = x], i + 1, [s[i] EXCEPT !.start = x])

(* Isolate leaves a segment that has no byte of r as it is. *)
Isolate_StartOnly(s, i, r) ==
  LET low == CanSplitAt(s[i], r.start)
      s1 == IF low THEN Split(s, i, r.start) ELSE s
      j == IF low THEN i + 1 ELSE i
  IN [segs |-> s1,
      at |-> j]

Isolate(s, i, r) ==
  LET low == CanSplitAt(s[i], r.start)
      s1 == IF low THEN Split(s, i, r.start) ELSE s
      j == IF low THEN i + 1 ELSE i
  IN [segs |-> IF CanSplitAt(s1[j], r.end) THEN Split(s1, j, r.end) ELSE s1,
      at |-> j]

-----------------------------------------------------------------------------
(* LocksInternal *)

IsHeld(seg, u) == seg.Writer = u \/ u \in seg.Readers

MakeLock(u, t, start, end) ==
  [start |-> start, end |-> end,
   Writer |-> IF t = "WriteLock" THEN u ELSE Nobody,
   Readers |-> IF t = "ReadLock" THEN {u} ELSE {}]


Hold(seg, u, t) ==
  CASE t = "ReadLock" /\ u \notin seg.Readers ->
         [seg EXCEPT !.Readers = IF seg.Writer = Nobody THEN @ \cup {u} ELSE {u},
                     !.Writer = Nobody]
    [] t = "WriteLock" /\ seg.Writer # u ->
         [seg EXCEPT !.Readers = {}, !.Writer = u]
    [] OTHER -> seg

(* The segments that Lockable passes to its check. *)

InRegion(s, r) ==
  {s[i] : i \in {j \in LowerBoundSeg(s, r.start)..Len(s) : s[j].start < r.end}}

CanLock(s, u, t, r) ==
  \A x \in InRegion(s, r) :
    IF t = "ReadLock" THEN x.Writer \in {Nobody, u}
    ELSE IF x.Writer = Nobody THEN x.Readers = {u} ELSE x.Writer = u

RECURSIVE LockFrom(_, _, _, _, _)
LockFrom(s, i, u, t, r) ==
  IF ~Ok(s, i) \/ s[i].start >= r.end THEN s
  ELSE LET s1 == IF s[i].end > r.end THEN Split(s, i, r.end) ELSE s
           s2 == [s1 EXCEPT ![i] = Hold(@, u, t)]
           gap == MakeLock(u, t, s2[i].end, Min({StartOf(s2, i + 1), r.end}))
           ins == IF gap.start < gap.end THEN Insert(s2, i, gap)
                  ELSE [segs |-> s2, at |-> i]
       IN LockFrom(ins.segs, ins.at + 1, u, t, r)

Lock(s, u, t, r) ==
  LET i == FindArea(s, r.start)
      ins == Insert(s, i, MakeLock(u, t, r.start, Min({StartOf(s, i + 1), r.end})))
  IN IF ~FindSeg(s, r.start) THEN LockFrom(ins.segs, ins.at + 1, u, t, r)
     ELSE IF s[i].start < r.start THEN LockFrom(Split(s, i, r.start), i + 1, u, t, r)
     ELSE LockFrom(s, i, u, t, r)

RECURSIVE UnlockFrom(_, _, _, _)
UnlockFrom(s, i, u, r) ==
  IF ~Ok(s, i) \/ s[i].start >= r.end THEN s
  ELSE IF ~IsHeld(s[i], u) THEN UnlockFrom(s, i + 1, u, r)
  ELSE LET iso == Isolate(s, i, r)
           s1 == iso.segs
           j == iso.at
       IN IF s1[j].Writer = u \/ s1[j].Readers = {u}
            THEN UnlockFrom(RemoveAt(s1, j), j, u, r)
            ELSE UnlockFrom([s1 EXCEPT ![j].Readers = @ \ {u}], j + 1, u, r)

Unlock(s, u, r) == UnlockFrom(s, UpperBoundSeg(s, r.start), u, r)

(* TestRegion: whether F_GETLK reports a conflict. *)
TestRegion_WriterOnly(s, u, t, r) ==
  \E i \in LowerBoundSeg(s, r.start)..Len(s) :
    /\ s[i].start < r.end
    /\ IF s[i].Writer = Nobody
         THEN FALSE
         ELSE s[i].Writer # u

TestRegion(s, u, t, r) ==
  \E i \in LowerBoundSeg(s, r.start)..Len(s) :
    /\ s[i].start < r.end
    /\ IF s[i].Writer = Nobody
         THEN t = "WriteLock" /\ s[i].Readers \ {u} # {}
         ELSE s[i].Writer # u

-----------------------------------------------------------------------------
(* Locks *)

At(t, l) == pc[t] = l
Goto(t, l) == pc' = [pc EXCEPT ![t] = l]

Init ==
  /\ locks = <<>> /\ queue = {}
  /\ event = [t \in Task |-> FALSE]
  /\ pc = [t \in Task |-> "Idle"]
  /\ req = [t \in Task |-> NoRequest]

(* LockRegion: the mutex is held until the lock is granted, refused, or    *)
(* the task is registered.                                                 *)
Grant(t, k, r) ==
  /\ CanLock(locks, uid[t], k, r)
  /\ locks' = Lock(locks, uid[t], k, r)
  /\ Goto(t, "Idle")
  /\ req' = [req EXCEPT ![t] = NoRequest]
  /\ UNCHANGED <<queue, event>>

Register(t, k, r) ==
  /\ ~CanLock(locks, uid[t], k, r)
  /\ queue' = queue \cup {t}
  /\ Goto(t, "Block")
  /\ req' = [req EXCEPT ![t] = [type |-> k, range |-> r]]
  /\ UNCHANGED <<locks, event>>

LockRegion(t, k, r) == At(t, "Idle") /\ (Grant(t, k, r) \/ Register(t, k, r))

(* BlockGeneral returns, EventUnregister runs at the end of the scope, and *)
(* the loop tries again, or returns ERESTARTSYS.                           *)
Unblock(t) ==
  /\ At(t, "Block")
  /\ \/ event[t] /\ Goto(t, "Again")
     \/ Goto(t, "Interrupted")
  /\ UNCHANGED <<locks, queue, event, req>>

EventUnregister(t) ==
  /\ pc[t] \in {"Again", "Interrupted"}
  /\ queue' = queue \ {t}
  /\ event' = [event EXCEPT ![t] = FALSE]
  /\ Goto(t, IF At(t, "Again") THEN "Retry" ELSE "Idle")
  /\ req' = IF At(t, "Again") THEN req ELSE [req EXCEPT ![t] = NoRequest]
  /\ UNCHANGED locks

Retry(t) ==
  /\ At(t, "Retry")
  /\ \/ Grant(t, req[t].type, req[t].range)
     \/ Register(t, req[t].type, req[t].range)

UnlockRegion_Silent(t, r) ==
  /\ At(t, "Idle")
  /\ locks' = Unlock(locks, uid[t], r)
  /\ UNCHANGED <<queue, event, pc, req>>

UnlockRegion(t, r) ==
  /\ At(t, "Idle")
  /\ locks' = Unlock(locks, uid[t], r)
  /\ event' = [x \in Task |-> event[x] \/ x \in queue]
  /\ UNCHANGED <<queue, pc, req>>

(* FDTable::Drop and the drop of a File: everything goes. *)
Drop(t) == UnlockRegion(t, Max_Range)

Next ==
  \E t \in Task :
    \/ \E r \in Ranges : UnlockRegion(t, r) \/ \E k \in LockType : LockRegion(t, k, r)
    \/ Drop(t) \/ Unblock(t) \/ EventUnregister(t) \/ Retry(t)

Spec == Init /\ [][Next]_vars

-----------------------------------------------------------------------------
(* Properties *)

Byte == 0..(MAX_RANGE - 1)
Covers(seg, b) == seg.start <= b /\ b < seg.end
Bytes(r) == {b \in Byte : Covers(r, b)}

(* How u holds byte b in the segments s. *)
Held(s, u, b) ==
  {k \in LockType :
     \E i \in 1..Len(s) :
       /\ Covers(s[i], b)
       /\ IF k = "WriteLock" THEN s[i].Writer = u ELSE u \in s[i].Readers}

TypeOK ==
  /\ \A i \in 1..Len(locks) :
       locks[i] \in [start : Byte, end : 1..MAX_RANGE,
                     Writer : UniqueId \cup {Nobody}, Readers : SUBSET UniqueId]
  /\ queue \subseteq Task /\ event \in [Task -> BOOLEAN]
  /\ pc \in [Task -> {"Idle", "Block", "Again", "Interrupted", "Retry"}]
  /\ \A t \in Task : req[t] \in [type : LockType \cup {"none"},
                                  range : Ranges \cup {Max_Range}]


(* Every lock table is reached with all tasks idle too, as a signal ends   *)
(* any wait: what depends on the table alone is stated for these states.   *)
Quiet == \A t \in Task : At(t, "Idle")

(* u has k in new where it asked for it, and what it had elsewhere. *)
Sets(new, u, r, k) ==
  \A b \in Byte :
    Held(new, u, b) = IF b \in Bytes(r) THEN k ELSE Held(locks, u, b)

OthersKeep(new, u) ==
  \A w \in UniqueId \ {u}, b \in Byte : Held(new, w, b) = Held(locks, w, b)

(* What the loops over segments do to the bytes.  A lock that is granted   *)
(* where its owner has none covers the region, and an unlock that starts   *)
(* on a locked byte frees it; neither changes what the owner has outside   *)
(* the region.  No lock and no unlock changes anybody else's locks.        *)
RegionExact ==
  Quiet =>
    \A u \in UniqueId, r \in Ranges :
      /\ \A k \in LockType :
           CanLock(locks, u, k, r) =>
             LET new == Lock(locks, u, k, r)
             IN /\ OthersKeep(new, u)
                /\ (\A b \in Bytes(r) : Held(locks, u, b) = {})
                     => Sets(new, u, r, {k})
      /\ LET new == Unlock(locks, u, r)
         IN /\ OthersKeep(new, u)
            /\ FindSeg(locks, r.start) => Sets(new, u, r, {})

Waits(t) == At(t, "Block") /\ ~event[t]
Could(t) == CanLock(locks, uid[t], req[t].type, req[t].range)

(* Nobody sleeps past an unlock: a step that makes a sleeper's request     *)
(* possible sets its event, or is the one that downgrades a write lock,    *)
(* which tells nobody.                                                     *)
SleeperNotified ==
  [][\A t \in Task :
       Waits(t) /\ ~Could(t) /\ Waits(t)' /\ Could(t)' =>
         \E u \in UniqueId, b \in Bytes(req[t].range) :
           Held(locks, u, b) = {"WriteLock"} /\ Held(locks', u, b) = {"ReadLock"}]_vars

(* F_GETLK reports a conflict exactly when F_SETLK would fail. *)
TestAgrees ==
  Quiet =>
    \A u \in UniqueId, k \in LockType, r \in Ranges :
      TestRegion(locks, u, k, r) <=> ~CanLock(locks, u, k, r)

(* "unlock is always successful": its owner has no lock in the region. *)
UnlockReleases ==
  Quiet =>
    \A u \in UniqueId, r \in Ranges, b \in Byte :
      b \in Bytes(r) => Held(Unlock(locks, u, r), u, b) = {}
=============================================================================
