-------------------------------- MODULE Pipe --------------------------------
(***************************************************************************)
(* Pipes and FIFOs (pipe.rs, node.rs, reader.rs, writer.rs,                *)
(* reader_writer.rs, waiter/cond.rs) under the blocking read and write     *)
(* loops of the system calls (sys_read.rs, sys_write.rs) and splice.       *)
(*                                                                         *)
(* A step is one critical section (the pipe's lock, a queue's lock, a      *)
(* Cond's lock) or one atomic access to readers or writers.  The bytes are *)
(* counted, not kept: module PipeBuffer has the buffers.                   *)
(*                                                                         *)
(* A task is one thread with at most one file on the pipe.  Its general    *)
(* wait entry is seen through what module Blocker shows: a task that       *)
(* blocks comes back when the entry's event is set, or interrupted.        *)
(***************************************************************************)
EXTENDS Naturals, FiniteSets, FiniteSetsExt

CONSTANTS
  Task,
  Modes,      \* Modes[t]: the ways task t may open the pipe
  AtomicIO,   \* 4096, in the unit the lengths below are counted in
  Sizes,      \* the sizes SetPipeSize may ask for; the smallest is the first
  Lengths,    \* lengths of reads and writes
  Calls       \* the calls tasks make on an open pipe
NoTask == "none"

ASSUME PipeAssumption ==
  /\ Modes \in [Task -> SUBSET {"R", "W", "RW"}]
  /\ Sizes # {} /\ \A s \in Sizes : s \in Nat /\ s >= AtomicIO
  /\ Lengths \subseteq Nat \ {0}
  /\ Calls \subseteq {"read", "write", "splice", "resize", "nonblock"}
  /\ NoTask \notin Task

VARIABLES
  size,       \* bytes in the pipe
  max,        \* its capacity
  readers,    \* PipeIn.readers
  writers,    \* PipeIn.writers
  hadWriter,
  iops,       \* the holder of the inode's lock
  signaled,   \* Cond.signaled of rWakeup and wWakeup
  condQueue,  \* the tasks in the Cond's queue
  queue,      \* queue[t]: the mask t is registered with in the pipe's queue
  event,      \* event[t]: the general event of t's waiter
  pc, mode, nonblock,
  op,         \* the call t is in, want and count of it
  want, count,
  res         \* the outcome of the last call

pipeVars == <<size, max, readers, writers, hadWriter>>
condVars == <<iops, signaled, condQueue>>
taskVars == <<mode, nonblock, op, want, count, res>>
vars == <<size, max, readers, writers, hadWriter, iops, signaled, condQueue,
          queue, event, pc, mode, nonblock, op, want, count, res>>

READABLE_EVENT == {"IN"}
WRITEABLE_EVENT == {"OUT"}
EVENT_HUP == {"HUP"}
EVENT_READ == {"IN", "HUP"}
EVENT_WRITE == {"OUT", "HUP"}

OpenPc == {"ROpen", "WOpen", "WCount", "BroadcastR", "BroadcastW",
           "OpenCheck", "CondWait", "CondCheck", "CondBlock", "CondLeave"}
ClosePc == {"RClose", "RReset", "WClose", "WReset", "CloseNotify"}
ReadPc == {"ReadFirst", "ReadFirstNotify", "Read", "ReadNotify"}
WritePc == {"Write", "WriteNotify"}
SplicePc == {"SpliceCheck", "SpliceRead", "SpliceWrite", "SpliceNotify"}
Pc == {"Closed", "Open", "Register", "Block", "Unregister"}
        \cup OpenPc \cup ClosePc \cup ReadPc \cup WritePc \cup SplicePc
Results == {"none", "Ok", "Zero", "EAGAIN", "EPIPE", "EINTR", "Short"}

Reads(t) == mode[t] \in {"R", "RW"}
Writes(t) == mode[t] \in {"W", "RW"}

TypeOK ==
  /\ max \in Sizes /\ size \in 0..max
  /\ readers \in 0..Cardinality(Task) /\ writers \in 0..Cardinality(Task)
  /\ hadWriter \in BOOLEAN
  /\ iops \in Task \cup {NoTask}
  /\ signaled \in [{"r", "w"} -> BOOLEAN]
  /\ condQueue \in [{"r", "w"} -> SUBSET Task]
  /\ queue \in [Task -> {{}, EVENT_READ, EVENT_WRITE}]
  /\ event \in [Task -> BOOLEAN]
  /\ pc \in [Task -> Pc]
  /\ mode \in [Task -> {"none", "R", "W", "RW"}]
  /\ nonblock \in [Task -> BOOLEAN]
  /\ op \in [Task -> {"none", "read", "write", "splice"}]
  /\ want \in [Task -> Lengths \cup 0..Max(Sizes)]
  /\ \A t \in Task : count[t] \in 0..Max(Sizes \cup Lengths)
  /\ res \in [Task -> Results]

Init ==
  /\ size = 0 /\ max = Min(Sizes)
  /\ readers = 0 /\ writers = 0 /\ hadWriter = FALSE
  /\ iops = NoTask
  /\ signaled = [c \in {"r", "w"} |-> FALSE]
  /\ condQueue = [c \in {"r", "w"} |-> {}]
  /\ queue = [t \in Task |-> {}]
  /\ event = [t \in Task |-> FALSE]
  /\ pc = [t \in Task |-> "Closed"]
  /\ mode = [t \in Task |-> "none"]
  /\ nonblock = [t \in Task |-> FALSE]
  /\ op = [t \in Task |-> "none"]
  /\ want = [t \in Task |-> 0]
  /\ count = [t \in Task |-> 0]
  /\ res = [t \in Task |-> "none"]

At(t, from) == pc[t] = from
Goto(t, to) == pc' = [pc EXCEPT ![t] = to]

(* Queue::Notify, and EventUnregister: clear the entry and remove it. *)

Notify(m) ==
  event' = [t \in Task |-> event[t] \/ queue[t] \cap m # {}]

-----------------------------------------------------------------------------
(* PipeIops::GetFile: count the new end, broadcast it, and wait for the    *)
(* other end.  The inode's lock is held up to the wait.                    *)

StartOpen(t, m, nb) ==
  /\ At(t, "Closed")
  /\ iops = NoTask
  /\ m \in Modes[t]
  /\ nb => "nonblock" \in Calls
  /\ iops' = t
  /\ mode' = [mode EXCEPT ![t] = m]
  /\ nonblock' = [nonblock EXCEPT ![t] = nb]
  /\ res' = [res EXCEPT ![t] = "none"]
  /\ Goto(t, IF m = "W" THEN "WOpen" ELSE "ROpen")
  /\ UNCHANGED <<pipeVars, signaled, condQueue, queue, event, op, want, count>>

ROpen(t) ==
  /\ At(t, "ROpen")
  /\ readers' = readers + 1
  /\ Goto(t, IF mode[t] = "RW" THEN "WOpen" ELSE "BroadcastR")
  /\ UNCHANGED <<size, max, writers, hadWriter, condVars, queue, event,
                 taskVars>>

(* WOpen: hadWriter is set under the pipe's lock, writers after it. *)

WOpen(t) ==
  /\ At(t, "WOpen")
  /\ hadWriter' = TRUE
  /\ Goto(t, "WCount")
  /\ UNCHANGED <<size, max, readers, writers, condVars, queue, event, taskVars>>

WCount(t) ==
  /\ At(t, "WCount")
  /\ writers' = writers + 1
  /\ Goto(t, IF mode[t] = "RW" THEN "BroadcastR" ELSE "BroadcastW")
  /\ UNCHANGED <<size, max, readers, hadWriter, condVars, queue, event,
                 taskVars>>

Broadcast_NotifyFirst(t, c) ==
  /\ At(t, IF c = "r" THEN "BroadcastR" ELSE "BroadcastW")
  /\ event' = [u \in Task |-> event[u] \/ u \in condQueue[c]]
  /\ Goto(t, IF c = "r" /\ mode[t] = "RW" THEN "BroadcastW" ELSE "OpenCheck")
  /\ UNCHANGED <<pipeVars, iops, signaled, condQueue, queue, taskVars>>

Broadcast(t, c) ==
  /\ At(t, IF c = "r" THEN "BroadcastR" ELSE "BroadcastW")
  /\ signaled' = [signaled EXCEPT ![c] = TRUE]
  /\ event' = [u \in Task |-> event[u] \/ u \in condQueue[c]]
  /\ Goto(t, IF c = "r" /\ mode[t] = "RW" THEN "BroadcastW" ELSE "OpenCheck")
  /\ UNCHANGED <<pipeVars, iops, condQueue, queue, taskVars>>

HasReaders == readers > 0
HasWriters == writers > 0

Peer(t) == IF mode[t] = "R" THEN "w" ELSE "r"

OpenCheck_NoClose(t) ==
  LET alone == CASE mode[t] = "R" -> ~HasWriters
                 [] mode[t] = "W" -> ~HasReaders
                 [] OTHER -> FALSE
      enxio == alone /\ nonblock[t] /\ mode[t] = "W"
  IN /\ At(t, "OpenCheck")
     /\ Goto(t, CASE enxio -> "Closed"
                  [] alone /\ ~nonblock[t] -> "CondWait"
                  [] OTHER -> "Open")
     /\ iops' = NoTask
     /\ UNCHANGED <<pipeVars, signaled, condQueue, queue, event, taskVars>>

OpenCheck(t) ==
  LET alone == CASE mode[t] = "R" -> ~HasWriters
                 [] mode[t] = "W" -> ~HasReaders
                 [] OTHER -> FALSE
      enxio == alone /\ nonblock[t] /\ mode[t] = "W"
  IN /\ At(t, "OpenCheck")
     /\ Goto(t, CASE enxio -> "WClose"
                  [] alone /\ ~nonblock[t] -> "CondWait"
                  [] OTHER -> "Open")
     /\ iops' = IF enxio THEN iops ELSE NoTask
     /\ UNCHANGED <<pipeVars, signaled, condQueue, queue, event, taskVars>>

(* Cond::Wait on the other end's Cond. *)

CondWait(t) ==
  LET c == Peer(t)
  IN /\ At(t, "CondWait")
     /\ IF signaled[c]
          THEN /\ Goto(t, "Open")
               /\ UNCHANGED <<condQueue, event>>
          ELSE /\ Goto(t, "CondCheck")
               /\ event' = [event EXCEPT ![t] = FALSE]
               /\ condQueue' = [condQueue EXCEPT ![c] = @ \cup {t}]
     /\ UNCHANGED <<pipeVars, iops, signaled, queue, taskVars>>

CondCheck(t) ==
  /\ At(t, "CondCheck")
  /\ res' = [res EXCEPT ![t] = "Ok"]
  /\ Goto(t, IF signaled[Peer(t)] THEN "CondLeave" ELSE "CondBlock")
  /\ UNCHANGED <<pipeVars, condVars, queue, event, mode, nonblock, op, want, count>>

CondWoken(t) ==
  /\ At(t, "CondBlock")
  /\ event[t]
  /\ event' = [event EXCEPT ![t] = FALSE]
  /\ Goto(t, "CondLeave")
  /\ UNCHANGED <<pipeVars, condVars, queue, taskVars>>

CondInterrupted(t) ==
  /\ At(t, "CondBlock")
  /\ res' = [res EXCEPT ![t] = "EINTR"]
  /\ Goto(t, "CondLeave")
  /\ UNCHANGED <<pipeVars, condVars, queue, event, mode, nonblock, op, want, count>>

(* EventUnregister; an interrupted open drops the file it had made. *)

CondLeave(t) ==
  /\ At(t, "CondLeave")
  /\ condQueue' = [condQueue EXCEPT ![Peer(t)] = @ \ {t}]
  /\ event' = [event EXCEPT ![t] = FALSE]
  /\ Goto(t, CASE res[t] = "Ok" -> "Open"
               [] mode[t] = "R" -> "RClose"
               [] OTHER -> "WClose")
  /\ UNCHANGED <<pipeVars, iops, signaled, queue, taskVars>>

-----------------------------------------------------------------------------
(* Drop of Reader, Writer and ReaderWriter. *)

StartClose(t) ==
  /\ At(t, "Open")
  /\ Goto(t, IF Reads(t) THEN "RClose" ELSE "WClose")
  /\ UNCHANGED <<pipeVars, condVars, queue, event, taskVars>>

AfterRClose(t) == IF mode[t] = "RW" THEN "WClose" ELSE "CloseNotify"

RClose(t) ==
  /\ At(t, "RClose")
  /\ readers' = readers - 1
  /\ Goto(t, IF readers = 1 THEN "RReset" ELSE AfterRClose(t))
  /\ UNCHANGED <<size, max, writers, hadWriter, condVars, queue, event,
                 taskVars>>

RReset(t) ==
  /\ At(t, "RReset")
  /\ signaled' = [signaled EXCEPT !["r"] = FALSE]
  /\ Goto(t, AfterRClose(t))
  /\ UNCHANGED <<pipeVars, iops, condQueue, queue, event, taskVars>>

WClose(t) ==
  /\ At(t, "WClose")
  /\ writers' = writers - 1
  /\ Goto(t, IF writers = 1 THEN "WReset" ELSE "CloseNotify")
  /\ UNCHANGED <<size, max, readers, hadWriter, condVars, queue, event,
                 taskVars>>

WReset(t) ==
  /\ At(t, "WReset")
  /\ signaled' = [signaled EXCEPT !["w"] = FALSE]
  /\ Goto(t, "CloseNotify")
  /\ UNCHANGED <<pipeVars, iops, condQueue, queue, event, taskVars>>

CloseMask_NoHup(t) ==
  CASE mode[t] = "R" -> WRITEABLE_EVENT
    [] mode[t] = "W" -> {}
    [] OTHER -> READABLE_EVENT \cup WRITEABLE_EVENT

CloseMask(t) ==
  CASE mode[t] = "R" -> WRITEABLE_EVENT
    [] mode[t] = "W" -> EVENT_HUP
    [] OTHER -> READABLE_EVENT \cup WRITEABLE_EVENT

CloseNotify(t) ==
  /\ At(t, "CloseNotify")
  /\ Notify(CloseMask(t))
  /\ Goto(t, "Closed")
  /\ mode' = [mode EXCEPT ![t] = "none"]
  /\ iops' = IF iops = t THEN NoTask ELSE iops
  /\ UNCHANGED <<pipeVars, signaled, condQueue, queue, nonblock, op, want, count,
                 res>>

-----------------------------------------------------------------------------
(* Pipe::Read and Pipe::Write, each one critical section of the pipe. *)

Available == max - size

ReadResult(n) ==
  CASE size > 0 -> [r |-> "Ok", n |-> Min({n, size})]
    [] size = 0 /\ ~HasWriters -> [r |-> "Ok", n |-> 0]
    [] OTHER -> [r |-> "EAGAIN", n |-> 0]

(* PipeInternal::Write, with a full pipe's Ok(0) for a long write. *)

BufferWrite(n) ==
  IF n > Available /\ n < AtomicIO
    THEN [r |-> "EAGAIN", n |-> 0]
    ELSE [r |-> "Ok", n |-> Min({n, Available})]

(* Pipe::Write and the WriteAt above it: Writer turns the Ok(0) of a full  *)
(* pipe into EAGAIN, ReaderWriter hands it on.                             *)

WriteResult(t, n) ==
  LET w == BufferWrite(n)
  IN CASE ~HasReaders -> [r |-> "EPIPE", n |-> 0]
       [] HasReaders /\ w.r = "Ok" /\ w.n = 0 /\ mode[t] = "W"
            -> [r |-> "EAGAIN", n |-> 0]
       [] OTHER -> w

-----------------------------------------------------------------------------
(* readv: one attempt, then register, try until nothing is left, block.    *)

StartCall(t, k, n) ==
  /\ At(t, "Open")
  /\ k \in Calls \cap {"read", "write", "splice"}
  /\ IF k = "read" THEN Reads(t) ELSE Writes(t)
  /\ op' = [op EXCEPT ![t] = k]
  /\ want' = [want EXCEPT ![t] = n]
  /\ count' = [count EXCEPT ![t] = 0]
  /\ res' = [res EXCEPT ![t] = "none"]
  /\ Goto(t, CASE k = "read" -> "ReadFirst"
               [] k = "splice" -> "SpliceCheck"
               [] k = "write" /\ nonblock[t] -> "Write"
               [] OTHER -> "Register")
  /\ UNCHANGED <<pipeVars, condVars, queue, event, mode, nonblock>>

ReadFirst(t) ==
  LET r == ReadResult(want[t])
  IN /\ At(t, "ReadFirst")
     /\ size' = size - r.n
     /\ count' = [count EXCEPT ![t] = r.n]
     /\ res' = [res EXCEPT ![t] = IF r.r = "EAGAIN" /\ ~nonblock[t]
                                    THEN "none" ELSE r.r]
     /\ Goto(t, CASE r.n > 0 -> "ReadFirstNotify"
                  [] r.r = "EAGAIN" /\ ~nonblock[t] -> "Register"
                  [] OTHER -> "Open")
     /\ UNCHANGED <<max, readers, writers, hadWriter, condVars, queue, event,
                    mode, nonblock, op, want>>

ReadFirstNotify(t) ==
  /\ At(t, "ReadFirstNotify")
  /\ Notify(WRITEABLE_EVENT)
  /\ Goto(t, "Open")
  /\ UNCHANGED <<pipeVars, condVars, queue, taskVars>>

(* EventRegister: the ReaderWriter has none of its own, the trait's does   *)
(* nothing.  A read has made its first attempt, a write has not.           *)

Register(t) ==
  /\ At(t, "Register")
  /\ queue' = IF mode[t] = "RW" THEN queue
              ELSE [queue EXCEPT ![t] = IF op[t] = "read" THEN EVENT_READ
                                        ELSE EVENT_WRITE]
  /\ Goto(t, IF op[t] = "read" THEN "Read" ELSE "Write")
  /\ UNCHANGED <<pipeVars, condVars, event, taskVars>>

Read(t) ==
  LET r == ReadResult(want[t] - count[t])
  IN /\ At(t, "Read")
     /\ size' = size - r.n
     /\ count' = [count EXCEPT ![t] = @ + r.n]
     /\ Goto(t, CASE r.n > 0 -> "ReadNotify"
                  [] r.r = "EAGAIN" /\ count[t] = 0 -> "Block"
                  [] OTHER -> "Unregister")
     /\ UNCHANGED <<max, readers, writers, hadWriter, condVars, queue, event,
                    mode, nonblock, op, want, res>>

ReadNotify(t) ==
  /\ At(t, "ReadNotify")
  /\ Notify(WRITEABLE_EVENT)
  /\ Goto(t, IF count[t] = want[t] THEN "Unregister" ELSE "Read")
  /\ UNCHANGED <<pipeVars, condVars, queue, taskVars>>

(* writev: a write that would block, or that wrote a part, blocks; without *)
(* blocking it is one attempt.                                             *)

Write(t) ==
  LET w == WriteResult(t, want[t] - count[t])
      done == count[t] + w.n = want[t]
  IN /\ At(t, "Write")
     /\ size' = size + w.n
     /\ count' = [count EXCEPT ![t] = @ + w.n]
     /\ res' = [res EXCEPT ![t] = IF w.r = "Ok" /\ w.n = 0 THEN "Zero" ELSE w.r]
     /\ Goto(t, CASE w.n > 0 -> "WriteNotify"
                  [] w.n = 0 /\ nonblock[t] -> "Open"
                  [] w.r = "EPIPE" /\ ~nonblock[t] -> "Unregister"
                  [] OTHER -> "Block")
     /\ UNCHANGED <<max, readers, writers, hadWriter, condVars, queue, event,
                    mode, nonblock, op, want>>

WriteNotify(t) ==
  /\ At(t, "WriteNotify")
  /\ Notify(READABLE_EVENT)
  /\ Goto(t, CASE nonblock[t] -> "Open"
               [] ~nonblock[t] /\ count[t] = want[t] -> "Unregister"
               [] OTHER -> "Block")
  /\ UNCHANGED <<pipeVars, condVars, queue, taskVars>>

(* BlockWithMonoTimer without a deadline. *)

Woken(t) ==
  /\ At(t, "Block")
  /\ event[t]
  /\ event' = [event EXCEPT ![t] = FALSE]
  /\ Goto(t, IF op[t] = "read" THEN "Read" ELSE "Write")
  /\ UNCHANGED <<pipeVars, condVars, queue, taskVars>>

Interrupted(t) ==
  /\ At(t, "Block")
  /\ Goto(t, "Unregister")
  /\ UNCHANGED <<pipeVars, condVars, queue, event, taskVars>>

Unregister(t) ==
  /\ At(t, "Unregister")
  /\ queue' = [queue EXCEPT ![t] = {}]
  /\ event' = IF mode[t] = "RW" THEN event ELSE [event EXCEPT ![t] = FALSE]
  /\ Goto(t, "Open")
  /\ UNCHANGED <<pipeVars, condVars, taskVars>>

-----------------------------------------------------------------------------
(* Pipe::ReadFrom: the room is read under the lock, the source without it, *)
(* and what the source gave is written under the lock again.  Without      *)
(* room DoSplice asks again, or returns when nothing may block.            *)

SpliceCheck(t) ==
  LET len == Min({Available, want[t]})
  IN /\ At(t, "SpliceCheck")
     /\ \/ /\ ~HasReaders
           /\ res' = [res EXCEPT ![t] = "EPIPE"]
           /\ Goto(t, "Open")
           /\ UNCHANGED count
        \/ /\ HasReaders /\ Available < AtomicIO /\ nonblock[t]
           /\ res' = [res EXCEPT ![t] = "EAGAIN"]
           /\ Goto(t, "Open")
           /\ UNCHANGED count
        \/ /\ HasReaders /\ Available >= AtomicIO
           /\ count' = [count EXCEPT ![t] = len]
           /\ Goto(t, "SpliceRead")
           /\ UNCHANGED res
     /\ UNCHANGED <<pipeVars, condVars, queue, event, mode, nonblock, op, want>>

SpliceRead(t, n) ==
  /\ At(t, "SpliceRead")
  /\ n <= count[t]
  /\ want' = [want EXCEPT ![t] = n]
  /\ Goto(t, "SpliceWrite")
  /\ UNCHANGED <<pipeVars, condVars, queue, event, mode, nonblock, op, count,
                 res>>

SpliceWrite(t) ==
  LET w == BufferWrite(want[t])
  IN /\ At(t, "SpliceWrite")
     /\ size' = size + w.n
     /\ res' = [res EXCEPT ![t] = IF w.n = want[t] THEN "Ok" ELSE "Short"]
     /\ Goto(t, IF w.n > 0 THEN "SpliceNotify" ELSE "Open")
     /\ UNCHANGED <<max, readers, writers, hadWriter, condVars, queue, event,
                    mode, nonblock, op, want, count>>

SpliceNotify(t) ==
  /\ At(t, "SpliceNotify")
  /\ Notify(READABLE_EVENT)
  /\ Goto(t, "Open")
  /\ UNCHANGED <<pipeVars, condVars, queue, taskVars>>

(* SetPipeSize, one critical section of the pipe's lock. *)

SetPipeSize(t, s) ==
  /\ At(t, "Open")
  /\ "resize" \in Calls
  /\ s >= size
  /\ max' = s
  /\ UNCHANGED <<size, readers, writers, hadWriter, condVars, queue, event, pc,
                 taskVars>>

-----------------------------------------------------------------------------
(* What the kernel goes on with by itself, and what the program asks for.  *)

Continue(t) ==
  \/ ROpen(t) \/ WOpen(t) \/ WCount(t)
  \/ Broadcast(t, "r") \/ Broadcast(t, "w")
  \/ OpenCheck(t) \/ CondWait(t) \/ CondCheck(t) \/ CondWoken(t) \/ CondLeave(t)
  \/ RClose(t) \/ RReset(t) \/ WClose(t) \/ WReset(t) \/ CloseNotify(t)
  \/ ReadFirst(t) \/ ReadFirstNotify(t) \/ Register(t)
  \/ Read(t) \/ ReadNotify(t) \/ Write(t) \/ WriteNotify(t)
  \/ Woken(t) \/ Unregister(t)
  \/ SpliceCheck(t) \/ SpliceWrite(t) \/ SpliceNotify(t)
  \/ \E n \in 0..Max(Sizes \cup Lengths) : SpliceRead(t, n)

Ask(t) ==
  \/ \E m \in {"R", "W", "RW"}, nb \in BOOLEAN : StartOpen(t, m, nb)
  \/ \E k \in Calls, n \in Lengths : StartCall(t, k, n)
  \/ \E s \in Sizes : SetPipeSize(t, s)
  \/ StartClose(t)
  \/ CondInterrupted(t) \/ Interrupted(t)

Next == \E t \in Task : Continue(t) \/ Ask(t)

Spec == Init /\ [][Next]_vars

(* The scheduler runs every task that can run (module Scheduler). *)

FairSpec == Spec /\ \A t \in Task : WF_vars(Continue(t))

-----------------------------------------------------------------------------
(* The panic of RClose and WClose, "Refcounting bug, pipe has negative     *)
(* readers": the counters are exactly the ends that are open or in between *)
(* being counted and uncounted, whatever opens fail and race with closes.  *)

EndsCounted ==
  /\ readers = Cardinality({t \in Task :
       /\ Reads(t)
       /\ pc[t] \notin {"ROpen", "RReset", "CloseNotify", "Closed"}
       /\ ~(mode[t] = "RW" /\ pc[t] \in {"WClose", "WReset"})})
  /\ writers = Cardinality({t \in Task :
       /\ Writes(t)
       /\ pc[t] \notin {"ROpen", "WOpen", "WCount", "WReset", "CloseNotify",
                        "Closed"}})

(* A task on its way to notify the pipe's queue with one of the events m. *)

Notifier(m) ==
  \E t \in Task :
    \/ pc[t] \in {"ReadFirstNotify", "ReadNotify"} /\ "OUT" \in m
    \/ pc[t] \in {"WriteNotify", "SpliceNotify"} /\ "IN" \in m
    \/ pc[t] \in ClosePc /\ CloseMask(t) \cap m # {}

CanRead == size > 0 \/ ~HasWriters
CanWrite(t) == ~HasReaders \/ BufferWrite(want[t] - count[t]).n > 0

(* No lost wakeup ("the caller may use EventRegister and EventUnregister   *)
(* to get notifications once the object becomes ready", waiter/mod.rs): a  *)
(* task that sleeps in read or write although its call could go on has its *)
(* event set or somebody is about to set it.  (SetPipeSize notifies no     *)
(* writer: while the pipe is larger than it was made one may sleep on.)    *)

SleeperNotified ==
  \A t \in Task :
    (pc[t] = "Block" /\ ~event[t]) =>
       IF op[t] = "read" THEN CanRead => Notifier(EVENT_READ)
                         ELSE CanWrite(t) /\ max = Min(Sizes) => Notifier(EVENT_WRITE)

(* The same for open, with one task at each end: a task that sleeps for    *)
(* the other end while that end is open has a broadcast coming.  (With two *)
(* tasks at one end the reset of the Cond by the one that closes, which    *)
(* takes no inode lock, may undo the broadcast of the one that opens.)     *)

OpenerNotified ==
  \A t \in Task :
    (/\ pc[t] = "CondBlock" /\ ~event[t]
     /\ IF mode[t] = "R" THEN HasWriters ELSE HasReaders) =>
       \E u \in Task : pc[u] \in {"BroadcastR", "BroadcastW"}

(* The end of file reaches a sleeping reader: when no writer is left it    *)
(* returns, unless a writer opens the pipe again.                          *)

EofSeen ==
  \A t \in Task :
    (pc[t] = "Block" /\ op[t] = "read" /\ ~HasWriters)
      ~> (pc[t] # "Block" \/ HasWriters)

=============================================================================
