---------------------------- MODULE UringSocket -----------------------------
(***************************************************************************)
(* A connected TCP socket of the guest (uring_socket.rs) over io_uring.    *)
(* Tasks read and write two rings (module RingBuf; socket_buf.rs); between *)
(* the rings and the host's socket runs at most one asynchronous read      *)
(* (AsyncFileRead) and one asynchronous send (AsyncSend, uring_async.rs),  *)
(* each a chain: its completion moves the ring and starts the next, and a  *)
(* chain that ended because its ring was full (or empty) is started again  *)
(* by the task that makes room (or data), which the trigger tells it.      *)
(*                                                                         *)
(* A step is one critical section of a ring's or the queue's lock, or one  *)
(* atomic access.  Bytes are numbered modulo Wrap in the order in which    *)
(* they enter, so that order and loss show.  The blocker is seen through   *)
(* what module Blocker shows; a deadline or a signal is Interrupted.       *)
(***************************************************************************)
EXTENDS RingBuf, SequencesExt

CONSTANTS
  Reader, Writer, Closer,   \* tasks, by the calls they make
  Groups,                   \* the sets of tasks that may have the socket
  Lengths,                  \* lengths of reads and writes
  Receives,                 \* "recv", "recvall", "peek" (RecvMsg), "read"
  Sends,                    \* "send" (SendMsg), "write" (WriteAt)
  Shutdowns,                \* "RD", "WR", "RDWR"
  Arrivals,                 \* results of the host's reads, 0 at end of file
  Handlers,                 \* completions that are processed at a time
  Errors                    \* whether the host's socket may fail

Task == Reader \cup Writer \cup Closer

ASSUME SocketAssumption ==
  /\ Byte = 0..Wrap - 1
  /\ Groups \subseteq SUBSET Task
  /\ Lengths \subseteq Nat
  /\ Receives \subseteq {"recv", "recvall", "peek", "read"}
  /\ Sends \subseteq {"send", "write"}
  /\ Shutdowns \subseteq {"RD", "WR", "RDWR"}
  /\ Arrivals \subseteq Nat /\ Handlers \in Nat \ {0}
  /\ Errors \in BOOLEAN

VARIABLES
  readBuf, writeBuf,        \* the rings
  reads, sends,             \* AsyncFileRead and AsyncSend operations
  received, delivered,      \* the next byte from the peer, and to a reader
  written, sent,            \* the next byte from a writer, and to the peer
  error, rClosed, wClosed, pendingWShutdown,
  hostW,                    \* the host's socket was shut for writing
  queue, event,             \* wait entries and general events, by task
  pc, op, want, count

recvVars == <<readBuf, reads, received, delivered>>
sendVars == <<writeBuf, sends, written, sent, hostW>>
flags == <<error, rClosed, wClosed, pendingWShutdown>>
callVars == <<op, want, count>>
vars == <<recvVars, sendVars, flags, queue, event, pc, callVars>>

READABLE_EVENT == {"IN"}
WRITEABLE_EVENT == {"OUT"}
EVENT_READ == {"IN", "HUP", "ERR"}
EVENT_WRITE == {"OUT", "HUP", "ERR"}
EVENT_PENDING_SHUTDOWN == {"SHUTDOWN"}
EventMask == SUBSET {"IN", "OUT", "HUP", "ERR", "SHUTDOWN"}

(* An operation: with the host ("host"), at HasReadData after an end of    *)
(* file ("eof"), at a Notify of mask, or at the test for a waiting         *)
(* Shutdown ("shut"); pos and len are the buffer of the (next) request.    *)

Operation ==
  [st : {"host", "eof", "notify", "shut"}, pos : 0..RingLen - 1,
   len : 0..RingLen, mask : EventMask]

Request(b) == [st |-> "host", pos |-> b.pos, len |-> b.len, mask |-> {}]

Pc == {"Out", "Idle", "RRegister", "Read", "IssueRead", "Block", "Leave",
       "WRegister", "Write", "WriteBuf", "SetPending", "SRegister",
       "SCheck", "SBlock", "SLeave", "Host", "SetClosed", "Hup"}

TypeOK ==
  /\ readBuf \in Ring /\ writeBuf \in Ring
  /\ reads \in Seq(Operation) /\ sends \in Seq(Operation)
  /\ {received, delivered, written, sent} \subseteq Byte
  /\ {error, rClosed, wClosed, pendingWShutdown, hostW} \subseteq BOOLEAN
  /\ queue \in [Task -> EventMask] /\ event \in [Task -> BOOLEAN]
  /\ pc \in [Task -> Pc]
  /\ want \in [Task -> Lengths \cup {0}]
  /\ \A t \in Task : count[t] \in 0..want[t]

(* PostConnect: the first read is started (BufSockInit). *)

Init ==
  /\ readBuf = NewRing(0) /\ writeBuf = NewRing(0)
  /\ reads = <<Request(GetSpaceBuf(NewRing(0)))>> /\ sends = <<>>
  /\ received = 0 /\ delivered = 0 /\ written = 0 /\ sent = 0
  /\ error = FALSE /\ rClosed = FALSE /\ wClosed = FALSE
  /\ pendingWShutdown = FALSE /\ hostW = FALSE
  /\ queue = [t \in Task |-> {}] /\ event = [t \in Task |-> FALSE]
  /\ \E g \in Groups : pc = [t \in Task |-> IF t \in g THEN "Idle" ELSE "Out"]
  /\ op = [t \in Task |-> "none"]
  /\ want = [t \in Task |-> 0] /\ count = [t \in Task |-> 0]

At(t, l) == pc[t] = l
Goto(t, l) == pc' = [pc EXCEPT ![t] = l]

(* Go on with the call at l with c bytes done; a call that is over leaves  *)
(* nothing behind.                                                         *)

GoOn(t, l, c) ==
  /\ Goto(t, l)
  /\ op' = IF l = "Idle" THEN [op EXCEPT ![t] = "none"] ELSE op
  /\ want' = IF l = "Idle" THEN [want EXCEPT ![t] = 0] ELSE want
  /\ count' = [count EXCEPT ![t] = IF l = "Idle" THEN 0 ELSE c]

Notify(m) == event' = [t \in Task |-> event[t] \/ queue[t] \cap m # {}]

Numbered(first, n) == [i \in 1..n |-> (first + i - 1) % Wrap]

-----------------------------------------------------------------------------
(* A completion is taken by one of the threads that process them. *)

Completes(o) ==
  /\ o.st = "host"
  /\ Cardinality({i \in DOMAIN reads : reads[i].st # "host"})
       + Cardinality({i \in DOMAIN sends : sends[i].st # "host"}) < Handlers

(* AsyncFileRead::Process.  What follows the notification: the next        *)
(* request, or the end of the chain.                                       *)

Advance(ops, i, o) ==
  IF o.mask # {} THEN [ops EXCEPT ![i] = o]
  ELSE IF o.len = 0 THEN RemoveAt(ops, i)
  ELSE [ops EXCEPT ![i] = [o EXCEPT !.st = "host"]]

(* The peer says something only to a group with a reader. *)
PeerSends == \E t \in Reader : pc[t] # "Out"

ReadDone_Silent(i, n) ==
  LET o == reads[i]
      p == Produce(CopyIn(readBuf, o.pos, Numbered(received, n)), n)
      b == GetSpaceBuf(p.ring)
  IN /\ Completes(o) /\ PeerSends /\ n \in 1..o.len
     /\ readBuf' = p.ring
     /\ received' = (received + n) % Wrap
     /\ reads' = Advance(reads, i,
                   [st |-> "notify", pos |-> b.pos, len |-> b.len,
                    mask |-> {}])
     /\ UNCHANGED <<delivered, sendVars, flags, queue, event, pc, callVars>>

ReadDone(i, n) ==
  LET o == reads[i]
      p == Produce(CopyIn(readBuf, o.pos, Numbered(received, n)), n)
      b == GetSpaceBuf(p.ring)
  IN /\ Completes(o) /\ PeerSends /\ n \in 1..o.len
     /\ readBuf' = p.ring
     /\ received' = (received + n) % Wrap
     /\ reads' = Advance(reads, i,
                   [st |-> "notify", pos |-> b.pos, len |-> b.len,
                    mask |-> IF p.trigger THEN READABLE_EVENT ELSE {}])
     /\ UNCHANGED <<delivered, sendVars, flags, queue, event, pc, callVars>>

ReadFailed(i) ==
  /\ Errors /\ PeerSends
  /\ Completes(reads[i])
  /\ error' = TRUE
  /\ reads' = [reads EXCEPT ![i].st = "notify", ![i].len = 0,
                            ![i].mask = {"ERR"} \cup READABLE_EVENT]
  /\ UNCHANGED <<readBuf, received, delivered, sendVars, rClosed, wClosed,
                 pendingWShutdown, queue, event, pc, callVars>>

ReadEof(i) ==
  /\ 0 \in Arrivals /\ PeerSends
  /\ Completes(reads[i])
  /\ rClosed' = TRUE
  /\ reads' = [reads EXCEPT ![i].st = "eof", ![i].len = 0]
  /\ UNCHANGED <<readBuf, received, delivered, sendVars, error, wClosed,
                 pendingWShutdown, queue, event, pc, callVars>>

ReadEofMask(i) ==
  /\ reads[i].st = "eof"
  /\ reads' = [reads EXCEPT ![i].st = "notify",
                 ![i].mask = IF AvailableDataSize(readBuf) > 0
                             THEN READABLE_EVENT ELSE {"HUP"}]
  /\ UNCHANGED <<readBuf, received, delivered, sendVars, flags, queue, event,
                 pc, callVars>>

ReadNotify(i) ==
  /\ reads[i].st = "notify"
  /\ Notify(reads[i].mask)
  /\ reads' = Advance(reads, i, [reads[i] EXCEPT !.mask = {}])
  /\ UNCHANGED <<readBuf, received, delivered, sendVars, flags, queue, pc,
                 callVars>>

-----------------------------------------------------------------------------
(* AsyncSend::Process.  A send of at least one byte does not return 0, so  *)
(* the branch for that is left out.                                        *)

AdvanceSend(i, o) ==
  IF o.mask = {} /\ o.len = 0 THEN [sends EXCEPT ![i] = [o EXCEPT !.st = "shut"]]
  ELSE Advance(sends, i, o)

SendDone(i, n) ==
  LET o == sends[i]
      c == Consume(writeBuf, n)
      b == GetDataBuf(c.ring)
  IN /\ Completes(o) /\ n \in 1..o.len
     /\ ~hostW
     /\ writeBuf' = c.ring
     /\ sent' = (sent + n) % Wrap
     /\ sends' = AdvanceSend(i,
                   [st |-> "notify", pos |-> b.pos, len |-> b.len,
                    mask |-> IF c.trigger THEN WRITEABLE_EVENT ELSE {}])
     /\ UNCHANGED <<recvVars, written, hostW, flags, queue, event, pc,
                    callVars>>

SendFailed(i) ==
  /\ Errors \/ hostW
  /\ Completes(sends[i])
  /\ error' = TRUE
  /\ sends' = [sends EXCEPT ![i].st = "notify", ![i].len = 0,
                            ![i].mask = {"ERR"} \cup READABLE_EVENT]
  /\ UNCHANGED <<recvVars, writeBuf, written, sent, hostW, rClosed, wClosed,
                 pendingWShutdown, queue, event, pc, callVars>>

SendNotify(i) ==
  /\ sends[i].st = "notify"
  /\ Notify(sends[i].mask)
  /\ sends' = LET o == [sends[i] EXCEPT !.mask = {}]
              IN IF "ERR" \in sends[i].mask THEN Advance(sends, i, o)
                 ELSE AdvanceSend(i, o)
  /\ UNCHANGED <<recvVars, writeBuf, written, sent, hostW, flags, queue, pc,
                 callVars>>

SendShut(i) ==
  /\ sends[i].st = "shut"
  /\ IF pendingWShutdown THEN Notify(EVENT_PENDING_SHUTDOWN)
     ELSE UNCHANGED event
  /\ sends' = RemoveAt(sends, i)
  /\ UNCHANGED <<recvVars, writeBuf, written, sent, hostW, flags, queue, pc,
                 callVars>>

-----------------------------------------------------------------------------
(* RecvMsg, and ReadAt of a file that does not block. *)

StartReceive(t, k, n) ==
  /\ At(t, "Idle") /\ t \in Reader
  /\ k \in Receives /\ n \in Lengths
  /\ k = "read" \/ ~rClosed          \* RecvMsg returns 0 at once
  /\ op' = [op EXCEPT ![t] = k]
  /\ want' = [want EXCEPT ![t] = n]
  /\ count' = [count EXCEPT ![t] = 0]
  /\ Goto(t, IF k = "read" THEN "Read" ELSE "RRegister")
  /\ UNCHANGED <<recvVars, sendVars, flags, queue, event>>

EventRegister(t, l, m, next) ==
  /\ At(t, l)
  /\ queue' = [queue EXCEPT ![t] = m]
  /\ Goto(t, next)
  /\ UNCHANGED <<recvVars, sendVars, flags, event, callVars>>

(* Where a call goes on once c bytes of it are done. *)

AfterRead(t, c) ==
  IF op[t] = "read" THEN "Idle"
  ELSE IF c = want[t] \/ op[t] = "peek" THEN "Leave" ELSE "Read"

AfterEmptyRead(t) ==
  IF op[t] = "read" THEN "Idle"
  ELSE IF \/ error \/ rClosed
          \/ count[t] > 0 /\ op[t] # "recvall"
          \/ count[t] = want[t]
       THEN "Leave" ELSE "Block"

(* SocketBuffIntern::Readv: with data and no room in the call, Consume(0)  *)
(* is called and its trigger dropped.                                      *)


Read(t) ==
  LET avail == AvailableDataSize(readBuf)
      n == Min({want[t] - count[t], avail})
      c == IF avail > 0 /\ op[t] # "peek" THEN Consume(readBuf, n)
           ELSE [ring |-> readBuf, trigger |-> FALSE]
  IN /\ At(t, "Read")
     /\ readBuf' = c.ring
     /\ delivered' = IF op[t] = "peek" THEN delivered
                     ELSE (delivered + n) % Wrap
     /\ GoOn(t, IF n = 0 THEN AfterEmptyRead(t)
                ELSE IF c.trigger THEN "IssueRead"
                ELSE AfterRead(t, count[t] + n), count[t] + n)
     /\ UNCHANGED <<reads, received, sendVars, flags, queue, event>>

(* RingFileRead: the chain of reads is started again. *)

IssueRead_SameBuf(t) ==
  /\ At(t, "IssueRead")
  /\ reads' = Append(reads, Request([pos |-> 0, len |-> 1]))
  /\ GoOn(t, AfterRead(t, count[t]), count[t])
  /\ UNCHANGED <<readBuf, received, delivered, sendVars, flags, queue, event>>

IssueRead(t) ==
  /\ At(t, "IssueRead")
  /\ reads' = Append(reads, Request(GetSpaceBuf(readBuf)))
  /\ GoOn(t, AfterRead(t, count[t]), count[t])
  /\ UNCHANGED <<readBuf, received, delivered, sendVars, flags, queue, event>>

Woken(t) ==
  /\ pc[t] \in {"Block", "SBlock"}
  /\ event[t]
  /\ event' = [event EXCEPT ![t] = FALSE]
  /\ Goto(t, IF At(t, "SBlock") THEN "SCheck"
             ELSE IF t \in Reader THEN "Read" ELSE "Write")
  /\ UNCHANGED <<recvVars, sendVars, flags, queue, callVars>>

Interrupted(t) ==
  /\ At(t, "Block")
  /\ Goto(t, "Leave")
  /\ UNCHANGED <<recvVars, sendVars, flags, queue, event, callVars>>

EventUnregister(t) ==
  /\ pc[t] \in {"Leave", "SLeave"}
  /\ queue' = [queue EXCEPT ![t] = {}]
  /\ event' = [event EXCEPT ![t] = FALSE]
  /\ GoOn(t, IF At(t, "SLeave") THEN "Host" ELSE "Idle", count[t])
  /\ UNCHANGED <<recvVars, sendVars, flags>>

-----------------------------------------------------------------------------
(* SendMsg, and WriteAt of a file that does not block. *)

StartSend(t, k, n) ==
  /\ At(t, "Idle") /\ t \in Writer
  /\ k \in Sends /\ n \in Lengths \ {0}
  /\ ~wClosed                        \* else EPIPE
  /\ op' = [op EXCEPT ![t] = k]
  /\ want' = [want EXCEPT ![t] = n]
  /\ count' = [count EXCEPT ![t] = 0]
  /\ Goto(t, IF k = "write" THEN "Write" ELSE "WRegister")
  /\ UNCHANGED <<recvVars, sendVars, flags, queue, event>>

Return(t) == IF op[t] = "write" THEN "Idle" ELSE "Leave"

(* SocketBuffIntern::Writev: the flags are read before the lock is taken;  *)
(* a trigger starts the chain of sends (SocketSend).                       *)

Write(t) ==
  /\ At(t, "Write")
  /\ GoOn(t, IF error \/ wClosed THEN Return(t) ELSE "WriteBuf", count[t])
  /\ UNCHANGED <<recvVars, sendVars, flags, queue, event>>

WriteBuf(t) ==
  LET n == Min({want[t] - count[t], AvailableSpace(writeBuf)})
      p == Produce(CopyIn(writeBuf, writeBuf.tail % RingLen,
                          Numbered(written, n)), n)
  IN /\ At(t, "WriteBuf")
     /\ IF n = 0
        THEN /\ UNCHANGED <<writeBuf, sends, written>>
             /\ GoOn(t, IF op[t] = "write" \/ count[t] > 0 THEN Return(t)
                        ELSE "Block", count[t])
        ELSE /\ writeBuf' = p.ring
             /\ written' = (written + n) % Wrap
             /\ sends' = IF p.trigger
                         THEN Append(sends, Request(GetDataBuf(p.ring)))
                         ELSE sends
             /\ GoOn(t, IF op[t] = "write" \/ count[t] + n = want[t]
                        THEN Return(t) ELSE "Write", count[t] + n)
     /\ UNCHANGED <<recvVars, sent, hostW, flags, queue, event>>

-----------------------------------------------------------------------------
(* Shutdown: what was written is sent before the host's socket is shut. *)

StartShutdown(t, how) ==
  /\ At(t, "Idle") /\ t \in Closer
  /\ op' = [op EXCEPT ![t] = how]
  /\ Goto(t, IF how # "RD" /\ AvailableDataSize(writeBuf) > 0
             THEN "SetPending" ELSE "Host")
  /\ UNCHANGED <<recvVars, sendVars, flags, queue, event, want, count>>

SetPendingWriteShutdown(t) ==
  /\ At(t, "SetPending")
  /\ pendingWShutdown' = TRUE
  /\ Goto(t, "SRegister")
  /\ UNCHANGED <<recvVars, sendVars, error, rClosed, wClosed, queue, event,
                 callVars>>

ShutdownCheck_Skipped(t) ==
  /\ At(t, "SCheck")
  /\ Goto(t, "SLeave")
  /\ UNCHANGED <<recvVars, sendVars, flags, queue, event, callVars>>

ShutdownCheck(t) ==
  /\ At(t, "SCheck")
  /\ Goto(t, IF AvailableDataSize(writeBuf) > 0 THEN "SBlock" ELSE "SLeave")
  /\ UNCHANGED <<recvVars, sendVars, flags, queue, event, callVars>>

HostShutdown(t) ==
  /\ At(t, "Host")
  /\ hostW' = (hostW \/ op[t] # "RD")
  /\ Goto(t, "SetClosed")
  /\ UNCHANGED <<recvVars, writeBuf, sends, written, sent, flags, queue, event,
                 callVars>>

HostShutdownFailed(t) ==
  /\ Errors /\ At(t, "Host")
  /\ GoOn(t, "Idle", 0)
  /\ UNCHANGED <<recvVars, sendVars, flags, queue, event>>

SetClosed(t) ==
  /\ At(t, "SetClosed")
  /\ rClosed' = (rClosed \/ op[t] # "WR")
  /\ wClosed' = (wClosed \/ op[t] # "RD")
  /\ Goto(t, "Hup")
  /\ UNCHANGED <<recvVars, sendVars, error, pendingWShutdown, queue, event,
                 callVars>>

NotifyHup(t) ==
  /\ At(t, "Hup")
  /\ Notify({"HUP"})
  /\ GoOn(t, "Idle", 0)
  /\ UNCHANGED <<recvVars, sendVars, flags, queue>>

-----------------------------------------------------------------------------
Handler ==
  \/ \E i \in DOMAIN reads : \/ ReadEofMask(i)
                             \/ ReadNotify(i)
  \/ \E i \in DOMAIN sends : \/ SendNotify(i)
                             \/ SendShut(i)

HostSend ==
  \E i \in DOMAIN sends : \/ \E n \in 1..RingLen : SendDone(i, n)
                          \/ SendFailed(i)

Host ==
  \/ \E i \in DOMAIN reads : \/ \E n \in Arrivals : ReadDone(i, n)
                             \/ ReadFailed(i)
                             \/ ReadEof(i)
  \/ HostSend

Continue(t) ==
  \/ EventRegister(t, "RRegister", EVENT_READ, "Read")
  \/ EventRegister(t, "WRegister", EVENT_WRITE, "Write")
  \/ EventRegister(t, "SRegister", EVENT_PENDING_SHUTDOWN, "SCheck")
  \/ Read(t) \/ IssueRead(t) \/ Woken(t) \/ EventUnregister(t)
  \/ Write(t) \/ WriteBuf(t)
  \/ SetPendingWriteShutdown(t) \/ ShutdownCheck(t) \/ HostShutdown(t)
  \/ HostShutdownFailed(t) \/ SetClosed(t) \/ NotifyHup(t)

Next ==
  \/ Handler \/ Host
  \/ \E t \in Task :
       \/ \E k \in Receives, n \in Lengths : StartReceive(t, k, n)
       \/ \E k \in Sends, n \in Lengths : StartSend(t, k, n)
       \/ \E how \in Shutdowns : StartShutdown(t, how)
       \/ Interrupted(t)
       \/ Continue(t)

Spec == Init /\ [][Next]_vars

(* The peer takes what is sent, completions are processed, and a task in   *)
(* Shutdown runs when it can (module Scheduler).                           *)

FairSpec ==
  Spec /\ WF_vars(HostSend) /\ WF_vars(Handler)
       /\ \A t \in Closer : WF_vars(Continue(t))

-----------------------------------------------------------------------------
(* The bytes in the rings are the ones that came in and have not left, in  *)
(* order; the buffer given to the host is the free space behind them       *)
(* (reads) or their first piece (sends), so that the host neither          *)
(* overwrites unread bytes nor sends one twice.                            *)

Requests(ops) == SelectSeq(ops, LAMBDA o : o.len > 0)

InOrder ==
  /\ Contents(readBuf) = Numbered(delivered, (received + Wrap - delivered) % Wrap)
  /\ Contents(writeBuf) = Numbered(sent, (written + Wrap - sent) % Wrap)
  /\ \A i \in DOMAIN Requests(reads) :
       LET o == Requests(reads)[i]
       IN o.pos = readBuf.tail % RingLen /\ o.len <= AvailableSpace(readBuf)
  /\ \A i \in DOMAIN Requests(sends) :
       LET o == Requests(sends)[i]
       IN o.pos = writeBuf.head % RingLen
          /\ o.len <= AvailableDataSize(writeBuf)

(* One chain on each side, and it does not stop while it has work: with    *)
(* room in the read ring (and no end of file or error) a read is with the  *)
(* host or about to be, and never for no bytes, which would come back as   *)
(* an end of file; with bytes in the write ring so is a send.              *)

OneChain ==
  LET r == Len(Requests(reads)) + Cardinality({t \in Task : At(t, "IssueRead")})
      s == Len(Requests(sends))
  IN /\ r <= 1 /\ s <= 1
     /\ r = 0 => AvailableSpace(readBuf) = 0 \/ rClosed \/ error
     /\ s = 0 => AvailableDataSize(writeBuf) = 0 \/ error
     /\ \A i \in DOMAIN reads : reads[i].st = "host" => reads[i].len > 0

(* No lost wakeup: a task that sleeps in RecvMsg, SendMsg or Shutdown      *)
(* although its call could go on has its event set, or somebody is about   *)
(* to notify it.  A Shutdown whose send failed is not woken.               *)

AboutToNotify(t) ==
  \/ \E i \in DOMAIN reads :
        reads[i].st = "eof" \/ reads[i].mask \cap queue[t] # {}
  \/ \E i \in DOMAIN sends :
        \/ sends[i].mask \cap queue[t] # {}
        \/ "SHUTDOWN" \in queue[t] /\ sends[i].len = 0
  \/ \E u \in Task : At(u, "Hup") /\ "HUP" \in queue[t]

CanGoOn(t) ==
  \/ At(t, "SBlock") /\ AvailableDataSize(writeBuf) = 0
  \/ /\ At(t, "Block")
     /\ \/ error
        \/ t \in Reader /\ (AvailableDataSize(readBuf) > 0 \/ rClosed)
        \/ t \in Writer /\ (AvailableSpace(writeBuf) > 0 \/ wClosed)

SleeperNotified ==
  \A t \in Task : CanGoOn(t) => event[t] \/ AboutToNotify(t)

(* ReadAt says end of file only when every byte was delivered: the data    *)
(* are looked at before rClosed.                                           *)


(* Shutdown sends what was written before it was called: when it shuts     *)
(* the host's socket every byte it found has been sent, and it does return *)
(* if the writers stop writing and no send fails.                          *)

ShutdownReturns ==
  /\ [][\A t \in Closer :
          At(t, "SCheck") /\ pc'[t] = "SLeave" => sent = written]_vars
  /\ <>[](\A w \in Writer : pc[w] \in {"Idle", "Out"}) =>
       \A t \in Closer : At(t, "SBlock") ~> (~At(t, "SBlock") \/ error)

=============================================================================
