----------------------------- MODULE PipeBuffer -----------------------------
(***************************************************************************)
(* The contents of a pipe: PipeInternal.data and size (pipe.rs), a list of *)
(* buffers (buffer.rs), each filled once from its front and read once from *)
(* its front.  The pipe's lock is held through a whole Read or Write; the  *)
(* steps here are the turns of their loops.                                *)
(***************************************************************************)
EXTENDS Naturals, FiniteSetsExt, SequencesExt

CONSTANTS
  Byte,
  MaxSize,        \* PipeInternal.max
  PIPE_BUF_SIZE,  \* the length of one buffer
  AtomicIO        \* 4096: shorter writes are all or nothing

ASSUME PipeBufferAssumption ==
  /\ PIPE_BUF_SIZE \in Nat \ {0}
  /\ AtomicIO \in Nat \ {0} /\ MaxSize \in Nat /\ MaxSize >= AtomicIO

VARIABLES
  data,   \* the list of buffers
  size,
  src,    \* what the Write in progress has still to copy in
  dst,    \* how much the Read in progress has still to copy out
  out     \* what the last turn of Read copied

vars == <<data, size, src, dst, out>>

(* BufferIntern: the bytes written so far, and how many are read. *)

NewBuff == [bytes |-> <<>>, read |-> 0]
Full(b) == Len(b.bytes) = PIPE_BUF_SIZE
Empty(b) == b.read = Len(b.bytes)
Count(b) == Len(b.bytes) - b.read
Unread(b) == SubSeq(b.bytes, b.read + 1, Len(b.bytes))

Strings(n) == UNION {[1..k -> Byte] : k \in 1..n}

TypeOK ==
  /\ \A i \in DOMAIN data : /\ Len(data[i].bytes) \in 0..PIPE_BUF_SIZE
                            /\ data[i].read \in 0..Len(data[i].bytes)
  /\ size \in 0..MaxSize
  /\ Len(src) <= MaxSize - size
  /\ dst \in 0..size
  /\ Len(out) <= PIPE_BUF_SIZE

Init ==
  /\ data = <<>>
  /\ size = 0
  /\ src = <<>>
  /\ dst = 0
  /\ out = <<>>

Idle == src = <<>> /\ dst = 0

Available == MaxSize - size

(* PipeInternal::Write up to its loop. *)

StartWrite(s) ==
  /\ Idle
  /\ Len(s) > Available => Len(s) >= AtomicIO
  /\ src' = SubSeq(s, 1, Min({Len(s), Available}))
  /\ UNCHANGED <<data, size, dst, out>>

(* One turn: a new buffer when there is none or the last is full, and as   *)
(* much of the rest as the buffer takes (WriteFromBlocks).                 *)

WriteTurn_Front ==
  LET fresh == data = <<>> \/ Full(Last(data))
      b == IF fresh THEN NewBuff ELSE Last(data)
      n == Min({Len(src), PIPE_BUF_SIZE - Len(b.bytes)})
      filled == [b EXCEPT !.bytes = @ \o SubSeq(src, 1, n)]
  IN /\ src # <<>>
     /\ data' = IF fresh THEN <<filled>> \o data ELSE Front(data) \o <<filled>>
     /\ size' = size + n
     /\ src' = SubSeq(src, n + 1, Len(src))
     /\ UNCHANGED <<dst, out>>

WriteTurn ==
  LET fresh == data = <<>> \/ Full(Last(data))
      b == IF fresh THEN NewBuff ELSE Last(data)
      n == Min({Len(src), PIPE_BUF_SIZE - Len(b.bytes)})
      filled == [b EXCEPT !.bytes = @ \o SubSeq(src, 1, n)]
  IN /\ src # <<>>
     /\ data' = (IF fresh THEN data ELSE Front(data)) \o <<filled>>
     /\ size' = size + n
     /\ src' = SubSeq(src, n + 1, Len(src))
     /\ UNCHANGED <<dst, out>>

(* Pipe::Read up to its loop, and one turn (ReadToBlocks). *)

StartRead(n) ==
  /\ Idle
  /\ size > 0
  /\ dst' = Min({n, size})
  /\ UNCHANGED <<data, size, src, out>>

ReadTurn ==
  LET first == Head(data)
      n == Min({dst, Count(first)})
      taken == [first EXCEPT !.read = @ + n]
  IN /\ dst > 0
     /\ out' = SubSeq(Unread(first), 1, n)
     /\ data' = (IF Empty(taken) THEN <<>> ELSE <<taken>>) \o Tail(data)
     /\ size' = size - n
     /\ dst' = dst - n
     /\ UNCHANGED src

(* ReadWithoutConsume (tee): the walk over the buffers, from buffer i on,  *)
(* that copies n bytes and reads on in the next buffer after the last.     *)

ReadWithoutConsume_SameBuf(n) ==
  LET Walk[i \in 1..Len(data) + 1, left \in 0..MaxSize] ==
        IF left = 0 \/ i > Len(data) THEN <<>>
        ELSE LET k == Min({left, Count(data[i])})
             IN SubSeq(Unread(data[i]), 1, k)
                  \o Walk[i, left - k]
  IN Walk[1, Min({n, size})]

ReadWithoutConsume(n) ==
  LET Walk[i \in 1..Len(data) + 1, left \in 0..MaxSize] ==
        IF left = 0 \/ i > Len(data) THEN <<>>
        ELSE LET k == Min({left, Count(data[i])})
             IN SubSeq(Unread(data[i]), 1, k)
                  \o Walk[IF k = Count(data[i]) THEN i + 1 ELSE i, left - k]
  IN Walk[1, Min({n, size})]

Next ==
  \/ \E s \in Strings(MaxSize + 1) : StartWrite(s)
  \/ WriteTurn
  \/ \E n \in 1..MaxSize + 1 : StartRead(n)
  \/ ReadTurn

Spec == Init /\ [][Next]_vars

-----------------------------------------------------------------------------
Contents == FlattenSeq([i \in DOMAIN data |-> Unread(data[i])])

(* The buffers are a bounded FIFO: every turn of Write and Read appends    *)
(* to the unread bytes or takes from their front.                          *)

Fifo == INSTANCE BoundedFifo WITH q <- Contents, Capacity <- MaxSize

ImplementsFifo == Fifo!Spec

(* A tee sees exactly what a read of n bytes would take: ReadWithoutConsume *)
(* walks over partly filled and partly read buffers without changing them,  *)
(* at every point between two turns of Read and Write.                      *)
PeekIsRead ==
  \A n \in 1..MaxSize + 1 :
    ReadWithoutConsume(n) = SubSeq(Contents, 1, Min({n, Len(Contents)}))
=============================================================================
