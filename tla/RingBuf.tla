------------------------------ MODULE RingBuf -------------------------------
(***************************************************************************)
(* RingBuf (bytestream.rs), the ring behind a socket's ByteStream: a       *)
(* buffer of RingLen bytes, free-running u32 positions head and tail that  *)
(* wrap at Wrap (2^32, a multiple of RingLen), and two flags that say that *)
(* a side ran out: waitingRead when the ring was emptied, waitingWrite     *)
(* when it was filled.  Produce and Consume clear the other side's flag    *)
(* and return it: the trigger.                                             *)
(*                                                                         *)
(* The ring of a ByteStream is used under the stream's lock, so each       *)
(* operation is one step.                                                  *)
(***************************************************************************)
EXTENDS Naturals, Sequences, FiniteSetsExt

CONSTANTS RingLen, Wrap, Byte

ASSUME RingAssumption ==
  /\ RingLen \in Nat \ {0}
  /\ \E k \in 2..Wrap : Wrap = k * RingLen

Position == 0..Wrap - 1

Ring == [head : Position, tail : Position, buf : [0..RingLen - 1 -> Byte],
         waitingRead : BOOLEAN, waitingWrite : BOOLEAN]

NewRing(b) ==
  [head |-> 0, tail |-> 0, buf |-> [i \in 0..RingLen - 1 |-> b],
   waitingRead |-> TRUE, waitingWrite |-> FALSE]

AvailableDataSize(r) == (r.tail + Wrap - r.head) % Wrap
AvailableSpace(r) == RingLen - AvailableDataSize(r)

(* The first contiguous piece of the data, and of the space. *)

GetDataBuf(r) ==
  LET pos == r.head % RingLen
  IN [pos |-> pos, len |-> Min({AvailableDataSize(r), RingLen - pos})]

GetSpaceBuf(r) ==
  LET pos == r.tail % RingLen
  IN [pos |-> pos, len |-> Min({AvailableSpace(r), RingLen - pos})]

(* Bytes copied to a position of the buffer, around its end (the two iovs  *)
(* of PrepareSpaceIovs).                                                   *)

CopyIn(r, pos, s) ==
  [r EXCEPT !.buf = [i \in 0..RingLen - 1 |->
     LET k == (i + RingLen - pos) % RingLen
     IN IF k < Len(s) THEN s[k + 1] ELSE r.buf[i]]]

(* The first n bytes of the data (the two iovs of PrepareDataIovs). *)

CopyOut(r, n) == [i \in 1..n |-> r.buf[(r.head + i - 1) % RingLen]]

Contents(r) == CopyOut(r, AvailableDataSize(r))

Produce_NoFlag(r, n) ==
  LET moved == [r EXCEPT !.tail = (@ + n) % Wrap]
  IN [trigger |-> r.waitingRead,
      ring |-> [moved EXCEPT !.waitingRead = FALSE]]

Produce(r, n) ==
  LET moved == [r EXCEPT !.tail = (@ + n) % Wrap]
  IN [trigger |-> r.waitingRead,
      ring |-> [moved EXCEPT
                  !.waitingRead = FALSE,
                  !.waitingWrite = @ \/ AvailableSpace(moved) = 0]]

Consume(r, n) ==
  LET moved == [r EXCEPT !.head = (@ + n) % Wrap]
  IN [trigger |-> r.waitingWrite,
      ring |-> [moved EXCEPT
                  !.waitingRead = @ \/ AvailableDataSize(moved) = 0,
                  !.waitingWrite = FALSE]]

=============================================================================
