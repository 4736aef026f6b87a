---------------------------- MODULE BoundedFifo -----------------------------
(***************************************************************************)
(* What every byte buffer of the kernel promises (pipe buffers, the ring   *)
(* of a socket): bytes come out in the order they went in, none is lost,   *)
(* none is made up, and there are never more than the capacity inside.     *)
(***************************************************************************)
EXTENDS Naturals, Sequences

CONSTANTS
  Byte,
  Capacity

VARIABLES
  q,     \* the bytes inside
  out    \* the bytes the last Get delivered

Init == q = <<>> /\ out = <<>>

Put ==
  /\ \E n \in 1..Capacity - Len(q) :
       \E s \in [1..n -> Byte] : q' = q \o s
  /\ UNCHANGED out

Get ==
  \E n \in 1..Len(q) :
    /\ out' = SubSeq(q, 1, n)
    /\ q' = SubSeq(q, n + 1, Len(q))

Next == Put \/ Get

Spec == Init /\ [][Next]_<<q, out>>

=============================================================================
