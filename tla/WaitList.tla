------------------------------ MODULE WaitList ------------------------------
(***************************************************************************)
(* The lists of wait entries (waitlist.rs).  An entry is named by its      *)
(* task: the queues modelled hold a task's general entry.  Remove unlinks  *)
(* an entry by its neighbours; an entry without neighbours empties the     *)
(* head and tail of the list it is called on, whatever they point to.      *)
(***************************************************************************)
EXTENDS Naturals, Sequences, Functions

PushBack(q, t) == Append(q, t)

RemoveEntry(q, t) ==
  IF t \in Range(q)
  THEN LET i == CHOOSE j \in DOMAIN q : q[j] = t
       IN  SubSeq(q, 1, i - 1) \o SubSeq(q, i + 1, Len(q))
  ELSE <<>>
=============================================================================
