------------------------------ MODULE MCFutex -------------------------------
(* Small instances of Futex for TLC: three tasks on one word, bitsets, and *)
(* requeues and wake-ops between two words with different locks.           *)
EXTENDS Futex

CONSTANTS t1, t2, t3

Distinct == [k \in Key |-> IF k = "a" THEN 0 ELSE 1]

Uses ==
  {[tasks |-> {t1, t2, t3}, keys |-> {"a"}, bits |-> {1},
    kinds |-> {"wait", "store"}],
   [tasks |-> {t1, t2}, keys |-> {"a"}, bits |-> {1, 2},
    kinds |-> {"wait", "wake", "store"}],
   [tasks |-> {t1, t2}, keys |-> {"a", "b"}, bits |-> {1},
    kinds |-> {"wait", "requeue", "error"}],
   [tasks |-> {t1, t2}, keys |-> {"a", "b"}, bits |-> {1},
    kinds |-> {"wait", "wakeop", "error"}]}
=============================================================================
