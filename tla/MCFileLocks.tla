----------------------------- MODULE MCFileLocks -----------------------------
(* Small instances of FileLocks for TLC: two tasks that lock for an owner  *)
(* each, and lengths of either sign.                                       *)
EXTENDS FileLocks

Owner == [t \in Task |-> IF t = "a" THEN "A" ELSE "B"]
Lengths == {-1, 0, 1, 2}
=============================================================================
