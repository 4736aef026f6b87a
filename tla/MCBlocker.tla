----------------------------- MODULE MCBlocker ------------------------------
(* One blocker for TLC: its calls follow one another without end.          *)
EXTENDS Blocker, TLC
=============================================================================
