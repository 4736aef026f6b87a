---------------------------- MODULE MCQAsyncLock ----------------------------
(* A small instance of QAsyncLock for TLC. *)
EXTENDS QAsyncLock
=============================================================================
