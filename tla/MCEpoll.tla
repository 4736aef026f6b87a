------------------------------ MODULE MCEpoll -------------------------------
(* A small instance of Epoll for TLC: one task is in WaitEpoll, with or    *)
(* without a timeout of 0, another polls the epoll object.                 *)
EXTENDS Epoll, TLC

CONSTANTS t1, t2

CallsOf == t1 :> {"wait", "try"} @@ t2 :> {"avail"}
=============================================================================
