------------------------------- MODULE MCPipe -------------------------------
(* The ends that the tasks of an instance may open. *)
EXTENDS Pipe, TLC

CONSTANTS t1, t2

OneEach == (t1 :> {"R"}) @@ (t2 :> {"W"})
=============================================================================
