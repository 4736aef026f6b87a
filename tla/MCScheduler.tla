---------------------------- MODULE MCScheduler ----------------------------
(* Scheduler with small sets of tasks and vcpus for TLC. *)
EXTENDS Scheduler, TLC

TaskSymmetry == Permutations(Task)
=============================================================================
