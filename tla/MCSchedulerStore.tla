-------------------------- MODULE MCSchedulerStore --------------------------
(* Writers and tasks are interchangeable. *)
EXTENDS SchedulerStore, TLC

Alike == Permutations(Writers) \cup Permutations(Tasks)
=============================================================================
