----------------------------- MODULE MCScheduler -----------------------------
(* Small instances of Scheduler for TLC. *)
EXTENDS Scheduler, TLC

\* Nothing tells the tasks apart (idleTask is none of them).
TaskSymmetry == Permutations(Task)

=============================================================================
