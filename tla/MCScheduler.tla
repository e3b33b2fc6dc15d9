---------------------------- MODULE MCScheduler ----------------------------
(* The scheduler with a few user tasks, for TLC. *)
EXTENDS Scheduler

CONSTANTS u1, u2, u3

MCUserTasks == {u1, u2}
MCThreeUserTasks == {u1, u2, u3}
=============================================================================
