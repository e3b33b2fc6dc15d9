---------------------------- MODULE MCReadyQueue ----------------------------
(* The linked list with three kernel tasks and three user tasks, for TLC. *)
EXTENDS ReadyQueue, TLC

CONSTANTS k1, k2, k3, u1, u2, u3

MCKernelTasks == {k1, k2, k3}

MCUserTasks == {u1, u2, u3}
=============================================================================
