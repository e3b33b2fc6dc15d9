----------------------------- MODULE RoundRobin -----------------------------
(***************************************************************************)
(* What the ready queue promises (kernel/task.cpp): the unfinished tasks   *)
(* form one ring.  The processor moves along it, a new task is placed      *)
(* right after the task that creates it, an exiting task is cut out and    *)
(* hands over to the one after it, and nothing else ever changes the order *)
(* of the others.                                                          *)
(***************************************************************************)
CONSTANTS Tasks, kMainKernelTask

VARIABLES
  ring,     \* for each task on the ring, the task after it
  running   \* the task that has the processor

OnRing == DOMAIN ring

Init ==
  /\ ring = [t \in {kMainKernelTask} |-> kMainKernelTask]
  /\ running = kMainKernelTask

\* The timer moves on.  With a single task on the ring this changes nothing.
Switch ==
  /\ running' = ring[running]
  /\ UNCHANGED ring

\* A new task goes between its creator and the creator's successor.
Create(c) ==
  /\ c \notin OnRing
  /\ ring' = [t \in OnRing \cup {c} |->
                IF t = running THEN c ELSE IF t = c THEN ring[running] ELSE ring[t]]
  /\ UNCHANGED running

\* The running task leaves; its successor runs.  The main task never does.
Exit ==
  /\ running # kMainKernelTask
  /\ ring' = [t \in OnRing \ {running} |->
                IF ring[t] = running THEN ring[running] ELSE ring[t]]
  /\ running' = ring[running]

Next == Switch \/ Exit \/ \E c \in Tasks : Create(c)

Spec == Init /\ [][Next]_<<ring, running>>
=============================================================================
