----------------------------- MODULE ReadyQueue -----------------------------
(***************************************************************************)
(* The ready queue of kernel/task.cpp as the linked list it is: nodes,     *)
(* next pointers, and the stores of AddToQueue and schedule() in the order *)
(* of the code.                                                            *)
(*                                                                         *)
(* schedule() runs with interrupts off and is one step.  AddToQueue does   *)
(* not turn them off: called from a system call it is one step, called by  *)
(* the main task the timer can come between its two stores, and the tasks  *)
(* that then run may exit.  The main task calls it for the kernel tasks of *)
(* kernel/tests.cpp, others of which may be on the queue, and then once,   *)
(* alone on the queue, for the entry task.                                 *)
(*                                                                         *)
(* A node is named by its task.  kfree leaves the node's words as they are *)
(* (Free writes only chunk headers), so a freed node keeps its next.       *)
(***************************************************************************)
EXTENDS Naturals, Sequences, FiniteSets

CONSTANTS
  KernelTasks,      \* the tasks made by kernel/tests.cpp
  UserTasks,        \* the entry task and those made by create_user_task
  kMainKernelTask,
  Null              \* the null pointer

Workers == KernelTasks \cup UserTasks

ASSUME /\ KernelTasks \cap UserTasks = {}
       /\ kMainKernelTask \notin Workers
       /\ Null \notin Workers \cup {kMainKernelTask}

Tasks == Workers \cup {kMainKernelTask}

VARIABLES
  ReadyQueue,   \* pointer to the first node
  next,         \* the next pointer of each task's node
  CurrentTask,
  state,        \* state_, or "none" when the task does not exist
  item,         \* the node the main task is linking in AddToQueue, or Null
  tested,       \* RunTests is over: the main task has made the entry task
  torn          \* a freed node was put on the list

vars == <<ReadyQueue, next, CurrentTask, state, item, tested, torn>>

Init ==
  /\ ReadyQueue = kMainKernelTask
  /\ next = [t \in Tasks |-> Null]
  /\ CurrentTask = kMainKernelTask
  /\ state = [t \in Tasks |-> IF t = kMainKernelTask THEN "RUNNING" ELSE "none"]
  /\ item = Null
  /\ tested = FALSE /\ torn = FALSE

\* The nodes met from node h on, until a null pointer.  A list without a cycle
\* has at most as many nodes as there are tasks; one more shows a cycle.
List(h, nx) ==
  LET most == Cardinality(Tasks) + 1
      hop  == [n \in Tasks \cup {Null} |-> IF n = Null THEN Null ELSE nx[n]]
      node[k \in 1..most] == IF k = 1 THEN h ELSE hop[node[k - 1]]
  IN  [k \in 1..Cardinality({k \in 1..most : node[k] # Null}) |-> node[k]]

Queue == List(ReadyQueue, next)

-----------------------------------------------------------------------------

\* Rotation: the front node's successor becomes the front, the last node points
\* to the old front, which now ends the list.
Rotated == LET last == Queue[Len(Queue)] IN
  [head |-> next[ReadyQueue],
   next |-> [next EXCEPT ![last] = ReadyQueue, ![ReadyQueue] = Null]]

\* schedule(regs): does nothing with a single node.
ScheduleFromTimer ==
  /\ ~torn
  /\ next[ReadyQueue] # Null
  /\ ReadyQueue' = Rotated.head
  /\ next' = Rotated.next
  /\ CurrentTask' = ReadyQueue
  /\ state' = [state EXCEPT ![ReadyQueue] = "RUNNING"]
  /\ UNCHANGED <<item, tested, torn>>

\* Mutant: the node before the exiting task's is not relinked.
UnlinkHeadOnly(head, nx, task) ==
  IF head = task THEN [head |-> nx[head], next |-> nx] ELSE [head |-> head, next |-> nx]

\* The search for the node of a task and its removal; the node's own next stays.
Unlink(head, nx, task) ==
  IF head = task THEN [head |-> nx[head], next |-> nx]
  ELSE LET q    == List(head, nx)
           prev == q[CHOOSE i \in 1..(Len(q) - 1) :
                       q[i + 1] = task /\ \A j \in 1..i : q[j] # task]
       IN  [head |-> head, next |-> [nx EXCEPT ![prev] = nx[task]]]

\* exit_this_task: schedule(nullptr), which frees the node.
ScheduleFromExit ==
  /\ ~torn
  /\ CurrentTask # kMainKernelTask
  /\ next[ReadyQueue] # Null
  /\ LET rest == Unlink(Rotated.head, Rotated.next, CurrentTask)
     IN  /\ ReadyQueue' = rest.head
         /\ next' = rest.next
  /\ CurrentTask' = ReadyQueue
  /\ state' = [state EXCEPT ![CurrentTask] = "COMPLETED", ![ReadyQueue] = "RUNNING"]
  /\ UNCHANGED <<item, tested, torn>>

\* AddToQueue in a system call, interrupts off.
AddToQueueInSyscall(c) ==
  /\ ~torn
  /\ CurrentTask \in UserTasks
  /\ c \in UserTasks /\ state[c] = "none"
  /\ state' = [state EXCEPT ![c] = "READY"]
  /\ next' = [next EXCEPT ![c] = ReadyQueue]
  /\ ReadyQueue' = c
  /\ UNCHANGED <<CurrentTask, item, tested, torn>>

\* The main task constructs kernel tasks while RunTests runs, whatever is on the
\* queue; the entry task comes after RunTests, whose tasks are all gone.
Constructs(c) ==
  /\ CurrentTask = kMainKernelTask /\ item = Null /\ ~tested
  /\ state[c] = "none"
  /\ c \in UserTasks => \A w \in Workers : state[w] = "none"

\* Mutant: the new node is linked to the second node, if there is one.
LinkToSecond(c) ==
  /\ ~torn
  /\ Constructs(c)
  /\ state' = [state EXCEPT ![c] = "READY"]
  /\ next' = [next EXCEPT ![c] = IF next[ReadyQueue] = Null THEN ReadyQueue ELSE next[ReadyQueue]]
  /\ item' = c
  /\ tested' = (c \in UserTasks)
  /\ UNCHANGED <<ReadyQueue, CurrentTask, torn>>

\* AddToQueue by the main task: item->next = ReadyQueue.
AddToQueueLink(c) ==
  /\ ~torn
  /\ Constructs(c)
  /\ state' = [state EXCEPT ![c] = "READY"]
  /\ next' = [next EXCEPT ![c] = ReadyQueue]
  /\ item' = c
  /\ tested' = (c \in UserTasks)
  /\ UNCHANGED <<ReadyQueue, CurrentTask, torn>>

\* AddToQueue by the main task: ReadyQueue = item.  Nothing reads item->next
\* again: the node it names may have been freed since.
AddToQueuePublish ==
  /\ ~torn
  /\ CurrentTask = kMainKernelTask /\ item # Null
  /\ ReadyQueue' = item
  /\ item' = Null
  /\ torn' = (state[next[item]] \notin {"READY", "RUNNING"})
  /\ UNCHANGED <<next, CurrentTask, state, tested>>

\* The owner of a finished task has joined it and deletes the object: the main
\* task a kernel task and the entry task, the task that made it any other.
Delete(c) ==
  /\ ~torn
  /\ CurrentTask = kMainKernelTask => item = Null
  /\ c \in KernelTasks => CurrentTask = kMainKernelTask
  /\ c # CurrentTask
  /\ state[c] = "COMPLETED"
  /\ state' = [state EXCEPT ![c] = "none"]
  /\ UNCHANGED <<ReadyQueue, next, CurrentTask, item, tested, torn>>

\* DestroyScheduler, with the main task's node alone; or a list through freed
\* memory, on which the kernel's further steps are not followed.
Stopped ==
  /\ torn \/ (tested /\ \A w \in Workers : state[w] = "none")
  /\ UNCHANGED vars

Next ==
  \/ ScheduleFromTimer
  \/ ScheduleFromExit
  \/ AddToQueuePublish
  \/ \E c \in Workers : AddToQueueInSyscall(c) \/ AddToQueueLink(c) \/ Delete(c)
  \/ Stopped

Spec == Init /\ [][Next]_vars

-----------------------------------------------------------------------------

Members(q) == {q[i] : i \in 1..Len(q)}

\* The list ends, meets no node twice, ends with the running task, and holds the
\* node of every unfinished task (bar the one still being linked) and no freed
\* node: in AddToQueue the main task finds the front it copied at the front
\* again, however often the timer came in between and whichever other tasks
\* exited.  The exception is the exit of the front task itself (torn).
ListExact ==
  ~torn =>
    LET q == Queue IN
    /\ \A i, j \in 1..Len(q) : q[i] = q[j] => i = j
    /\ q[Len(q)] = CurrentTask
    /\ Members(q) = {t \in Tasks : state[t] \in {"READY", "RUNNING"}} \ {item}

\* exit_this_task removes the task: no finished task is on the list afterwards.
FinishedIsRemoved == \A t \in Members(Queue) : state[t] # "COMPLETED"

Position(q, t) == CHOOSE i \in 1..Len(q) : q[i] = t

\* The list read as a ring: each node's task, then the next one's, the last
\* node's followed by the first's.
RingOf(q) == [t \in Members(q) |-> q[(Position(q, t) % Len(q)) + 1]]

Ring == INSTANCE RoundRobin WITH ring <- RingOf(Queue), running <- CurrentTask

\* The pointer manipulation of AddToQueue and schedule() implements the ring, up
\* to the store that puts a freed node on the list.
ImplementsRing == Ring!Init /\ [][torn' \/ Ring!Next]_<<RingOf(Queue), CurrentTask>>
=============================================================================
