------------------------------ MODULE Scheduler ------------------------------
(***************************************************************************)
(* The task scheduler of the kernel (kernel/task.cpp, kernel/timer.cpp,    *)
(* kernel/task.S) as the boot path and the user programs drive it: the     *)
(* ready queue, the timer quantum, the first run and the resumption of a   *)
(* task, exit, and the destruction of a task by the one that holds its     *)
(* handle.                                                                 *)
(*                                                                         *)
(* One processor.  A system call enters through an interrupt gate and runs *)
(* with interrupts off, so it is one step; destroy_user_task turns them on *)
(* again around the destructor, so it is several.  Every state between two *)
(* steps has interrupts on unless the kernel has halted.                   *)
(*                                                                         *)
(* AddToQueue is one step here: a user task runs it inside a system call,  *)
(* and the main task runs it (outside kernel/tests.cpp) only while it is   *)
(* alone on the queue.  ReadyQueue.tla has it as the two stores it is.     *)
(***************************************************************************)
EXTENDS Naturals, Sequences

CONSTANTS
  UserTasks,        \* the UserTask objects that can exist at one time
  kMainKernelTask,  \* the kernel's first task
  NoTask,           \* a null Task pointer
  kQuanta           \* timer ticks between two calls of schedule

ASSUME TaskAssumption ==
  /\ kMainKernelTask \notin UserTasks
  /\ NoTask \notin UserTasks \cup {kMainKernelTask}

ASSUME QuantaAssumption == kQuanta \in Nat \ {0}

Tasks == UserTasks \cup {kMainKernelTask}

TaskState == {"READY", "RUNNING", "COMPLETED"}

\* Where a task's own code is.  "run": a user program in ring 3; "join" and
\* "reclaim": inside a destructor, before and after Join returned.  The main
\* task goes "setup", "ctor" (the entry task is queued, its code page is not
\* there yet), "join", "reclaim", "end" (KernelEnd), "off".
Place == {"setup", "ctor", "run", "join", "reclaim", "end", "off"}

\* Why the machine stopped: it loops with interrupts off, or was powered off.
Halt == {"no", "page fault", "assert childless", "assert alone", "shutdown"}

VARIABLES
  ReadyQueue,  \* the linked list, front first, as a sequence of tasks
  CurrentTask,
  state,       \* state_ of each Task object; "none" when there is no object
  user_in_kernel_space,
  parent,      \* parent_task_
  code,        \* has the page at USER_START been mapped and filled?
  place,
  joined,      \* the task whose destructor this task is running
  tick,        \* tick % kQuanta: nothing else of tick is ever read
  cpl,         \* the ring the processor runs in: 0 or 3
  esp0,        \* whose kernel stack the TSS names
  cr3,         \* whose page directory is loaded
  halt

vars == <<ReadyQueue, CurrentTask, state, user_in_kernel_space, parent, code,
          place, joined, tick, cpl, esp0, cr3, halt>>

isUserTask(t) == t \in UserTasks

Queued == {ReadyQueue[i] : i \in 1..Len(ReadyQueue)}

\* Mutant: a task never learns of its children.
NoChildren(t) == {}

\* child_tasks_ of t: the objects constructed with t current, not yet deleted.
child_tasks(t) == {c \in UserTasks : state[c] # "none" /\ parent[c] = t}

Running == halt = "no"

Init ==
  /\ ReadyQueue = <<kMainKernelTask>>
  /\ CurrentTask = kMainKernelTask
  /\ state = [t \in Tasks |-> IF t = kMainKernelTask THEN "RUNNING" ELSE "none"]
  /\ \E garbage \in BOOLEAN :  \* no constructor sets the flag
       user_in_kernel_space = [t \in Tasks |-> t = kMainKernelTask /\ garbage]
  /\ parent = [t \in Tasks |-> NoTask]
  /\ code = [t \in Tasks |-> FALSE]
  /\ place = [t \in Tasks |-> IF t = kMainKernelTask THEN "setup" ELSE "run"]
  /\ joined = [t \in Tasks |-> NoTask]
  /\ tick \in 0..kQuanta - 1
  /\ cpl = 0
  /\ esp0 = NoTask
  /\ cr3 = kMainKernelTask
  /\ halt = "no"

-----------------------------------------------------------------------------
(* schedule() *)

\* Mutant: the front node is put back behind the second one, not at the end.
RotateFront(q) == <<q[2], q[1]>> \o SubSeq(q, 3, Len(q))

\* The front node goes to the end of the list; its task runs next.
Rotate(q) == Append(Tail(q), Head(q))

\* Mutant: the exiting task's node stays on the list.
UnlinkNothing(q, t) == q

\* Unlinks the first node of task t.
Unlink(q, t) ==
  LET i == CHOOSE i \in 1..Len(q) : q[i] = t /\ \A j \in 1..(i - 1) : q[j] # t
  IN  [j \in 1..(Len(q) - 1) |-> IF j < i THEN q[j] ELSE q[j + 1]]

\* Mutant: the flag of the task left behind is only ever raised.
KeepFlag == user_in_kernel_space

\* The flag of the task left behind is dropped before the next task's is read.
ClearFlag == [user_in_kernel_space EXCEPT ![CurrentTask] = FALSE]

\* The rest of schedule() once the flag of the task left behind is settled:
\* SetupBeforeTaskRun, SwitchPageDirectory and the jump.  A first run takes its
\* ring from the frame the constructor built; a resumed task is sent to ring 3
\* only if it is a user task that was not interrupted in kernel space.
SwitchTo(task, flags) ==
  /\ esp0' = IF isUserTask(task) THEN task ELSE esp0
  /\ cr3' = task
  /\ CurrentTask' = task
  /\ cpl' = IF isUserTask(task) /\ (state[task] = "READY" \/ ~flags[task])
            THEN 3 ELSE 0

\* schedule(regs), from the timer.
ScheduleFromTimer ==
  LET task == Head(ReadyQueue)
  IN  /\ ReadyQueue' = Rotate(ReadyQueue)
      /\ user_in_kernel_space' =
           IF isUserTask(CurrentTask) /\ cpl = 0
           THEN [ClearFlag EXCEPT ![CurrentTask] = TRUE] ELSE ClearFlag
      /\ SwitchTo(task, ClearFlag)
      /\ state' = [state EXCEPT ![task] = "RUNNING"]

\* schedule(nullptr), from exit_this_task: the current task's node goes too.
ScheduleFromExit ==
  LET task == Head(ReadyQueue)
  IN  /\ ReadyQueue' = Unlink(Rotate(ReadyQueue), CurrentTask)
      /\ user_in_kernel_space' = ClearFlag
      /\ SwitchTo(task, ClearFlag)
      /\ state' = [state EXCEPT ![CurrentTask] = "COMPLETED", ![task] = "RUNNING"]

\* Mutant: the count starts over at 1, and never comes to 0.
TickFromOne == (tick % (kQuanta - 1)) + 1

NextTick == (tick + 1) % kQuanta

\* TimerCallback: every kQuanta-th tick calls schedule(), which returns at once
\* when there is a single node.
TimerCallback ==
  /\ Running
  /\ tick' = NextTick
  /\ IF NextTick = 0 /\ Len(ReadyQueue) > 1
     THEN ScheduleFromTimer
     ELSE UNCHANGED <<ReadyQueue, user_in_kernel_space, state, CurrentTask,
                      cpl, esp0, cr3>>
  /\ UNCHANGED <<parent, code, place, joined, halt>>

-----------------------------------------------------------------------------
(* What a user program can ask for, and what can befall it *)

\* The current task is a user program executing its own code.
InUserCode == /\ Running
              /\ isUserTask(CurrentTask)
              /\ place[CurrentTask] = "run"

\* create_user_task: the whole UserTask constructor, interrupts off.
create_user_task(c) ==
  /\ InUserCode /\ code[CurrentTask]
  /\ state[c] = "none"
  /\ state' = [state EXCEPT ![c] = "READY"]
  /\ parent' = [parent EXCEPT ![c] = CurrentTask]
  /\ ReadyQueue' = <<c>> \o ReadyQueue
  /\ code' = [code EXCEPT ![c] = TRUE]
  /\ \E garbage \in BOOLEAN :
       user_in_kernel_space' = [user_in_kernel_space EXCEPT ![c] = garbage]
  /\ UNCHANGED <<CurrentTask, place, joined, tick, cpl, esp0, cr3, halt>>

\* exit_this_task, from the exit system call or from isr_handler when the
\* program raised an exception nothing handles.
exit_this_task ==
  /\ InUserCode /\ code[CurrentTask]
  /\ ScheduleFromExit
  /\ UNCHANGED <<parent, code, place, joined, tick, halt>>

\* HandlePageFault on the first instruction of a task whose code page is not
\* mapped yet: reports, then loops with interrupts off.
PageFault ==
  /\ InUserCode /\ ~code[CurrentTask]
  /\ halt' = "page fault"
  /\ UNCHANGED <<ReadyQueue, CurrentTask, state, user_in_kernel_space, parent,
                 code, place, joined, tick, cpl, esp0, cr3>>

\* destroy_user_task on a handle create_user_task returned to this program, up
\* to the destructor's Join: ring 0, interrupts on again.
destroy_user_task(c) ==
  /\ InUserCode /\ code[CurrentTask]
  /\ c \in child_tasks(CurrentTask)
  /\ place' = [place EXCEPT ![CurrentTask] = "join"]
  /\ joined' = [joined EXCEPT ![CurrentTask] = c]
  /\ cpl' = 0
  /\ UNCHANGED <<ReadyQueue, CurrentTask, state, user_in_kernel_space, parent,
                 code, tick, esp0, cr3, halt>>

-----------------------------------------------------------------------------
(* Destruction, by a user program in destroy_user_task or by the main task *)

\* Mutant: Join does not wait.
JoinAtOnce ==
  /\ Running
  /\ place[CurrentTask] = "join"
  /\ place' = [place EXCEPT ![CurrentTask] = "reclaim"]
  /\ UNCHANGED <<ReadyQueue, CurrentTask, state, user_in_kernel_space, parent,
                 code, joined, tick, cpl, esp0, cr3, halt>>

\* Mutant: Join waits until the object is gone, which only its caller deletes.
JoinDeleted ==
  /\ Running
  /\ place[CurrentTask] = "join"
  /\ state[joined[CurrentTask]] = "none"
  /\ place' = [place EXCEPT ![CurrentTask] = "reclaim"]
  /\ UNCHANGED <<ReadyQueue, CurrentTask, state, user_in_kernel_space, parent,
                 code, joined, tick, cpl, esp0, cr3, halt>>

\* Join's loop sees COMPLETED.
Join ==
  /\ Running
  /\ place[CurrentTask] = "join"
  /\ state[joined[CurrentTask]] = "COMPLETED"
  /\ place' = [place EXCEPT ![CurrentTask] = "reclaim"]
  /\ UNCHANGED <<ReadyQueue, CurrentTask, state, user_in_kernel_space, parent,
                 code, joined, tick, cpl, esp0, cr3, halt>>

\* The rest of ~UserTask and ~Task: reclaim, free, the assertion that no child
\* object is left, removal from the parent's list, delete.  Then the system
\* call returns to ring 3, or the main task goes on to KernelEnd.
DestroyTask ==
  LET c == joined[CurrentTask]
  IN  /\ Running
      /\ place[CurrentTask] = "reclaim"
      /\ IF child_tasks(c) # {}
         THEN /\ halt' = "assert childless"
              /\ UNCHANGED <<state, user_in_kernel_space, parent, code, place,
                             joined, cpl>>
         ELSE /\ state' = [state EXCEPT ![c] = "none"]
              /\ user_in_kernel_space' = [user_in_kernel_space EXCEPT ![c] = FALSE]
              /\ parent' = [parent EXCEPT ![c] = NoTask]
              /\ code' = [code EXCEPT ![c] = FALSE]
              /\ joined' = [joined EXCEPT ![CurrentTask] = NoTask]
              /\ place' = [place EXCEPT ![CurrentTask] =
                             IF isUserTask(CurrentTask) THEN "run" ELSE "end"]
              /\ cpl' = IF isUserTask(CurrentTask) THEN 3 ELSE 0
              /\ UNCHANGED halt
      /\ UNCHANGED <<ReadyQueue, CurrentTask, tick, esp0, cr3>>

-----------------------------------------------------------------------------
(* The main kernel task *)

MainAt(p) == /\ Running
             /\ CurrentTask = kMainKernelTask
             /\ place[kMainKernelTask] = p

\* KernelJumpToUserEntry: the UserTask constructor up to AddToQueue.
KernelJumpToUserEntry(c) ==
  /\ MainAt("setup")
  /\ state[c] = "none"
  /\ state' = [state EXCEPT ![c] = "READY"]
  /\ parent' = [parent EXCEPT ![c] = kMainKernelTask]
  /\ ReadyQueue' = <<c>> \o ReadyQueue
  /\ joined' = [joined EXCEPT ![kMainKernelTask] = c]
  /\ place' = [place EXCEPT ![kMainKernelTask] = "ctor"]
  /\ \E garbage \in BOOLEAN :
       user_in_kernel_space' = [user_in_kernel_space EXCEPT ![c] = garbage]
  /\ UNCHANGED <<CurrentTask, code, tick, cpl, esp0, cr3, halt>>

\* The rest of the constructor: the code page is mapped and filled.
CopyCode ==
  /\ MainAt("ctor")
  /\ code' = [code EXCEPT ![joined[kMainKernelTask]] = TRUE]
  /\ place' = [place EXCEPT ![kMainKernelTask] = "join"]
  /\ UNCHANGED <<ReadyQueue, CurrentTask, state, user_in_kernel_space, parent,
                 joined, tick, cpl, esp0, cr3, halt>>

\* KernelEnd: DestroyScheduler, whose assertion wants a single node, then power
\* off.
KernelEnd ==
  /\ MainAt("end")
  /\ halt' = IF Len(ReadyQueue) = 1 THEN "shutdown" ELSE "assert alone"
  /\ place' = [place EXCEPT ![kMainKernelTask] = "off"]
  /\ UNCHANGED <<ReadyQueue, CurrentTask, state, user_in_kernel_space, parent,
                 code, joined, tick, cpl, esp0, cr3>>

\* LOOP_INDEFINITELY, or no power.
Halted == ~Running /\ UNCHANGED vars

Next ==
  \/ TimerCallback
  \/ \E c \in UserTasks : create_user_task(c)
  \/ exit_this_task
  \/ PageFault
  \/ \E c \in UserTasks : destroy_user_task(c)
  \/ Join
  \/ DestroyTask
  \/ \E c \in UserTasks : KernelJumpToUserEntry(c)
  \/ CopyCode
  \/ KernelEnd
  \/ Halted

Spec == Init /\ [][Next]_vars

\* Kernel code that runs on behalf of the current task and does not wait.
KernelStep ==
  \/ PageFault
  \/ Join
  \/ DestroyTask
  \/ \E c \in UserTasks : KernelJumpToUserEntry(c)
  \/ CopyCode
  \/ KernelEnd

\* The timer keeps ticking, and a task that keeps getting the processor gets on
\* with the kernel code it runs.  Nothing is assumed of user programs.
Fairness ==
  /\ WF_vars(TimerCallback)
  /\ \A t \in Tasks : SF_vars(CurrentTask = t /\ KernelStep)

FairSpec == Spec /\ Fairness

-----------------------------------------------------------------------------
(* Properties *)

TypeOK ==
  /\ ReadyQueue \in Seq(Tasks)
  /\ CurrentTask \in Tasks
  /\ state \in [Tasks -> TaskState \cup {"none"}]
  /\ user_in_kernel_space \in [Tasks -> BOOLEAN]
  /\ parent \in [Tasks -> Tasks \cup {NoTask}]
  /\ code \in [Tasks -> BOOLEAN]
  /\ place \in [Tasks -> Place]
  /\ joined \in [Tasks -> UserTasks \cup {NoTask}]
  /\ tick \in 0..(kQuanta - 1)
  /\ cpl \in {0, 3}
  /\ esp0 \in UserTasks \cup {NoTask}
  /\ cr3 \in Tasks
  /\ halt \in Halt

\* schedule() walks and relinks the ready queue assuming what nothing in the
\* code checks: no task is on it twice, the running task is its last node (so
\* the front is never the running task), and exactly the constructed tasks that
\* have not finished are on it.
QueueExact ==
  /\ \A i, j \in 1..Len(ReadyQueue) : ReadyQueue[i] = ReadyQueue[j] => i = j
  /\ Len(ReadyQueue) > 0
  /\ ReadyQueue[Len(ReadyQueue)] = CurrentTask
  /\ \A t \in Tasks : t \in Queued <=> state[t] \in {"READY", "RUNNING"}

\* Whatever sequence of timer switches, exits and system calls led here, the
\* processor is in the ring the running task's code belongs to (a user program
\* preempted inside destroy_user_task comes back in ring 0, one preempted in
\* its own code comes back in ring 3), and the next interrupt from ring 3 will
\* land on that same task's kernel stack (SetupBeforeTaskRun).
ContextMatches ==
  /\ cpl = IF isUserTask(CurrentTask) /\ place[CurrentTask] = "run" THEN 3 ELSE 0
  /\ isUserTask(CurrentTask) => esp0 = CurrentTask
  /\ cr3 = CurrentTask

\* No pointer the kernel will follow names a deleted Task: the current task, the
\* queue's tasks, the parent of every task (~Task calls RemoveChildTask on it),
\* and the task whose destructor is running, which nobody else is destroying.
LiveReferences ==
  /\ \A t \in Queued \cup {CurrentTask} : state[t] # "none"
  /\ \A t \in UserTasks : state[t] # "none" =>
       parent[t] \in Tasks /\ state[parent[t]] # "none"
  /\ \A t \in Tasks : joined[t] # NoTask =>
       /\ state[joined[t]] # "none" /\ parent[joined[t]] = t
       /\ \A u \in Tasks : joined[u] = joined[t] => u = t

\* When main reaches DestroyScheduler every user task is gone, whatever the
\* programs did: the assertion "Expected only the main task to be left." is
\* guarded by the chain of destructors, each of which refuses to finish while
\* its task has children.
MainIsAlone == place[kMainKernelTask] = "end" => ReadyQueue = <<kMainKernelTask>>

Position(q, t) == CHOOSE i \in 1..Len(q) : q[i] = t

\* The queue read as a ring: each task, then the next one's, the last followed
\* by the first.
RingOf(q) == [t \in {q[i] : i \in 1..Len(q)} |-> q[(Position(q, t) % Len(q)) + 1]]

Ring == INSTANCE RoundRobin WITH ring <- RingOf(ReadyQueue), running <- CurrentTask

\* The scheduler implements the ring: whatever mixture of timer switches, exits
\* and system calls happens, tasks are taken in ring order, a new one runs right
\* after its creator, and nothing else disturbs the order.
ImplementsRing == Ring!Spec

\* A task that exited is never given the processor again: its state goes from
\* COMPLETED only to deleted.
CompletedIsFinal ==
  [][\A t \in Tasks : state[t] = "COMPLETED" => state'[t] \in {"COMPLETED", "none"}]_vars

\* Round robin with front insertion starves nobody: a task on the queue gets the
\* processor, however many tasks the others create (unless the kernel stops).
NoStarvation ==
  \A t \in Tasks : t \in Queued ~> (CurrentTask = t \/ ~Running)

\* destroy_user_task, and main's wait for the entry task, return once the task
\* waited for has exited.
JoinReturns ==
  \A t \in Tasks :
    (joined[t] # NoTask /\ state[joined[t]] = "COMPLETED")
       ~> (joined[t] = NoTask \/ ~Running)

\* ktask.h: a READY task "is on the queue and can run"; so a user task that has
\* been given the processor has its code in place.
CodeBeforeFirstRun == isUserTask(CurrentTask) => code[CurrentTask]
=============================================================================
