--------------------------- MODULE SchedulerProofs ---------------------------
(***************************************************************************)
(* For any set of user tasks and any quantum: the scheduler keeps its      *)
(* types, its queue, its processor context and its references right, and   *)
(* never runs a task that exited.                                          *)
(***************************************************************************)
EXTENDS Scheduler, TLAPS

-----------------------------------------------------------------------------
(* Facts about the two list manipulations of schedule() *)

\* A sequence without repetitions.
Distinct(q) == \A i, j \in 1..Len(q) : q[i] = q[j] => i = j

Members(q) == {q[i] : i \in 1..Len(q)}

\* A task is a member of a list exactly when one of the nodes is its.
LEMMA InMembers ==
  ASSUME NEW q, NEW x
  PROVE  x \in Members(q) <=> \E i \in 1..Len(q) : x = q[i]
  BY DEF Members

\* Moving the front node to the end of the list keeps its members, repeats none
\* of them, and makes the old front the last node.
LEMMA RotateLemma ==
  ASSUME NEW S, NEW q \in Seq(S), Len(q) > 0
  PROVE  /\ Rotate(q) \in Seq(S)
         /\ Len(Rotate(q)) = Len(q)
         /\ Rotate(q)[Len(q)] = Head(q)
         /\ \A i \in 1..(Len(q) - 1) : Rotate(q)[i] = q[i + 1]
  BY DEF Rotate

\* schedule()'s rotation keeps the members of the list and repeats none.
LEMMA RotateMembers ==
  ASSUME NEW S, NEW q \in Seq(S), Len(q) > 0
  PROVE  /\ Members(Rotate(q)) = Members(q)
         /\ Distinct(q) => Distinct(Rotate(q))
<1>1. Members(Rotate(q)) \subseteq Members(q)
  BY RotateLemma DEF Members
<1>2. ASSUME NEW i \in 1..Len(q)
      PROVE  \E j \in 1..Len(q) : Rotate(q)[j] = q[i]
  <2>1. CASE i = 1
    BY <2>1, RotateLemma
  <2>2. CASE i # 1
    <3>1. i - 1 \in 1..(Len(q) - 1)
      BY <2>2
    <3>2. Rotate(q)[i - 1] = q[i]
      BY <3>1, RotateLemma
    <3>3. QED BY <3>1, <3>2
  <2>3. QED BY <2>1, <2>2
<1>3. Distinct(q) => Distinct(Rotate(q))
  BY RotateLemma DEF Distinct
<1>4. Members(q) \subseteq Members(Rotate(q))
  <2> SUFFICES ASSUME NEW x, x \in Members(q)
               PROVE  x \in Members(Rotate(q))
    OBVIOUS
  <2>1. PICK i \in 1..Len(q) : x = q[i]
    BY InMembers
  <2>2. PICK j \in 1..Len(q) : x = Rotate(q)[j]
    BY <2>1, <1>2
  <2>3. QED BY <2>2, RotateLemma, InMembers
<1>5. QED BY <1>1, <1>3, <1>4

\* In a list without repetitions whose last two tasks are t and u, unlinking t
\* removes exactly t and leaves u last.
LEMMA UnlinkLemma ==
  ASSUME NEW S, NEW q \in Seq(S), NEW t, Distinct(q),
         Len(q) > 1, q[Len(q) - 1] = t
  PROVE  /\ Unlink(q, t) \in Seq(S)
         /\ Len(Unlink(q, t)) = Len(q) - 1
         /\ Unlink(q, t)[Len(q) - 1] = q[Len(q)]
         /\ Distinct(Unlink(q, t))
         /\ Members(Unlink(q, t)) = Members(q) \ {t}
<1> DEFINE n == Len(q)
           P(i) == q[i] = t /\ \A j \in 1..(i - 1) : q[j] # t
           r == [j \in 1..(n - 1) |-> IF j < n - 1 THEN q[j] ELSE q[j + 1]]
<1>0. n \in Nat /\ n > 1 /\ n - 1 \in 1..n
  OBVIOUS
<1>1. (CHOOSE i \in 1..n : P(i)) = n - 1
  <2>1. P(n - 1)
    BY <1>0 DEF Distinct
  <2>2. \A i \in 1..n : P(i) => i = n - 1
    BY <1>0 DEF Distinct
  <2>3. QED BY <1>0, <2>1, <2>2
<1>2. Unlink(q, t) = r
  BY <1>1 DEF Unlink
<1>3. r \in Seq(S) /\ Len(r) = n - 1
  BY <1>0
<1>4. /\ \A j \in 1..(n - 2) : r[j] = q[j]
      /\ r[n - 1] = q[n]
  BY <1>0
<1> HIDE DEF r
<1>5. Distinct(r)
  <2> SUFFICES ASSUME NEW i \in 1..(n - 1), NEW j \in 1..(n - 1), r[i] = r[j]
               PROVE  i = j
    BY <1>3 DEF Distinct
  <2>1. CASE i < n - 1 /\ j < n - 1
    <3>1. /\ i \in 1..n /\ i \in 1..(n - 2)
          /\ j \in 1..n /\ j \in 1..(n - 2)
      BY <2>1, <1>0
    <3>2. q[i] = q[j]
      BY <3>1, <1>4
    <3>3. QED BY <3>1, <3>2 DEF Distinct
  <2>2. CASE i = n - 1 \/ j = n - 1
    BY <2>2, <1>0, <1>4 DEF Distinct
  <2>3. QED BY <2>1, <2>2, <1>0
<1>6. ASSUME NEW i \in 1..(n - 1)
      PROVE  r[i] \in Members(q) \ {t}
  <2>1. CASE i < n - 1
    <3>1. r[i] = q[i] /\ i \in 1..n
      BY <2>1, <1>0, <1>4
    <3>2. q[i] # t
      BY <2>1, <1>0, <3>1 DEF Distinct
    <3>3. QED BY <3>1, <3>2 DEF Members
  <2>2. CASE i = n - 1
    <3>1. r[i] = q[n] /\ n \in 1..n
      BY <2>2, <1>0, <1>4
    <3>2. q[n] # t
      BY <1>0, <3>1 DEF Distinct
    <3>3. QED BY <3>1, <3>2 DEF Members
  <2>3. QED BY <2>1, <2>2, <1>0
<1>7. ASSUME NEW i \in 1..n, q[i] # t
      PROVE  \E j \in 1..(n - 1) : r[j] = q[i]
  <2>1. CASE i < n - 1
    BY <2>1, <1>0, <1>4
  <2>2. CASE i = n
    BY <2>2, <1>0, <1>4
  <2>3. QED BY <2>1, <2>2, <1>0, <1>7
<1>8. Members(r) = Members(q) \ {t}
  <2>1. ASSUME NEW x PROVE x \in Members(r) => x \in Members(q) \ {t}
    BY <1>3, <1>6, InMembers
  <2>2. ASSUME NEW x PROVE x \in Members(q) \ {t} => x \in Members(r)
    BY <1>3, <1>7, InMembers
  <2>3. QED BY <2>1, <2>2
<1>9. QED BY <1>0, <1>2, <1>3, <1>4, <1>5, <1>8
-----------------------------------------------------------------------------
(* The inductive invariant *)

\* What the four properties leave unsaid about places, pending destructors and
\* the flag of a task that is waiting for the processor.
Bookkeeping ==
  /\ state[kMainKernelTask] = "RUNNING"
  /\ state[CurrentTask] = "RUNNING"
  /\ place[kMainKernelTask] # "run"
  /\ \A t \in UserTasks :
       /\ place[t] \in {"run", "join", "reclaim"}
       /\ state[t] # "RUNNING" => place[t] = "run"
       /\ state[t] = "RUNNING" /\ t # CurrentTask =>
            (user_in_kernel_space[t] <=> place[t] # "run")
  /\ \A t \in Tasks :
       /\ joined[t] # NoTask <=> place[t] \in {"ctor", "join", "reclaim"}
       /\ place[t] = "reclaim" => state[joined[t]] = "COMPLETED"

Inv == TypeOK /\ QueueExact /\ ContextMatches /\ LiveReferences /\ Bookkeeping


\* InitScheduler establishes the invariant: the main task alone on the queue.
THEOREM InitInv == Init => Inv
<1> SUFFICES ASSUME Init PROVE Inv
  OBVIOUS
<1> USE TaskAssumption, QuantaAssumption
<1>1. TypeOK
  BY DEF Init, TypeOK, Tasks, TaskState, Place, Halt
<1>2. QueueExact
  <2>1. /\ Len(ReadyQueue) = 1
        /\ ReadyQueue[1] = kMainKernelTask
        /\ CurrentTask = kMainKernelTask
    BY DEF Init
  <2>2. Queued = {kMainKernelTask}
    BY <2>1 DEF Queued
  <2>3. \A t \in Tasks : t \in Queued <=> state[t] \in {"READY", "RUNNING"}
    BY <2>2 DEF Init
  <2>4. QED BY <2>1, <2>3 DEF QueueExact
<1>3. ContextMatches
  BY DEF Init, ContextMatches, isUserTask
<1>4. LiveReferences
  <2>1. state[CurrentTask] # "none"
    BY DEF Init, Tasks
  <2>2. \A t \in Queued : state[t] # "none"
    BY <1>1, <1>2 DEF QueueExact, Queued, TypeOK
  <2>3. \A t \in UserTasks : state[t] = "none"
    BY DEF Init, Tasks
  <2>4. \A t \in Tasks : joined[t] = NoTask
    BY DEF Init
  <2>5. QED BY <2>1, <2>2, <2>3, <2>4 DEF LiveReferences
<1>5. Bookkeeping
  BY DEF Init, Bookkeeping, Tasks
<1>6. QED BY <1>1, <1>2, <1>3, <1>4, <1>5 DEF Inv

-----------------------------------------------------------------------------
(* The queue across a switch, an exit and a creation *)

\* When two tasks or more are queued, the one schedule() takes is not the one
\* that is running.
LEMMA HeadIsAnother ==
  ASSUME Inv, Len(ReadyQueue) > 1
  PROVE  /\ Head(ReadyQueue) \in Tasks
         /\ Head(ReadyQueue) # CurrentTask
         /\ state[Head(ReadyQueue)] \in {"READY", "RUNNING"}
<1>1. Head(ReadyQueue) = ReadyQueue[1] /\ Head(ReadyQueue) \in Queued
  BY DEF Inv, TypeOK, Queued
<1>2. Head(ReadyQueue) \in Tasks
  BY DEF Inv, TypeOK
<1>3. QED BY <1>1, <1>2 DEF Inv, TypeOK, QueueExact

\* A user task that exits is never the only one queued.
LEMMA ExitHasSuccessor ==
  ASSUME Inv, isUserTask(CurrentTask)
  PROVE  Len(ReadyQueue) > 1
<1>1. kMainKernelTask \in Queued /\ CurrentTask # kMainKernelTask
  BY TaskAssumption DEF Inv, QueueExact, Bookkeeping, Tasks, isUserTask
<1>2. PICK i \in 1..Len(ReadyQueue) : ReadyQueue[i] = kMainKernelTask
  BY <1>1 DEF Queued
<1>3. QED BY <1>1, <1>2 DEF Inv, QueueExact, TypeOK

\* A switch from the timer keeps the queue exact.
LEMMA TimerQueue ==
  ASSUME Inv, Len(ReadyQueue) > 1, ScheduleFromTimer
  PROVE  QueueExact' /\ ReadyQueue' \in Seq(Tasks)
<1> DEFINE q == Rotate(ReadyQueue)
<1>1. ReadyQueue' = q /\ CurrentTask' = Head(ReadyQueue)
  BY DEF ScheduleFromTimer, SwitchTo
<1>2. ReadyQueue \in Seq(Tasks) /\ Distinct(ReadyQueue)
  BY DEF Inv, TypeOK, QueueExact, Distinct
<1>3. /\ q \in Seq(Tasks) /\ Len(q) = Len(ReadyQueue)
      /\ q[Len(q)] = Head(ReadyQueue)
      /\ Members(q) = Members(ReadyQueue)
      /\ Distinct(q)
  BY <1>2, RotateLemma, RotateMembers
<1> HIDE DEF q
<1>4. Queued' = Queued
  BY <1>1, <1>3 DEF Queued, Members
<1>5. \A t \in Tasks : t \in Queued' <=> state'[t] \in {"READY", "RUNNING"}
  BY <1>4, HeadIsAnother DEF ScheduleFromTimer, Inv, TypeOK, QueueExact
<1>6. QED BY <1>1, <1>3, <1>5 DEF QueueExact, Distinct

\* A switch from exit_this_task keeps the queue exact: the exiting task's node,
\* last but one after the rotation, is the one removed.
LEMMA ExitQueue ==
  ASSUME Inv, isUserTask(CurrentTask), ScheduleFromExit
  PROVE  QueueExact' /\ ReadyQueue' \in Seq(Tasks)
<1> DEFINE n == Len(ReadyQueue)
           q == Rotate(ReadyQueue)
           r == Unlink(q, CurrentTask)
<1>0. n > 1 /\ n \in Nat /\ n - 1 \in 1..n
  BY ExitHasSuccessor DEF Inv, TypeOK
<1>1. ReadyQueue' = r /\ CurrentTask' = Head(ReadyQueue)
  BY DEF ScheduleFromExit, SwitchTo
<1>2. ReadyQueue \in Seq(Tasks) /\ Distinct(ReadyQueue)
  BY DEF Inv, TypeOK, QueueExact, Distinct
<1>3. /\ q \in Seq(Tasks) /\ Len(q) = n
      /\ q[n] = Head(ReadyQueue)
      /\ q[n - 1] = ReadyQueue[n]
      /\ Members(q) = Members(ReadyQueue)
      /\ Distinct(q)
  BY <1>0, <1>2, RotateLemma, RotateMembers
<1>4. q[Len(q) - 1] = CurrentTask
  BY <1>0, <1>3 DEF Inv, QueueExact
<1> HIDE DEF q
<1>5. /\ r \in Seq(Tasks) /\ Len(r) = n - 1
      /\ r[n - 1] = Head(ReadyQueue)
      /\ Distinct(r)
      /\ Members(r) = Members(ReadyQueue) \ {CurrentTask}
  <2>1. Len(q) > 1
    BY <1>0, <1>3
  <2>2. /\ r \in Seq(Tasks) /\ Len(r) = Len(q) - 1
        /\ r[Len(q) - 1] = q[Len(q)]
        /\ Distinct(r)
        /\ Members(r) = Members(q) \ {CurrentTask}
    BY <2>1, <1>3, <1>4, UnlinkLemma
  <2>3. QED BY <2>2, <1>3
<1> HIDE DEF r
<1>6. Queued' = Queued \ {CurrentTask}
  BY <1>1, <1>5 DEF Queued, Members
<1>7. \A t \in Tasks : t \in Queued' <=> state'[t] \in {"READY", "RUNNING"}
  BY <1>0, <1>6, HeadIsAnother DEF ScheduleFromExit, Inv, TypeOK, QueueExact
<1>8. QED BY <1>0, <1>1, <1>5, <1>7 DEF QueueExact, Distinct

\* AddToQueue of a new task.
LEMMA CreateQueue ==
  ASSUME Inv, NEW c \in UserTasks, state[c] = "none",
         ReadyQueue' = <<c>> \o ReadyQueue,
         state' = [state EXCEPT ![c] = "READY"],
         CurrentTask' = CurrentTask
  PROVE  QueueExact' /\ ReadyQueue' \in Seq(Tasks)
<1> DEFINE n == Len(ReadyQueue)
           q == <<c>> \o ReadyQueue
<1>0. /\ ReadyQueue \in Seq(Tasks) /\ c \in Tasks /\ n \in Nat /\ n > 0
      /\ \A i \in 1..n : ReadyQueue[i] # c
  <2>1. ReadyQueue \in Seq(Tasks) /\ c \in Tasks
    BY DEF Inv, TypeOK, Tasks
  <2>2. n \in Nat /\ n > 0
    BY <2>1 DEF Inv, QueueExact
  <2>3. c \notin Queued
    BY <2>1 DEF Inv, QueueExact
  <2>4. QED BY <2>1, <2>2, <2>3 DEF Queued
<1>1. /\ q \in Seq(Tasks) /\ Len(q) = n + 1 /\ q[1] = c
      /\ \A i \in 2..(n + 1) : q[i] = ReadyQueue[i - 1]
      /\ \A i \in 1..n : q[i + 1] = ReadyQueue[i]
  BY <1>0
<1> HIDE DEF q
<1>2. Distinct(q)
  <2> SUFFICES ASSUME NEW i \in 1..(n + 1), NEW j \in 1..(n + 1), q[i] = q[j]
               PROVE  i = j
    BY <1>1 DEF Distinct
  <2>1. ASSUME NEW k \in 2..(n + 1) PROVE q[k] # c
    <3>1. k - 1 \in 1..n /\ q[k] = ReadyQueue[k - 1]
      BY <1>0, <1>1
    <3>2. QED BY <3>1, <1>0
  <2>2. CASE i = 1 \/ j = 1
    BY <2>1, <2>2, <1>0, <1>1
  <2>3. CASE i # 1 /\ j # 1
    <3>1. /\ i - 1 \in 1..n /\ q[i] = ReadyQueue[i - 1]
          /\ j - 1 \in 1..n /\ q[j] = ReadyQueue[j - 1]
      BY <2>3, <1>0, <1>1
    <3>2. i - 1 = j - 1
      BY <3>1 DEF Inv, QueueExact
    <3>3. QED BY <3>2
  <2>4. QED BY <2>2, <2>3
<1>3. Members(q) = Queued \cup {c}
  <2>1. ASSUME NEW x \in Members(q) PROVE x \in Queued \cup {c}
    <3>1. PICK i \in 1..Len(q) : x = q[i]
      BY InMembers
    <3>2. CASE i = 1
      BY <3>1, <3>2, <1>1
    <3>3. CASE i # 1
      <4>1. i - 1 \in 1..n /\ x = ReadyQueue[i - 1]
        BY <3>1, <3>3, <1>0, <1>1
      <4>2. QED BY <4>1 DEF Queued
    <3>4. QED BY <3>2, <3>3
  <2>2. ASSUME NEW x \in Queued PROVE x \in Members(q)
    <3>1. PICK i \in 1..n : x = ReadyQueue[i]
      BY DEF Queued
    <3>2. i + 1 \in 1..Len(q) /\ x = q[i + 1]
      BY <3>1, <1>0, <1>1
    <3>3. QED BY <3>2, InMembers
  <2>3. c \in Members(q)
    BY <1>0, <1>1, InMembers
  <2>4. QED BY <2>1, <2>2, <2>3
<1>4. Queued' = Queued \cup {c}
  BY <1>3 DEF Queued, Members, q
<1>5. \A t \in Tasks : t \in Queued' <=> state'[t] \in {"READY", "RUNNING"}
  BY <1>4 DEF Inv, TypeOK, QueueExact
<1>6. ReadyQueue'[Len(ReadyQueue')] = CurrentTask'
  BY <1>0, <1>1 DEF Inv, QueueExact, q
<1>7. ReadyQueue' = q
  BY DEF q
<1>8. ReadyQueue' \in Seq(Tasks) /\ Len(ReadyQueue') > 0 /\ Distinct(ReadyQueue')
  <2>1. q \in Seq(Tasks) /\ Len(q) > 0
    BY <1>0, <1>1
  <2>2. QED BY <2>1, <1>2, <1>7, Zenon
<1>9. QED BY <1>5, <1>6, <1>8 DEF QueueExact, Distinct

-----------------------------------------------------------------------------
(* Every step preserves the invariant *)

\* The queue holds no deleted task after a step that keeps QueueExact.
LEMMA QueuedAreLive ==
  ASSUME ReadyQueue' \in Seq(Tasks), QueueExact'
  PROVE  \A t \in Queued' : state'[t] # "none"
  BY DEF QueueExact, Queued

\* A switch, which creates and deletes no task and leaves parents and pending
\* destructors alone, leaves no reference dangling.
LEMMA SwitchKeepsReferences ==
  ASSUME Inv, UNCHANGED <<parent, joined>>,
         \A t \in Tasks : state[t] # "none" <=> state'[t] # "none",
         \A t \in Queued' : state'[t] # "none",
         state'[CurrentTask'] # "none"
  PROVE  LiveReferences'
<1>1. ASSUME NEW t \in UserTasks, state'[t] # "none"
      PROVE  parent'[t] \in Tasks /\ state'[parent'[t]] # "none"
  <2>1. state[t] # "none" /\ parent'[t] = parent[t]
    BY <1>1 DEF Tasks
  <2>2. QED BY <2>1 DEF LiveReferences, Inv
<1>2. ASSUME NEW t \in Tasks, joined'[t] # NoTask
      PROVE  /\ state'[joined'[t]] # "none" /\ parent'[joined'[t]] = t
             /\ \A u \in Tasks : joined'[u] = joined'[t] => u = t
  <2>1. joined[t] \in Tasks
    BY <1>2 DEF Inv, TypeOK, Tasks
  <2>2. QED BY <1>2, <2>1 DEF LiveReferences, Inv
<1>3. QED BY <1>1, <1>2 DEF LiveReferences

\* TimerCallback, with or without a switch, preserves the invariant.
LEMMA TimerInv == Inv /\ TimerCallback => Inv'
<1> SUFFICES ASSUME Inv, TimerCallback PROVE Inv'
  OBVIOUS
<1> USE TaskAssumption, QuantaAssumption
<1>0. tick' \in 0..(kQuanta - 1)
  BY DEF TimerCallback, NextTick, Inv, TypeOK
<1>1. CASE NextTick = 0 /\ Len(ReadyQueue) > 1
  <2> DEFINE task == Head(ReadyQueue)
  <2>1. ScheduleFromTimer /\ UNCHANGED <<parent, code, place, joined, halt>>
    BY <1>1 DEF TimerCallback
  <2>2. QueueExact' /\ ReadyQueue' \in Seq(Tasks)
    BY <1>1, <2>1, TimerQueue
  <2>3. task \in Tasks /\ task # CurrentTask /\ state[task] \in {"READY", "RUNNING"}
    BY <1>1, HeadIsAnother
  <2>4. /\ CurrentTask' = task /\ cr3' = task
        /\ esp0' = IF isUserTask(task) THEN task ELSE esp0
        /\ cpl' = IF isUserTask(task) /\ (state[task] = "READY" \/ ~user_in_kernel_space[task])
                  THEN 3 ELSE 0
        /\ state' = [state EXCEPT ![task] = "RUNNING"]
        /\ user_in_kernel_space' = [user_in_kernel_space EXCEPT
             ![CurrentTask] = isUserTask(CurrentTask) /\ cpl = 0]
    BY <2>1, <2>3 DEF ScheduleFromTimer, SwitchTo, ClearFlag, Inv, TypeOK
  <2> HIDE DEF task
  <2>5. TypeOK'
    BY <1>0, <2>1, <2>2, <2>3, <2>4 DEF TypeOK, Inv, TaskState, isUserTask
  <2>6. ContextMatches'
    BY <2>1, <2>3, <2>4 DEF ContextMatches, Inv, TypeOK, Bookkeeping, isUserTask, Tasks
  <2>7. LiveReferences'
    <3>1. \A t \in Tasks : state[t] # "none" => state'[t] # "none"
      BY <2>3, <2>4 DEF Inv, TypeOK
    <3>2. \A t \in Tasks : state'[t] # "none" => state[t] # "none"
      BY <2>3, <2>4 DEF Inv, TypeOK
    <3>3. /\ \A t \in Queued' : state'[t] # "none"
          /\ state'[CurrentTask'] # "none"
      BY <2>2, <2>3, <2>4, QueuedAreLive DEF Inv, TypeOK
    <3>4. QED BY <2>1, <3>1, <3>2, <3>3, SwitchKeepsReferences
  <2>8. Bookkeeping'
    <3>1. state'[kMainKernelTask] = "RUNNING" /\ state'[CurrentTask'] = "RUNNING"
      BY <2>3, <2>4 DEF Bookkeeping, Inv, TypeOK, Tasks
    <3>2. ASSUME NEW t \in UserTasks
          PROVE  /\ state'[t] # "RUNNING" => place[t] = "run"
                 /\ state'[t] = "RUNNING" /\ t # CurrentTask' =>
                      (user_in_kernel_space'[t] <=> place[t] # "run")
      <4>1. CASE t = CurrentTask
        <5>1. state[t] = "RUNNING" /\ state'[t] = state[t]
          BY <4>1, <2>3, <2>4 DEF Bookkeeping, Inv, TypeOK, Tasks
        <5>2. cpl = 0 <=> place[t] # "run"
          BY <4>1 DEF ContextMatches, Inv, isUserTask
        <5>3. user_in_kernel_space'[t] = (cpl = 0)
          BY <4>1, <2>4 DEF Inv, TypeOK, isUserTask, Tasks
        <5>4. QED BY <5>1, <5>2, <5>3
      <4>2. CASE t # CurrentTask
        BY <4>2, <2>3, <2>4 DEF Bookkeeping, Inv, TypeOK, Tasks
      <4>3. QED BY <4>1, <4>2
    <3>3. ASSUME NEW t \in Tasks, place[t] = "reclaim"
          PROVE  state'[joined[t]] = "COMPLETED"
      BY <3>3, <2>3, <2>4 DEF Bookkeeping, LiveReferences, Inv, TypeOK, Tasks
    <3>4. place' = place /\ joined' = joined
      BY <2>1
    <3>5. /\ place[kMainKernelTask] # "run"
          /\ \A t \in UserTasks : place[t] \in {"run", "join", "reclaim"}
          /\ \A t \in Tasks :
               joined[t] # NoTask <=> place[t] \in {"ctor", "join", "reclaim"}
      BY DEF Bookkeeping, Inv
    <3>6. QED BY <3>1, <3>2, <3>3, <3>4, <3>5 DEF Bookkeeping
  <2>9. QED BY <2>2, <2>5, <2>6, <2>7, <2>8 DEF Inv
<1>2. CASE ~(NextTick = 0 /\ Len(ReadyQueue) > 1)
  <2>1. UNCHANGED <<ReadyQueue, user_in_kernel_space, state, CurrentTask, cpl,
                    esp0, cr3, parent, code, place, joined, halt>>
    BY <1>2 DEF TimerCallback
  <2>2. TypeOK'
    BY <1>0, <2>1 DEF Inv, TypeOK
  <2>3. QueueExact'
    BY <2>1 DEF Inv, QueueExact, Queued
  <2>4. ContextMatches'
    BY <2>1 DEF Inv, ContextMatches
  <2>5. LiveReferences'
    BY <2>1 DEF Inv, LiveReferences, Queued
  <2>6. Bookkeeping'
    BY <2>1 DEF Inv, Bookkeeping
  <2>7. QED BY <2>2, <2>3, <2>4, <2>5, <2>6 DEF Inv
<1>3. QED BY <1>1, <1>2

\* exit_this_task preserves the invariant.
LEMMA ExitInv == Inv /\ exit_this_task => Inv'
<1> SUFFICES ASSUME Inv, exit_this_task PROVE Inv'
  OBVIOUS
<1> USE TaskAssumption
<1> DEFINE task == Head(ReadyQueue)
<1>1. /\ isUserTask(CurrentTask) /\ place[CurrentTask] = "run" /\ ScheduleFromExit
      /\ UNCHANGED <<parent, code, place, joined, tick, halt>>
  BY DEF exit_this_task, InUserCode
<1>2. QueueExact' /\ ReadyQueue' \in Seq(Tasks)
  BY <1>1, ExitQueue
<1>3. task \in Tasks /\ task # CurrentTask /\ state[task] \in {"READY", "RUNNING"}
  BY <1>1, ExitHasSuccessor, HeadIsAnother
<1>4. /\ CurrentTask' = task /\ cr3' = task
      /\ esp0' = IF isUserTask(task) THEN task ELSE esp0
      /\ cpl' = IF isUserTask(task) /\ (state[task] = "READY" \/ ~user_in_kernel_space[task])
                THEN 3 ELSE 0
      /\ state' = [state EXCEPT ![CurrentTask] = "COMPLETED", ![task] = "RUNNING"]
      /\ user_in_kernel_space' = [user_in_kernel_space EXCEPT ![CurrentTask] = FALSE]
  BY <1>1, <1>3 DEF ScheduleFromExit, SwitchTo, ClearFlag, Inv, TypeOK
<1>5. /\ state'[CurrentTask] = "COMPLETED" /\ state'[task] = "RUNNING"
      /\ \A t \in Tasks \ {CurrentTask, task} : state'[t] = state[t]
  BY <1>3, <1>4 DEF Inv, TypeOK
<1> HIDE DEF task
<1>6. TypeOK'
  BY <1>1, <1>2, <1>3, <1>4 DEF TypeOK, Inv, TaskState, isUserTask
<1>7. ContextMatches'
  BY <1>1, <1>3, <1>4 DEF ContextMatches, Inv, TypeOK, Bookkeeping, isUserTask, Tasks
<1>8. LiveReferences'
  <2>1. \A t \in Tasks : state[t] # "none" <=> state'[t] # "none"
    BY <1>3, <1>5 DEF Inv, TypeOK, Bookkeeping
  <2>2. /\ \A t \in Queued' : state'[t] # "none"
        /\ state'[CurrentTask'] # "none"
    BY <1>2, <1>4, <1>5, QueuedAreLive
  <2>3. QED BY <1>1, <2>1, <2>2, SwitchKeepsReferences
<1>9. Bookkeeping'
  <2>1. state'[kMainKernelTask] = "RUNNING" /\ state'[CurrentTask'] = "RUNNING"
    BY <1>1, <1>3, <1>4, <1>5 DEF Bookkeeping, Inv, Tasks, isUserTask
  <2>2. ASSUME NEW t \in UserTasks
        PROVE  /\ state'[t] # "RUNNING" => place[t] = "run"
               /\ state'[t] = "RUNNING" /\ t # CurrentTask' =>
                    (user_in_kernel_space'[t] <=> place[t] # "run")
    <3>1. CASE t = CurrentTask
      BY <3>1, <1>1, <1>5
    <3>2. CASE t # CurrentTask
      BY <3>2, <1>3, <1>4, <1>5 DEF Bookkeeping, Inv, TypeOK, Tasks
    <3>3. QED BY <3>1, <3>2
  <2>3. ASSUME NEW t \in Tasks, place[t] = "reclaim"
        PROVE  state'[joined[t]] = "COMPLETED"
    <3>1. joined[t] \in UserTasks /\ state[joined[t]] = "COMPLETED"
      BY <2>3 DEF Bookkeeping, Inv, TypeOK
    <3>2. QED BY <3>1, <1>3, <1>5 DEF Bookkeeping, Inv, Tasks
  <2>4. QED BY <1>1, <2>1, <2>2, <2>3 DEF Bookkeeping, Inv
<1>10. QED BY <1>2, <1>6, <1>7, <1>8, <1>9 DEF Inv

\* create_user_task preserves the invariant.
LEMMA CreateInv == ASSUME NEW c \in UserTasks PROVE Inv /\ create_user_task(c) => Inv'
<1> SUFFICES ASSUME Inv, create_user_task(c) PROVE Inv'
  OBVIOUS
<1> USE TaskAssumption
<1>1. /\ state[c] = "none" /\ state' = [state EXCEPT ![c] = "READY"]
      /\ parent' = [parent EXCEPT ![c] = CurrentTask]
      /\ code' = [code EXCEPT ![c] = TRUE]
      /\ UNCHANGED <<CurrentTask, place, joined, tick, cpl, esp0, cr3, halt>>
      /\ ReadyQueue' = <<c>> \o ReadyQueue
  BY DEF create_user_task
<1>2. PICK garbage \in BOOLEAN :
        user_in_kernel_space' = [user_in_kernel_space EXCEPT ![c] = garbage]
  BY DEF create_user_task
<1>3. QueueExact' /\ ReadyQueue' \in Seq(Tasks)
  BY <1>1, CreateQueue
<1>4. c # CurrentTask /\ c # kMainKernelTask /\ c \in Tasks
  BY <1>1 DEF Bookkeeping, Inv, Tasks
<1>5. TypeOK'
  BY <1>1, <1>2, <1>3, <1>4 DEF TypeOK, Inv, TaskState
<1>6. ContextMatches'
  BY <1>1 DEF ContextMatches, Inv
<1>7. LiveReferences'
  <2>1. /\ \A t \in Queued' : state'[t] # "none"
        /\ state'[CurrentTask'] # "none"
    BY <1>1, <1>3, <1>4, QueuedAreLive DEF Inv, TypeOK, Bookkeeping
  <2>2. \A t \in Tasks : state[t] # "none" => t # c /\ state'[t] = state[t]
    BY <1>1, <1>4 DEF Inv, TypeOK
  <2>3. ASSUME NEW t \in UserTasks, state'[t] # "none"
        PROVE  parent'[t] \in Tasks /\ state'[parent'[t]] # "none"
    <3>1. CASE t = c
      BY <3>1, <1>1, <1>4, <2>2 DEF Inv, TypeOK, Bookkeeping
    <3>2. CASE t # c
      BY <2>3, <3>2, <1>1, <2>2 DEF Inv, TypeOK, LiveReferences, Tasks
    <3>3. QED BY <3>1, <3>2
  <2>4. ASSUME NEW t \in Tasks, joined[t] # NoTask
        PROVE  state'[joined[t]] # "none" /\ parent'[joined[t]] = t
    <3>1. joined[t] \in Tasks /\ state[joined[t]] # "none" /\ parent[joined[t]] = t
      BY <2>4 DEF Inv, TypeOK, LiveReferences, Tasks
    <3>2. QED BY <3>1, <2>2, <1>1 DEF Inv, TypeOK
  <2>5. QED BY <1>1, <2>1, <2>3, <2>4 DEF LiveReferences, Inv
<1>8. Bookkeeping'
  <2>1. state'[kMainKernelTask] = "RUNNING" /\ state'[CurrentTask'] = "RUNNING"
    BY <1>1, <1>4 DEF Bookkeeping, Inv, TypeOK, Tasks
  <2>2. ASSUME NEW t \in UserTasks
        PROVE  /\ state'[t] # "RUNNING" => place[t] = "run"
               /\ state'[t] = "RUNNING" /\ t # CurrentTask' =>
                    (user_in_kernel_space'[t] <=> place[t] # "run")
    BY <1>1, <1>2 DEF Bookkeeping, Inv, TypeOK, Tasks
  <2>3. ASSUME NEW t \in Tasks, place[t] = "reclaim"
        PROVE  state'[joined[t]] = "COMPLETED"
    BY <2>3, <1>1, <1>4 DEF Bookkeeping, Inv, TypeOK, Tasks
  <2>4. /\ place[kMainKernelTask] # "run"
        /\ \A t \in UserTasks : place[t] \in {"run", "join", "reclaim"}
        /\ \A t \in Tasks : joined[t] # NoTask <=> place[t] \in {"ctor", "join", "reclaim"}
    BY DEF Bookkeeping, Inv
  <2>5. place' = place /\ joined' = joined
    BY <1>1
  <2>6. QED BY <2>1, <2>2, <2>3, <2>4, <2>5 DEF Bookkeeping
<1>9. QED BY <1>3, <1>5, <1>6, <1>7, <1>8 DEF Inv

\* A step that leaves the queue, the states and the current task alone keeps the
\* queue exact.
LEMMA SameQueue ==
  ASSUME Inv, UNCHANGED <<ReadyQueue, CurrentTask, state>>
  PROVE  /\ QueueExact'
         /\ \A t \in Queued' \cup {CurrentTask'} : state'[t] # "none"
<1>1. Queued' = Queued
  BY DEF Queued
<1>2. QueueExact'
  BY <1>1 DEF Inv, QueueExact
<1>3. \A t \in Queued' \cup {CurrentTask'} : state'[t] # "none"
  BY <1>1 DEF Inv, LiveReferences
<1>4. QED BY <1>2, <1>3

\* KernelJumpToUserEntry's creation of the entry task preserves the invariant.
LEMMA KernelJumpInv ==
  ASSUME NEW c \in UserTasks PROVE Inv /\ KernelJumpToUserEntry(c) => Inv'
<1> SUFFICES ASSUME Inv, KernelJumpToUserEntry(c) PROVE Inv'
  OBVIOUS
<1> USE TaskAssumption
<1>1. /\ CurrentTask = kMainKernelTask /\ place[kMainKernelTask] = "setup"
      /\ state[c] = "none" /\ state' = [state EXCEPT ![c] = "READY"]
      /\ parent' = [parent EXCEPT ![c] = kMainKernelTask]
      /\ ReadyQueue' = <<c>> \o ReadyQueue
      /\ joined' = [joined EXCEPT ![kMainKernelTask] = c]
      /\ place' = [place EXCEPT ![kMainKernelTask] = "ctor"]
      /\ UNCHANGED <<CurrentTask, code, tick, cpl, esp0, cr3, halt>>
  BY DEF KernelJumpToUserEntry, MainAt
<1>2. PICK garbage \in BOOLEAN :
        user_in_kernel_space' = [user_in_kernel_space EXCEPT ![c] = garbage]
  BY DEF KernelJumpToUserEntry
<1>3. QueueExact' /\ ReadyQueue' \in Seq(Tasks)
  BY <1>1, CreateQueue
<1>4. c # kMainKernelTask /\ c \in Tasks /\ kMainKernelTask \in Tasks
  BY DEF Tasks
<1>5. TypeOK'
  BY <1>1, <1>2, <1>3, <1>4 DEF TypeOK, Inv, TaskState, Place
<1>6. ContextMatches'
  BY <1>1 DEF ContextMatches, Inv, isUserTask
<1>7. LiveReferences'
  <2>1. /\ \A t \in Queued' : state'[t] # "none"
        /\ state'[CurrentTask'] # "none"
    BY <1>1, <1>3, <1>4, QueuedAreLive DEF Inv, TypeOK, Bookkeeping
  <2>2. \A t \in Tasks : state[t] # "none" => t # c /\ state'[t] = state[t]
    BY <1>1, <1>4 DEF Inv, TypeOK
  <2>3. ASSUME NEW t \in UserTasks, state'[t] # "none"
        PROVE  parent'[t] \in Tasks /\ state'[parent'[t]] # "none"
    <3>1. CASE t = c
      BY <3>1, <1>1, <1>4, <2>2 DEF Inv, TypeOK, Bookkeeping
    <3>2. CASE t # c
      BY <2>3, <3>2, <1>1, <2>2 DEF Inv, TypeOK, LiveReferences, Tasks
    <3>3. QED BY <3>1, <3>2
  <2>4. ASSUME NEW t \in Tasks, joined'[t] # NoTask
        PROVE  state'[joined'[t]] # "none" /\ parent'[joined'[t]] = t
    <3>1. CASE t = kMainKernelTask
      BY <3>1, <1>1, <1>4 DEF Inv, TypeOK
    <3>2. CASE t # kMainKernelTask
      <4>1. joined'[t] = joined[t]
        BY <3>2, <1>1 DEF Inv, TypeOK
      <4>2. joined[t] \in Tasks /\ state[joined[t]] # "none" /\ parent[joined[t]] = t
        <5>1. joined[t] \in Tasks
          BY <2>4, <4>1 DEF Inv, TypeOK, Tasks
        <5>2. QED BY <2>4, <4>1, <5>1 DEF Inv, LiveReferences
      <4>3. QED BY <4>1, <4>2, <2>2, <1>1 DEF Inv, TypeOK
    <3>3. QED BY <3>1, <3>2
  <2>5. ASSUME NEW t \in Tasks, NEW u \in Tasks, joined'[t] # NoTask, joined'[u] = joined'[t]
        PROVE  u = t
    BY <2>4, <2>5
  <2>6. QED BY <2>1, <2>3, <2>4, <2>5 DEF LiveReferences
<1>8. Bookkeeping'
  <2>1. state'[kMainKernelTask] = "RUNNING" /\ state'[CurrentTask'] = "RUNNING"
    BY <1>1, <1>4 DEF Bookkeeping, Inv, TypeOK, Tasks
  <2>2. ASSUME NEW t \in UserTasks
        PROVE  /\ place'[t] \in {"run", "join", "reclaim"}
               /\ state'[t] # "RUNNING" => place'[t] = "run"
               /\ state'[t] = "RUNNING" /\ t # CurrentTask' =>
                    (user_in_kernel_space'[t] <=> place'[t] # "run")
    BY <1>1, <1>2 DEF Bookkeeping, Inv, TypeOK, Tasks
  <2>3. ASSUME NEW t \in Tasks
        PROVE  /\ joined'[t] # NoTask <=> place'[t] \in {"ctor", "join", "reclaim"}
               /\ place'[t] = "reclaim" => state'[joined'[t]] = "COMPLETED"
    <3>1. CASE t = kMainKernelTask
      BY <3>1, <1>1, <1>4 DEF Inv, TypeOK, Tasks
    <3>2. CASE t # kMainKernelTask
      <4>1. joined'[t] = joined[t] /\ place'[t] = place[t]
        BY <3>2, <1>1 DEF Inv, TypeOK
      <4>2. /\ joined[t] # NoTask <=> place[t] \in {"ctor", "join", "reclaim"}
            /\ place[t] = "reclaim" => state[joined[t]] = "COMPLETED"
        BY DEF Bookkeeping, Inv
      <4>3. joined[t] \in Tasks /\ state[joined[t]] = "COMPLETED" =>
              state'[joined[t]] = "COMPLETED"
        BY <1>1 DEF Inv, TypeOK
      <4>4. joined[t] # NoTask => joined[t] \in Tasks
        BY DEF Inv, TypeOK, Tasks
      <4>5. QED BY <4>1, <4>2, <4>3, <4>4
    <3>3. QED BY <3>1, <3>2
  <2>4. place'[kMainKernelTask] # "run"
    BY <1>1, <1>4 DEF Inv, TypeOK
  <2>5. QED BY <2>1, <2>2, <2>3, <2>4 DEF Bookkeeping
<1>9. QED BY <1>3, <1>5, <1>6, <1>7, <1>8 DEF Inv

\* Entering destroy_user_task preserves the invariant.
LEMMA DestroyCallInv ==
  ASSUME NEW c \in UserTasks PROVE Inv /\ destroy_user_task(c) => Inv'
<1> SUFFICES ASSUME Inv, destroy_user_task(c) PROVE Inv'
  OBVIOUS
<1> USE TaskAssumption
<1>1. /\ isUserTask(CurrentTask) /\ place[CurrentTask] = "run"
      /\ state[c] # "none" /\ parent[c] = CurrentTask
      /\ place' = [place EXCEPT ![CurrentTask] = "join"]
      /\ joined' = [joined EXCEPT ![CurrentTask] = c]
      /\ cpl' = 0
      /\ UNCHANGED <<ReadyQueue, CurrentTask, state, user_in_kernel_space, parent,
                     code, tick, esp0, cr3, halt>>
  BY DEF destroy_user_task, InUserCode, child_tasks
<1>2. QueueExact' /\ \A t \in Queued' \cup {CurrentTask'} : state'[t] # "none"
  BY <1>1, SameQueue
<1>3. TypeOK'
  BY <1>1 DEF TypeOK, Inv, Place
<1>4. ContextMatches'
  BY <1>1 DEF ContextMatches, Inv, TypeOK
<1>5. LiveReferences'
  <2>1. \A t \in Tasks : joined'[t] # NoTask =>
          state'[joined'[t]] # "none" /\ parent'[joined'[t]] = t
    BY <1>1 DEF LiveReferences, Inv, TypeOK
  <2>2. \A t \in UserTasks : state'[t] # "none" =>
          parent'[t] \in Tasks /\ state'[parent'[t]] # "none"
    BY <1>1 DEF LiveReferences, Inv
  <2>3. ASSUME NEW t \in Tasks, NEW u \in Tasks, joined'[t] # NoTask,
               joined'[u] = joined'[t]
        PROVE  u = t
    BY <2>1, <2>3
  <2>4. QED BY <1>2, <2>1, <2>2, <2>3 DEF LiveReferences
<1>6. Bookkeeping'
  <2>1. ASSUME NEW t \in Tasks
        PROVE  /\ joined'[t] # NoTask <=> place'[t] \in {"ctor", "join", "reclaim"}
               /\ place'[t] = "reclaim" => state'[joined'[t]] = "COMPLETED"
    <3>1. CASE t = CurrentTask
      BY <3>1, <1>1 DEF Inv, TypeOK
    <3>2. CASE t # CurrentTask
      <4>1. joined'[t] = joined[t] /\ place'[t] = place[t]
        BY <3>2, <1>1 DEF Inv, TypeOK
      <4>2. /\ joined[t] # NoTask <=> place[t] \in {"ctor", "join", "reclaim"}
            /\ place[t] = "reclaim" => state[joined[t]] = "COMPLETED"
        BY DEF Bookkeeping, Inv
      <4>3. state' = state
        BY <1>1
      <4>4. QED BY <4>1, <4>2, <4>3
    <3>3. QED BY <3>1, <3>2
  <2>2. QED BY <1>1, <2>1 DEF Bookkeeping, Inv, TypeOK, Tasks, isUserTask
<1>7. QED BY <1>2, <1>3, <1>4, <1>5, <1>6 DEF Inv

\* Join's return preserves the invariant.
LEMMA JoinInv == Inv /\ Join => Inv'
<1> SUFFICES ASSUME Inv, Join PROVE Inv'
  OBVIOUS
<1> USE TaskAssumption
<1>1. /\ place[CurrentTask] = "join"
      /\ state[joined[CurrentTask]] = "COMPLETED"
      /\ place' = [place EXCEPT ![CurrentTask] = "reclaim"]
      /\ UNCHANGED <<ReadyQueue, CurrentTask, state, user_in_kernel_space, parent,
                     code, joined, tick, cpl, esp0, cr3, halt>>
  BY DEF Join
<1>2. QueueExact' /\ \A t \in Queued' \cup {CurrentTask'} : state'[t] # "none"
  BY <1>1, SameQueue
<1>3. TypeOK'
  BY <1>1 DEF TypeOK, Inv, Place
<1>4. ContextMatches'
  BY <1>1 DEF ContextMatches, Inv, TypeOK
<1>5. LiveReferences'
  BY <1>1, <1>2 DEF LiveReferences, Inv
<1>6. Bookkeeping'
  BY <1>1 DEF Bookkeeping, Inv, TypeOK, Tasks
<1>7. QED BY <1>2, <1>3, <1>4, <1>5, <1>6 DEF Inv

\* Stopping the machine changes nothing else.
LEMMA HaltInv ==
  ASSUME Inv, halt' \in Halt,
         UNCHANGED <<ReadyQueue, CurrentTask, state, user_in_kernel_space, parent,
                     code, place, joined, tick, cpl, esp0, cr3>>
  PROVE  Inv'
<1>1. QueueExact'
  BY SameQueue
<1>2. LiveReferences'
  BY SameQueue DEF Inv, LiveReferences
<1>3. TypeOK'
  BY DEF Inv, TypeOK
<1>4. ContextMatches' /\ Bookkeeping'
  BY DEF Inv, ContextMatches, Bookkeeping
<1>5. QED BY <1>1, <1>2, <1>3, <1>4 DEF Inv

\* The end of a destructor preserves the invariant: the deleted task has no
\* children and is on no queue, so no pointer to it is left.
LEMMA DestroyTaskInv == Inv /\ DestroyTask => Inv'
<1> SUFFICES ASSUME Inv, DestroyTask PROVE Inv'
  OBVIOUS
<1> USE TaskAssumption
<1> DEFINE c == joined[CurrentTask]
<1>0. /\ place[CurrentTask] = "reclaim"
      /\ UNCHANGED <<ReadyQueue, CurrentTask, tick, esp0, cr3>>
  BY DEF DestroyTask
<1>1. CASE child_tasks(c) # {}
  <2>1. /\ halt' = "assert childless"
        /\ UNCHANGED <<state, user_in_kernel_space, parent, code, place, joined, cpl>>
    BY <1>1 DEF DestroyTask
  <2>2. QED BY <1>0, <2>1, HaltInv DEF Halt
<1>2. CASE child_tasks(c) = {}
  <2>1. /\ state' = [state EXCEPT ![c] = "none"]
        /\ user_in_kernel_space' = [user_in_kernel_space EXCEPT ![c] = FALSE]
        /\ parent' = [parent EXCEPT ![c] = NoTask]
        /\ code' = [code EXCEPT ![c] = FALSE]
        /\ joined' = [joined EXCEPT ![CurrentTask] = NoTask]
        /\ place' = [place EXCEPT ![CurrentTask] =
                       IF isUserTask(CurrentTask) THEN "run" ELSE "end"]
        /\ cpl' = IF isUserTask(CurrentTask) THEN 3 ELSE 0
        /\ halt' = halt
    BY <1>2 DEF DestroyTask
  <2>2. /\ c \in UserTasks /\ c \in Tasks /\ state[c] = "COMPLETED"
        /\ c # CurrentTask /\ c # kMainKernelTask /\ CurrentTask \in Tasks
        /\ place[c] = "run" /\ joined[c] = NoTask
    BY <1>0 DEF Inv, TypeOK, Bookkeeping, Tasks
  <2>3. \A t \in Tasks \ {CurrentTask} : joined[t] # c
    BY <1>0, <2>2 DEF Inv, LiveReferences, TypeOK
  <2>4. \A t \in UserTasks : state[t] # "none" => parent[t] # c
    BY <1>2 DEF child_tasks
  <2> HIDE DEF c
  <2>5. /\ state'[c] = "none"
        /\ \A t \in Tasks \ {c} : /\ state'[t] = state[t]
                                  /\ parent'[t] = parent[t]
                                  /\ user_in_kernel_space'[t] = user_in_kernel_space[t]
        /\ joined'[CurrentTask] = NoTask
        /\ place'[CurrentTask] = IF isUserTask(CurrentTask) THEN "run" ELSE "end"
        /\ \A t \in Tasks \ {CurrentTask} : joined'[t] = joined[t] /\ place'[t] = place[t]
    BY <2>1, <2>2 DEF Inv, TypeOK
  <2>6. TypeOK'
    BY <1>0, <2>1, <2>2 DEF TypeOK, Inv, Place
  <2>7. QueueExact'
    <3>1. Queued' = Queued
      BY <1>0 DEF Queued
    <3>2. \A t \in Tasks : t \in Queued' <=> state'[t] \in {"READY", "RUNNING"}
      BY <3>1, <2>2, <2>5 DEF Inv, QueueExact
    <3>3. QED BY <1>0, <3>2 DEF QueueExact, Inv
  <2>8. ContextMatches'
    BY <1>0, <2>1, <2>5 DEF ContextMatches, Inv, isUserTask
  <2>9. LiveReferences'
    <3>1. /\ \A t \in Queued' : state'[t] # "none"
          /\ state'[CurrentTask'] # "none"
      BY <1>0, <2>2, <2>5, <2>6, <2>7, QueuedAreLive DEF TypeOK, Inv, Bookkeeping
    <3>2. ASSUME NEW t \in UserTasks, state'[t] # "none"
          PROVE  parent'[t] \in Tasks /\ state'[parent'[t]] # "none"
      <4>1. t # c /\ t \in Tasks /\ state[t] # "none" /\ parent'[t] = parent[t]
        BY <3>2, <2>5 DEF Tasks
      <4>2. parent[t] \in Tasks \ {c} /\ state[parent[t]] # "none"
        BY <4>1, <2>4 DEF Inv, LiveReferences
      <4>3. QED BY <4>1, <4>2, <2>5
    <3>3. ASSUME NEW t \in Tasks, joined'[t] # NoTask
          PROVE  state'[joined'[t]] # "none" /\ parent'[joined'[t]] = t
      <4>1. t # CurrentTask /\ joined'[t] = joined[t] /\ joined[t] \in Tasks \ {c}
        BY <3>3, <2>3, <2>5 DEF Inv, TypeOK, Tasks
      <4>2. state[joined[t]] # "none" /\ parent[joined[t]] = t
        BY <3>3, <4>1 DEF Inv, LiveReferences
      <4>3. /\ state'[joined[t]] = state[joined[t]]
            /\ parent'[joined[t]] = parent[joined[t]]
        BY <4>1, <2>5
      <4>4. QED BY <4>1, <4>2, <4>3
    <3>4. QED BY <3>1, <3>2, <3>3 DEF LiveReferences
  <2>10. Bookkeeping'
    <3>1. state'[kMainKernelTask] = "RUNNING" /\ state'[CurrentTask'] = "RUNNING"
      BY <1>0, <2>2, <2>5 DEF Bookkeeping, Inv, Tasks
    <3>2. place'[kMainKernelTask] # "run"
      BY <2>5 DEF Bookkeeping, Inv, Tasks, isUserTask
    <3>3. ASSUME NEW t \in UserTasks
          PROVE  /\ place'[t] \in {"run", "join", "reclaim"}
                 /\ state'[t] # "RUNNING" => place'[t] = "run"
                 /\ state'[t] = "RUNNING" /\ t # CurrentTask' =>
                      (user_in_kernel_space'[t] <=> place'[t] # "run")
      <4>1. CASE t = CurrentTask
        BY <4>1, <1>0, <2>5 DEF isUserTask
      <4>2. CASE t # CurrentTask
        <5>1. t \in Tasks /\ place'[t] = place[t] /\ CurrentTask' = CurrentTask
          BY <4>2, <1>0, <2>5 DEF Tasks
        <5>2. /\ place[t] \in {"run", "join", "reclaim"}
              /\ state[t] # "RUNNING" => place[t] = "run"
              /\ state[t] = "RUNNING" => (user_in_kernel_space[t] <=> place[t] # "run")
          BY <4>2 DEF Bookkeeping, Inv
        <5>3. CASE t = c
          BY <5>1, <5>2, <5>3, <2>2, <2>5
        <5>4. CASE t # c
          <6>1. /\ state'[t] = state[t]
                /\ user_in_kernel_space'[t] = user_in_kernel_space[t]
            BY <5>1, <5>4, <2>5
          <6>2. QED BY <5>1, <5>2, <6>1, Zenon
        <5>5. QED BY <5>3, <5>4
      <4>3. QED BY <4>1, <4>2
    <3>4. ASSUME NEW t \in Tasks
          PROVE  /\ joined'[t] # NoTask <=> place'[t] \in {"ctor", "join", "reclaim"}
                 /\ place'[t] = "reclaim" => state'[joined'[t]] = "COMPLETED"
      <4>1. CASE t = CurrentTask
        BY <4>1, <2>5
      <4>2. CASE t # CurrentTask
        <5>0. joined'[t] = joined[t] /\ place'[t] = place[t] /\ joined[t] # c
          BY <4>2, <2>3, <2>5
        <5>1. /\ joined'[t] # NoTask <=> place'[t] \in {"ctor", "join", "reclaim"}
              /\ joined'[t] = joined[t] /\ place'[t] = place[t] /\ joined[t] # c
          BY <5>0 DEF Bookkeeping, Inv
        <5>2. place[t] = "reclaim" => joined[t] \in Tasks /\ state[joined[t]] = "COMPLETED"
          <6>1. joined[t] \in UserTasks \cup {NoTask}
            BY DEF Inv, TypeOK
          <6>2. QED BY <6>1 DEF Bookkeeping, Inv, Tasks
        <5>3. QED BY <5>1, <5>2, <2>5
      <4>3. QED BY <4>1, <4>2
    <3>5. QED BY <3>1, <3>2, <3>3, <3>4 DEF Bookkeeping
  <2>11. QED BY <2>6, <2>7, <2>8, <2>9, <2>10 DEF Inv
<1>3. QED BY <1>1, <1>2

\* The copy of the entry task's code preserves the invariant.
LEMMA CopyCodeInv == Inv /\ CopyCode => Inv'
<1> SUFFICES ASSUME Inv, CopyCode PROVE Inv'
  OBVIOUS
<1> USE TaskAssumption
<1>1. /\ CurrentTask = kMainKernelTask /\ place[kMainKernelTask] = "ctor"
      /\ code' = [code EXCEPT ![joined[kMainKernelTask]] = TRUE]
      /\ place' = [place EXCEPT ![kMainKernelTask] = "join"]
      /\ UNCHANGED <<ReadyQueue, CurrentTask, state, user_in_kernel_space, parent,
                     joined, tick, cpl, esp0, cr3, halt>>
  BY DEF CopyCode, MainAt
<1>2. QueueExact' /\ \A t \in Queued' \cup {CurrentTask'} : state'[t] # "none"
  BY <1>1, SameQueue
<1>3. TypeOK'
  BY <1>1 DEF TypeOK, Inv, Place
<1>4. ContextMatches'
  BY <1>1 DEF ContextMatches, Inv, isUserTask
<1>5. LiveReferences'
  BY <1>1, <1>2 DEF LiveReferences, Inv
<1>6. Bookkeeping'
  BY <1>1 DEF Bookkeeping, Inv, TypeOK, Tasks
<1>7. QED BY <1>2, <1>3, <1>4, <1>5, <1>6 DEF Inv

\* A page fault and the shutdown preserve the invariant.
LEMMA StopInv == Inv /\ (PageFault \/ KernelEnd \/ UNCHANGED vars) => Inv'
<1> USE TaskAssumption
<1>1. ASSUME Inv, PageFault PROVE Inv'
  BY <1>1, HaltInv DEF PageFault, Halt
<1>2. ASSUME Inv, UNCHANGED vars PROVE Inv'
  BY <1>2, HaltInv DEF vars, Inv, TypeOK
<1>3. ASSUME Inv, KernelEnd PROVE Inv'
  <2>1. /\ CurrentTask = kMainKernelTask /\ place[kMainKernelTask] = "end"
        /\ halt' \in Halt
        /\ place' = [place EXCEPT ![kMainKernelTask] = "off"]
        /\ UNCHANGED <<ReadyQueue, CurrentTask, state, user_in_kernel_space, parent,
                       code, joined, tick, cpl, esp0, cr3>>
    BY <1>3 DEF KernelEnd, MainAt, Halt
  <2>2. QueueExact' /\ \A t \in Queued' \cup {CurrentTask'} : state'[t] # "none"
    BY <1>3, <2>1, SameQueue
  <2>3. TypeOK'
    BY <1>3, <2>1 DEF TypeOK, Inv, Place
  <2>4. ContextMatches'
    BY <1>3, <2>1 DEF ContextMatches, Inv, isUserTask
  <2>5. LiveReferences'
    BY <1>3, <2>1, <2>2 DEF LiveReferences, Inv
  <2>6. Bookkeeping'
    BY <1>3, <2>1 DEF Bookkeeping, Inv, TypeOK, Tasks
  <2>7. QED BY <2>2, <2>3, <2>4, <2>5, <2>6 DEF Inv
<1>4. QED BY <1>1, <1>2, <1>3

\* Every step of the scheduler, from a timer tick to power-off, preserves the
\* invariant.
THEOREM StepInv == Inv /\ [Next]_vars => Inv'
  BY TimerInv, CreateInv, ExitInv, DestroyCallInv, JoinInv, DestroyTaskInv,
     KernelJumpInv, CopyCodeInv, StopInv
  DEF Next, Halted

\* The invariant holds in every state of the scheduler.
THEOREM Invariance == Spec => []Inv
  BY InitInv, StepInv, PTL DEF Spec

-----------------------------------------------------------------------------
(* The theorems *)

\* Types hold for every set of user tasks and every quantum.
THEOREM TypeCorrect == Spec => []TypeOK
  BY Invariance, PTL DEF Inv

\* However tasks are created, preempted, ended and destroyed, schedule() finds
\* the queue it assumes: no task twice, the running one last, and exactly the
\* unfinished ones on it.
THEOREM QueueIsExact == Spec => []QueueExact
  BY Invariance, PTL DEF Inv

\* Every switch restores the ring, the kernel stack and the page directory of
\* the task it switches to.
THEOREM ContextIsRight == Spec => []ContextMatches
  BY Invariance, PTL DEF Inv

\* No pointer to a deleted task is left in the queue, in a child or in a pending
\* destructor.
THEOREM NoDanglingTask == Spec => []LiveReferences
  BY Invariance, PTL DEF Inv

\* schedule() never gives the processor back to a task that exited.
THEOREM CompletedStaysCompleted == Spec => CompletedIsFinal
<1> DEFINE Final == \A t \in Tasks :
                      state[t] = "COMPLETED" => state'[t] \in {"COMPLETED", "none"}
<1>1. Inv /\ [Next]_vars => [Final]_vars
  <2> SUFFICES ASSUME Inv, Next, NEW t \in Tasks, state[t] = "COMPLETED"
               PROVE  state'[t] \in {"COMPLETED", "none"}
    BY DEF Inv
  <2>1. state \in [Tasks -> TaskState \cup {"none"}]
    BY DEF Inv, TypeOK
  <2>2. CASE TimerCallback
    <3>1. CASE NextTick = 0 /\ Len(ReadyQueue) > 1
      BY <3>1, <2>1, <2>2, HeadIsAnother DEF TimerCallback, ScheduleFromTimer
    <3>2. CASE ~(NextTick = 0 /\ Len(ReadyQueue) > 1)
      BY <3>2, <2>2 DEF TimerCallback
    <3>3. QED BY <3>1, <3>2
  <2>3. CASE exit_this_task
    <3>1. /\ state[Head(ReadyQueue)] # "COMPLETED"
          /\ state' = [state EXCEPT ![CurrentTask] = "COMPLETED",
                                    ![Head(ReadyQueue)] = "RUNNING"]
      BY <2>3, ExitHasSuccessor, HeadIsAnother
      DEF exit_this_task, InUserCode, ScheduleFromExit
    <3>2. QED BY <3>1, <2>1
  <2>4. CASE \E c \in UserTasks : create_user_task(c) \/ KernelJumpToUserEntry(c)
    BY <2>1, <2>4 DEF create_user_task, KernelJumpToUserEntry
  <2>5. CASE DestroyTask
    BY <2>1, <2>5 DEF DestroyTask
  <2>6. CASE UNCHANGED state
    BY <2>6
  <2>7. QED
    BY <2>2, <2>3, <2>4, <2>5, <2>6
    DEF Next, PageFault, destroy_user_task, Join, CopyCode, KernelEnd, Halted, vars
<1>2. QED BY Invariance, <1>1, PTL DEF Spec, CompletedIsFinal

-----------------------------------------------------------------------------
(* Main is alone when it reaches DestroyScheduler *)

Live == {t \in UserTasks : state[t] # "none"}

\* No cycle of parents: every set of live user tasks has a member whose parent is
\* outside the set.
Tree == \A S \in SUBSET Live : S # {} => \E t \in S : parent[t] \notin S

\* Main has one child at most, the entry task, and before it is created and after
\* it is destroyed there is no user task at all.
EntryOnly ==
  /\ \A t \in Live : parent[t] = kMainKernelTask => t = joined[kMainKernelTask]
  /\ place[kMainKernelTask] \in {"setup", "end", "off"} => Live = {}

Family == Inv /\ Tree /\ EntryOnly

\* A new task is a leaf of the tree.
LEMMA NewLeaf ==
  ASSUME Family, NEW c \in UserTasks, NEW p \in Tasks, state[c] = "none",
         state[p] # "none", state' = [state EXCEPT ![c] = "READY"],
         parent' = [parent EXCEPT ![c] = p]
  PROVE  Tree' /\ Live' = Live \cup {c}
<1>1. /\ Live' = Live \cup {c} /\ c \notin Live /\ p # c
      /\ parent'[c] = p /\ \A t \in Live : parent'[t] = parent[t] /\ parent[t] # c
  <2>1. c \in Tasks /\ c \notin Live /\ p # c /\ parent'[c] = p
    BY DEF Family, Inv, TypeOK, Live, Tasks
  <2>2. Live' = Live \cup {c}
    BY DEF Family, Inv, TypeOK, Live, Tasks
  <2>3. \A t \in Live : parent'[t] = parent[t]
    BY <2>1 DEF Family, Inv, TypeOK, Live, Tasks
  <2>4. \A t \in Live : parent[t] # c
    BY DEF Family, Inv, LiveReferences, Live
  <2>5. QED BY <2>1, <2>2, <2>3, <2>4
<1>2. ASSUME NEW S \in SUBSET (Live \cup {c}), S # {}
      PROVE  \E t \in S : parent'[t] \notin S
  <2>1. CASE S \ {c} = {}
    BY <2>1, <1>1, <1>2
  <2>2. CASE S \ {c} # {}
    <3>1. PICK t \in S \ {c} : parent[t] \notin S \ {c}
      BY <2>2 DEF Family, Tree
    <3>2. QED BY <3>1, <1>1
  <2>3. QED BY <2>1, <2>2
<1>3. QED BY <1>1, <1>2 DEF Tree

\* Every step keeps the unfinished and undeleted tasks one family under main.
LEMMA FamilyStep == Family /\ [Next]_vars => Family'
<1> SUFFICES ASSUME Family, [Next]_vars PROVE Tree' /\ EntryOnly'
  BY StepInv DEF Family
<1> USE TaskAssumption
<1>0. /\ state \in [Tasks -> TaskState \cup {"none"}]
      /\ parent \in [Tasks -> Tasks \cup {NoTask}]
      /\ place \in [Tasks -> Place]
      /\ CurrentTask \in Tasks /\ state[CurrentTask] = "RUNNING"
      /\ joined \in [Tasks -> UserTasks \cup {NoTask}]
      /\ kMainKernelTask \in Tasks /\ state[kMainKernelTask] = "RUNNING"
  BY DEF Family, Inv, TypeOK, Bookkeeping, Tasks
\* A step that creates and deletes no task, and in which main does not leave or
\* enter the places where it has no child.
<1>1. ASSUME Live' = Live, parent' = parent,
             joined'[kMainKernelTask] = joined[kMainKernelTask],
             place'[kMainKernelTask] \in {"setup", "end", "off"} =>
               place[kMainKernelTask] \in {"setup", "end", "off"}
      PROVE  Tree' /\ EntryOnly'
  BY <1>1 DEF Family, Tree, EntryOnly
<1>2. CASE TimerCallback
  <2>1. Live' = Live
    <3>1. CASE NextTick = 0 /\ Len(ReadyQueue) > 1
      BY <3>1, <1>0, <1>2, HeadIsAnother
      DEF TimerCallback, ScheduleFromTimer, Live, Family, Tasks
    <3>2. CASE ~(NextTick = 0 /\ Len(ReadyQueue) > 1)
      BY <3>2, <1>2 DEF TimerCallback, Live
    <3>3. QED BY <3>1, <3>2
  <2>2. QED BY <2>1, <1>1, <1>2 DEF TimerCallback
<1>3. CASE exit_this_task
  <2>1. /\ Head(ReadyQueue) \in Tasks
        /\ state[Head(ReadyQueue)] \in {"READY", "RUNNING"}
        /\ state' = [state EXCEPT ![CurrentTask] = "COMPLETED",
                                  ![Head(ReadyQueue)] = "RUNNING"]
    BY <1>3, ExitHasSuccessor, HeadIsAnother
    DEF exit_this_task, InUserCode, ScheduleFromExit, Family
  <2>2. Live' = Live
    BY <2>1, <1>0 DEF Live, Tasks
  <2>3. QED BY <2>2, <1>1, <1>3 DEF exit_this_task
<1>4. ASSUME NEW c \in UserTasks, create_user_task(c) PROVE Tree' /\ EntryOnly'
  <2>1. Tree' /\ Live' = Live \cup {c}
    BY <1>0, <1>4, NewLeaf DEF create_user_task
  <2>2. /\ CurrentTask \in Live /\ c \notin Live
        /\ parent'[c] = CurrentTask /\ \A t \in Live : parent'[t] = parent[t]
        /\ UNCHANGED <<place, joined>> /\ CurrentTask # kMainKernelTask
    BY <1>0, <1>4 DEF create_user_task, InUserCode, isUserTask, Live, Tasks
  <2>3. QED BY <2>1, <2>2 DEF EntryOnly, Family
<1>5. ASSUME NEW c \in UserTasks, KernelJumpToUserEntry(c) PROVE Tree' /\ EntryOnly'
  <2>1. Tree' /\ Live' = Live \cup {c}
    BY <1>0, <1>5, NewLeaf DEF KernelJumpToUserEntry
  <2>2. Live = {}
    BY <1>5 DEF KernelJumpToUserEntry, MainAt, EntryOnly, Family
  <2>3. joined'[kMainKernelTask] = c /\ place'[kMainKernelTask] = "ctor"
    BY <1>0, <1>5 DEF KernelJumpToUserEntry
  <2>4. QED BY <2>1, <2>2, <2>3 DEF EntryOnly
<1>6. ASSUME NEW c \in UserTasks, destroy_user_task(c) PROVE Tree' /\ EntryOnly'
  <2>1. CurrentTask # kMainKernelTask
    BY <1>6 DEF destroy_user_task, InUserCode, isUserTask
  <2>2. QED BY <2>1, <1>0, <1>1, <1>6 DEF destroy_user_task, Live
<1>7. CASE Join
  BY <1>0, <1>1, <1>7 DEF Join, Live
<1>8. CASE DestroyTask
  <2> DEFINE c == joined[CurrentTask]
  <2>1. CASE child_tasks(c) # {}
    BY <2>1, <1>1, <1>8 DEF DestroyTask, Live
  <2>2. CASE child_tasks(c) = {}
    <3>1. /\ state' = [state EXCEPT ![c] = "none"]
          /\ parent' = [parent EXCEPT ![c] = NoTask]
          /\ joined' = [joined EXCEPT ![CurrentTask] = NoTask]
          /\ place' = [place EXCEPT ![CurrentTask] =
                         IF isUserTask(CurrentTask) THEN "run" ELSE "end"]
          /\ place[CurrentTask] = "reclaim"
      BY <2>2, <1>8 DEF DestroyTask
    <3>2. c \in UserTasks /\ c \in Tasks /\ state[c] = "COMPLETED"
      <4>1. CurrentTask \in Tasks /\ c \in UserTasks \cup {NoTask}
        BY DEF Family, Inv, TypeOK
      <4>2. c # NoTask /\ state[c] = "COMPLETED"
        BY <4>1, <3>1 DEF Family, Inv, Bookkeeping
      <4>3. QED BY <4>1, <4>2 DEF Tasks
    <3>3. \A t \in Live : parent[t] # c
      BY <2>2 DEF child_tasks, Live
    <3> HIDE DEF c
    <3>4. Live' = Live \ {c} /\ \A t \in Live \ {c} : parent'[t] = parent[t]
      BY <1>0, <3>1, <3>2 DEF Live, Tasks
    <3>5. Tree'
      BY <3>4 DEF Tree, Family
    <3>6. CASE CurrentTask = kMainKernelTask
      <4>1. Live \ {c} = {}
        <5>1. SUFFICES ASSUME Live \ {c} # {} PROVE FALSE
          OBVIOUS
        <5>2. PICK t \in Live \ {c} : parent[t] \notin Live \ {c}
          BY <5>1 DEF Tree, Family
        <5>3. parent[t] \in Tasks /\ state[parent[t]] # "none"
          BY <5>2 DEF Family, Inv, LiveReferences, Live
        <5>4. parent[t] = kMainKernelTask
          BY <5>2, <5>3, <3>3 DEF Live, Tasks
        <5>5. QED BY <5>2, <5>4, <3>6 DEF EntryOnly, Family, c
      <4>2. QED BY <4>1, <3>4, <3>5 DEF EntryOnly
    <3>7. CASE CurrentTask # kMainKernelTask
      <4>1. /\ joined'[kMainKernelTask] = joined[kMainKernelTask]
            /\ place'[kMainKernelTask] = place[kMainKernelTask]
        BY <1>0, <3>1, <3>7
      <4>2. QED BY <4>1, <3>4, <3>5 DEF EntryOnly, Family
    <3>8. QED BY <3>6, <3>7
  <2>3. QED BY <2>1, <2>2
<1>9. CASE CopyCode
  BY <1>0, <1>1, <1>9 DEF CopyCode, Live
<1>10. CASE KernelEnd
  BY <1>0, <1>1, <1>10 DEF KernelEnd, MainAt, Live
<1>11. CASE PageFault \/ UNCHANGED vars
  BY <1>1, <1>11 DEF PageFault, vars, Live
<1>12. QED
  BY <1>2, <1>3, <1>4, <1>5, <1>6, <1>7, <1>8, <1>9, <1>10, <1>11 DEF Next, Halted

\* The assertion of DestroyScheduler holds whatever the programs did: each
\* destructor insists that its task has no child left, so when the entry task has
\* been destroyed nothing else is on the queue.
THEOREM MainEndsAlone == Spec => []MainIsAlone
<1>1. Init => Family
  <2> SUFFICES ASSUME Init PROVE Family
    OBVIOUS
  <2>1. Live = {}
    BY TaskAssumption DEF Init, Live, Tasks
  <2>2. QED BY <2>1, InitInv DEF Family, Tree, EntryOnly
<1>2. Family => MainIsAlone
  <2> SUFFICES ASSUME Family, place[kMainKernelTask] = "end"
               PROVE  ReadyQueue = <<kMainKernelTask>>
    BY DEF MainIsAlone
  <2>1. Live = {}
    BY DEF Family, EntryOnly
  <2>2. ReadyQueue \in Seq(Tasks) /\ Len(ReadyQueue) > 0
    BY DEF Family, Inv, TypeOK, QueueExact
  <2>3. \A i \in 1..Len(ReadyQueue) : ReadyQueue[i] = kMainKernelTask
    <3> SUFFICES ASSUME NEW i \in 1..Len(ReadyQueue)
                 PROVE  ReadyQueue[i] = kMainKernelTask
      OBVIOUS
    <3>1. ReadyQueue[i] \in Tasks /\ ReadyQueue[i] \in Queued
      BY <2>2 DEF Queued
    <3>2. state[ReadyQueue[i]] # "none"
      BY <3>1 DEF Family, Inv, LiveReferences
    <3>3. QED BY <3>1, <3>2, <2>1 DEF Live, Tasks
  <2>4. Len(ReadyQueue) = 1
    <3>1. Len(ReadyQueue) \in Nat /\ 1 \in 1..Len(ReadyQueue)
          /\ Len(ReadyQueue) \in 1..Len(ReadyQueue)
      BY <2>2
    <3>2. QED BY <3>1, <2>3 DEF Family, Inv, QueueExact
  <2>5. QED BY <2>2, <2>3, <2>4
<1>3. QED BY <1>1, <1>2, FamilyStep, PTL DEF Spec
=============================================================================
