----------------------------- MODULE RingProofs -----------------------------
(***************************************************************************)
(* For any set of user tasks and any quantum: the scheduler implements     *)
(* the ring of RoundRobin.                                                 *)
(***************************************************************************)
EXTENDS SchedulerProofs

-----------------------------------------------------------------------------
(* The ring of a list *)

\* The index after i in a list of n, the last followed by the first.
After(i, n) == IF i = n THEN 1 ELSE i + 1

\* RingOf's modulus counts round the list.
LEMMA AfterLemma ==
  ASSUME NEW n \in Nat, NEW i \in 1..n
  PROVE  (i % n) + 1 = After(i, n) /\ After(i, n) \in 1..n
<1>1. CASE i = n
  BY <1>1 DEF After
<1>2. CASE i # n
  BY <1>2 DEF After
<1>3. QED BY <1>1, <1>2

\* In a list without repetitions each task is followed by the one of the next
\* node.
LEMMA RingLemma ==
  ASSUME NEW S, NEW q \in Seq(S), Distinct(q)
  PROVE  /\ DOMAIN RingOf(q) = Members(q)
         /\ RingOf(q) = [t \in Members(q) |-> RingOf(q)[t]]
         /\ \A i \in 1..Len(q) : RingOf(q)[q[i]] = q[After(i, Len(q))]
<1>1. \A i \in 1..Len(q) : Position(q, q[i]) = i
  BY DEF Position, Distinct
<1>2. ASSUME NEW i \in 1..Len(q)
      PROVE  RingOf(q)[q[i]] = q[After(i, Len(q))]
  <2>1. q[i] \in {q[j] : j \in 1..Len(q)}
    OBVIOUS
  <2>2. RingOf(q)[q[i]] = q[(Position(q, q[i]) % Len(q)) + 1]
    BY <2>1 DEF RingOf
  <2>3. Len(q) \in Nat
    OBVIOUS
  <2>4. QED BY <2>2, <2>3, <1>1, AfterLemma
<1>3. DOMAIN RingOf(q) = Members(q) /\ RingOf(q) = [t \in Members(q) |-> RingOf(q)[t]]
  BY DEF RingOf, Members
<1>4. QED BY <1>2, <1>3

\* Two lists have the same ring when they have the same members and the same
\* task follows each of them.
LEMMA SameRing ==
  ASSUME NEW S, NEW q \in Seq(S), Distinct(q), NEW f,
         f = [t \in DOMAIN f |-> f[t]], DOMAIN f = Members(q),
         \A i \in 1..Len(q) : f[q[i]] = q[After(i, Len(q))]
  PROVE  RingOf(q) = f
<1>1. ASSUME NEW t \in Members(q) PROVE RingOf(q)[t] = f[t]
  <2>1. PICK i \in 1..Len(q) : t = q[i]
    BY InMembers
  <2>2. QED BY <2>1, RingLemma
<1>2. QED BY <1>1, RingLemma

-----------------------------------------------------------------------------
(* The three ways in which the queue changes *)

\* The queue of a reachable state, as a list without repetitions.
LEMMA QueueList ==
  ASSUME Inv
  PROVE  /\ ReadyQueue \in Seq(Tasks) /\ Distinct(ReadyQueue)
         /\ Len(ReadyQueue) \in Nat /\ Len(ReadyQueue) > 0
         /\ ReadyQueue[Len(ReadyQueue)] = CurrentTask
  BY DEF Inv, TypeOK, QueueExact, Distinct

\* The running task is on the ring, and the front of the queue comes after it.
LEMMA FrontIsNext ==
  ASSUME Inv
  PROVE  /\ CurrentTask \in Members(ReadyQueue)
         /\ RingOf(ReadyQueue)[CurrentTask] = Head(ReadyQueue)
<1> DEFINE n == Len(ReadyQueue)
<1>1. n \in 1..n /\ After(n, n) = 1 /\ Head(ReadyQueue) = ReadyQueue[1]
  BY QueueList DEF After
<1>2. CurrentTask \in Members(ReadyQueue)
  BY <1>1, QueueList, InMembers
<1>3. RingOf(ReadyQueue)[ReadyQueue[n]] = ReadyQueue[1]
  BY <1>1, QueueList, RingLemma
<1>4. QED BY <1>1, <1>2, <1>3, QueueList

\* Rotating a list turns its ring by nothing.
LEMMA RotateRing ==
  ASSUME NEW S, NEW q \in Seq(S), Distinct(q), Len(q) > 0
  PROVE  RingOf(Rotate(q)) = RingOf(q)
<1> DEFINE n == Len(q)
           r == Rotate(q)
<1>1. /\ r \in Seq(S) /\ Len(r) = n /\ Distinct(r) /\ Members(r) = Members(q)
      /\ n \in Nat /\ r[n] = q[1]
      /\ \A i \in 1..(n - 1) : r[i] = q[i + 1]
  BY RotateLemma, RotateMembers
<1>2. /\ DOMAIN RingOf(q) = Members(q)
      /\ RingOf(q) = [t \in DOMAIN RingOf(q) |-> RingOf(q)[t]]
      /\ \A i \in 1..n : RingOf(q)[q[i]] = q[After(i, n)]
  BY RingLemma
<1> HIDE DEF r
<1>3. ASSUME NEW i \in 1..n PROVE RingOf(q)[r[i]] = r[After(i, n)]
  <2>1. CASE i = n
    <3>1. r[i] = q[1] /\ 1 \in 1..n /\ RingOf(q)[q[1]] = q[After(1, n)]
      BY <2>1, <1>1, <1>2
    <3>2. After(i, n) = 1 /\ r[1] = q[After(1, n)]
      BY <2>1, <1>1 DEF After
    <3>3. QED BY <3>1, <3>2
  <2>2. CASE i # n
    <3>1. /\ i \in 1..(n - 1) /\ i + 1 \in 1..n /\ After(i, n) = i + 1
      BY <2>2, <1>1 DEF After
    <3>2. RingOf(q)[r[i]] = q[After(i + 1, n)]
      BY <3>1, <1>1, <1>2
    <3>3. r[i + 1] = q[After(i + 1, n)]
      <4>1. CASE i + 1 = n
        BY <4>1, <1>1 DEF After
      <4>2. CASE i + 1 # n
        BY <4>2, <3>1, <1>1 DEF After
      <4>3. QED BY <4>1, <4>2
    <3>4. QED BY <3>1, <3>2, <3>3
  <2>3. QED BY <2>1, <2>2
<1>4. RingOf(r) = RingOf(q)
  BY <1>1, <1>2, <1>3, SameRing
<1>5. QED BY <1>4 DEF r

\* A timer switch moves along the ring.
LEMMA TimerRing ==
  ASSUME Inv, Len(ReadyQueue) > 1, ScheduleFromTimer
  PROVE  Ring!Switch
<1>1. ReadyQueue' = Rotate(ReadyQueue) /\ CurrentTask' = Head(ReadyQueue)
  BY DEF ScheduleFromTimer, SwitchTo
<1>2. RingOf(ReadyQueue') = RingOf(ReadyQueue)
  BY <1>1, QueueList, RotateRing
<1>3. CurrentTask' = RingOf(ReadyQueue)[CurrentTask]
  BY <1>1, FrontIsNext
<1>4. QED BY <1>2, <1>3 DEF Ring!Switch

\* AddToQueue puts a new task between the running one and the front.
LEMMA CreateRing ==
  ASSUME Inv, NEW c \in UserTasks, state[c] = "none",
         ReadyQueue' = <<c>> \o ReadyQueue,
         state' = [state EXCEPT ![c] = "READY"],
         CurrentTask' = CurrentTask
  PROVE  Ring!Create(c)
<1> DEFINE n == Len(ReadyQueue)
           R == RingOf(ReadyQueue)
           q == <<c>> \o ReadyQueue
           f == [t \in Members(ReadyQueue) \cup {c} |->
                   IF t = CurrentTask THEN c
                   ELSE IF t = c THEN R[CurrentTask] ELSE R[t]]
<1>1. /\ DOMAIN R = Members(ReadyQueue) /\ CurrentTask \in Members(ReadyQueue)
      /\ R[CurrentTask] = ReadyQueue[1] /\ n \in Nat /\ n > 0
      /\ \A i \in 1..n : R[ReadyQueue[i]] = ReadyQueue[After(i, n)]
      /\ ReadyQueue[n] = CurrentTask /\ ReadyQueue \in Seq(Tasks)
      /\ Distinct(ReadyQueue)
  BY QueueList, FrontIsNext, RingLemma
<1>2. c \notin Members(ReadyQueue) /\ c \in Tasks
  BY DEF Inv, QueueExact, Queued, Members, Tasks
<1>3. /\ q \in Seq(Tasks) /\ Len(q) = n + 1 /\ q[1] = c
      /\ \A i \in 1..n : q[i + 1] = ReadyQueue[i]
  BY <1>1, <1>2
<1>4. Distinct(q) /\ Members(q) = Members(ReadyQueue) \cup {c}
  <2>1. \A i \in 1..n : ReadyQueue[i] # c
    BY <1>2, InMembers
  <2>2. \A i \in 1..(n + 1) : i = 1 \/ (i - 1 \in 1..n /\ q[i] = ReadyQueue[i - 1])
    <3> TAKE i \in 1..(n + 1)
    <3>1. CASE i # 1
      <4>1. i - 1 \in 1..n /\ (i - 1) + 1 = i
        BY <3>1, <1>1
      <4>2. QED BY <4>1, <1>3
    <3>2. QED BY <3>1
  <2>3. Distinct(q)
    BY CreateQueue DEF QueueExact, Distinct
  <2> HIDE DEF q
  <2>4. ASSUME NEW x PROVE x \in Members(q) => x \in Members(ReadyQueue) \cup {c}
    <3>1. ASSUME NEW i \in 1..Len(q), x = q[i]
          PROVE  x \in Members(ReadyQueue) \cup {c}
      BY <3>1, <2>2, <1>3, InMembers
    <3>2. QED BY <3>1, InMembers
  <2>5. ASSUME NEW x PROVE x \in Members(ReadyQueue) \cup {c} => x \in Members(q)
    <3>1. CASE x = c
      BY <3>1, <1>1, <1>3, InMembers
    <3>2. ASSUME NEW i \in 1..n, x = ReadyQueue[i] PROVE x \in Members(q)
      <4>1. i + 1 \in 1..Len(q) /\ q[i + 1] = x
        BY <3>2, <1>1, <1>3
      <4>2. QED BY <4>1, InMembers
    <3>3. QED BY <3>1, <3>2, InMembers
  <2>6. QED BY <2>3, <2>4, <2>5
<1> HIDE DEF q, R
<1>5. ASSUME NEW i \in 1..(n + 1) PROVE f[q[i]] = q[After(i, n + 1)]
  <2>1. CASE i = 1
    <3>1. f[c] = ReadyQueue[1] /\ After(i, n + 1) = 1 + 1 /\ 1 \in 1..n
      BY <2>1, <1>1, <1>2 DEF After
    <3>2. QED BY <2>1, <3>1, <1>3
  <2>2. CASE i = n + 1
    <3>1. n \in 1..n /\ After(i, n + 1) = 1
      BY <2>2, <1>1 DEF After
    <3>2. q[i] = CurrentTask
      BY <3>1, <2>2, <1>1, <1>3
    <3>3. QED BY <3>1, <3>2, <1>1, <1>3
  <2>3. CASE i # 1 /\ i # n + 1
    <3>1. /\ i - 1 \in 1..n /\ i \in 1..n /\ (i - 1) + 1 = i
          /\ After(i - 1, n) = i /\ After(i, n + 1) = i + 1 /\ i - 1 # n
      BY <2>3, <1>1 DEF After
    <3>2. q[i] = ReadyQueue[i - 1] /\ q[i + 1] = ReadyQueue[i]
      BY <3>1, <1>3
    <3>3. q[i] \in Members(ReadyQueue) /\ q[i] # CurrentTask
      <4>1. q[i] \in Members(ReadyQueue)
        BY <3>1, <3>2, InMembers
      <4>2. n \in 1..n
        BY <1>1
      <4>3. QED BY <4>1, <4>2, <3>1, <3>2, <1>1 DEF Distinct
    <3>4. f[q[i]] = R[q[i]]
      BY <3>3, <1>2
    <3>5. R[q[i]] = ReadyQueue[i]
      BY <3>1, <3>2, <1>1
    <3>6. QED BY <3>1, <3>2, <3>4, <3>5
  <2>4. QED BY <2>1, <2>2, <2>3
<1>6. RingOf(q) = f
  <2>1. DOMAIN f = Members(q) /\ f = [t \in DOMAIN f |-> f[t]]
    BY <1>4
  <2> HIDE DEF f
  <2>2. \A i \in 1..Len(q) : f[q[i]] = q[After(i, Len(q))]
    BY <1>3, <1>5
  <2>3. QED BY <2>1, <2>2, <1>3, <1>4, SameRing
<1>7. QED BY <1>1, <1>2, <1>6 DEF Ring!Create, Ring!OnRing, q, R

\* Unlinking the last task but one of a list without repetitions: the node
\* before it is then followed by the last one.
LEMMA UnlinkNodes ==
  ASSUME NEW S, NEW q \in Seq(S), NEW t, Distinct(q),
         Len(q) > 1, q[Len(q) - 1] = t
  PROVE  \A j \in 1..(Len(q) - 2) : Unlink(q, t)[j] = q[j]
<1> DEFINE n == Len(q)
           P(i) == q[i] = t /\ \A j \in 1..(i - 1) : q[j] # t
<1>0. n \in Nat /\ n > 1 /\ n - 1 \in 1..n
  OBVIOUS
<1>1. (CHOOSE i \in 1..n : P(i)) = n - 1
  <2>1. P(n - 1)
    BY <1>0 DEF Distinct
  <2>2. \A i \in 1..n : P(i) => i = n - 1
    BY <1>0 DEF Distinct
  <2>3. QED BY <1>0, <2>1, <2>2
<1>2. Unlink(q, t) = [j \in 1..(n - 1) |-> IF j < n - 1 THEN q[j] ELSE q[j + 1]]
  BY <1>1 DEF Unlink
<1>3. QED BY <1>0, <1>2

\* exit_this_task cuts the running task out of the ring.
LEMMA ExitRing ==
  ASSUME Inv, isUserTask(CurrentTask), ScheduleFromExit
  PROVE  Ring!Exit
<1> DEFINE n == Len(ReadyQueue)
           R == RingOf(ReadyQueue)
           q == Rotate(ReadyQueue)
           r == Unlink(q, CurrentTask)
           f == [t \in Members(ReadyQueue) \ {CurrentTask} |->
                   IF R[t] = CurrentTask THEN R[CurrentTask] ELSE R[t]]
<1>1. /\ n \in Nat /\ n > 1
      /\ ReadyQueue \in Seq(Tasks) /\ Distinct(ReadyQueue)
      /\ ReadyQueue[n] = CurrentTask
  BY ExitHasSuccessor, QueueList
<1>2. /\ DOMAIN R = Members(ReadyQueue) /\ CurrentTask \in Members(ReadyQueue)
      /\ R[CurrentTask] = ReadyQueue[1] /\ Head(ReadyQueue) = ReadyQueue[1]
      /\ \A i \in 1..n : R[ReadyQueue[i]] = ReadyQueue[After(i, n)]
  BY <1>1, FrontIsNext, RingLemma
<1>3. /\ q \in Seq(Tasks) /\ Len(q) = n /\ q[n] = ReadyQueue[1]
      /\ \A i \in 1..(n - 1) : q[i] = ReadyQueue[i + 1]
      /\ Members(q) = Members(ReadyQueue) /\ Distinct(q)
  BY <1>1, RotateLemma, RotateMembers
<1>4. q[Len(q) - 1] = CurrentTask /\ Len(q) > 1
  <2>1. n - 1 \in 1..(n - 1) /\ (n - 1) + 1 = n
    BY <1>1
  <2>2. QED BY <2>1, <1>1, <1>3
<1> HIDE DEF q, R
<1>5. /\ r \in Seq(Tasks) /\ Len(r) = n - 1 /\ r[n - 1] = ReadyQueue[1]
      /\ Distinct(r) /\ Members(r) = Members(ReadyQueue) \ {CurrentTask}
      /\ \A i \in 1..(n - 2) : r[i] = ReadyQueue[i + 1]
  <2>1. /\ r \in Seq(Tasks) /\ Len(r) = Len(q) - 1 /\ r[Len(q) - 1] = q[Len(q)]
        /\ Distinct(r) /\ Members(r) = Members(q) \ {CurrentTask}
    BY <1>3, <1>4, UnlinkLemma
  <2>2. \A i \in 1..(Len(q) - 2) : r[i] = q[i]
    BY <1>3, <1>4, UnlinkNodes
  <2> HIDE DEF r
  <2>3. \A i \in 1..(n - 2) : i \in 1..(n - 1)
    BY <1>1
  <2>4. QED BY <2>1, <2>2, <2>3, <1>3
<1> HIDE DEF r
\* The node of r at i is the queue's at i + 1, or the queue's front at the end.
<1>6. ASSUME NEW i \in 1..(n - 1) PROVE f[r[i]] = r[After(i, n - 1)]
  <2>0. r[i] \in Members(ReadyQueue) \ {CurrentTask}
    BY <1>5, InMembers
  <2>1. CASE i < n - 2
    <3>1. /\ i \in 1..(n - 2) /\ i + 1 \in 1..(n - 2) /\ i + 1 \in 1..n
          /\ i + 2 \in 1..n /\ (i + 1) + 1 = i + 2 /\ i + 2 # n
          /\ After(i, n - 1) = i + 1 /\ After(i + 1, n) = i + 2
      BY <2>1, <1>1 DEF After
    <3>2. R[r[i]] = ReadyQueue[i + 2] /\ r[i + 1] = ReadyQueue[i + 2]
      BY <3>1, <1>2, <1>5
    <3>3. ReadyQueue[i + 2] # CurrentTask
      <4>1. n \in 1..n
        BY <1>1
      <4>2. QED BY <4>1, <3>1, <1>1 DEF Distinct
    <3>4. QED BY <2>0, <3>1, <3>2, <3>3
  <2>2. CASE i = n - 2
    <3>1. /\ i \in 1..(n - 2) /\ i + 1 \in 1..n
          /\ After(i, n - 1) = n - 1 /\ After(i + 1, n) = n
      BY <2>2, <1>1 DEF After
    <3>2. R[r[i]] = CurrentTask
      BY <3>1, <1>1, <1>2, <1>5
    <3>3. QED BY <2>0, <3>1, <3>2, <1>2, <1>5
  <2>3. CASE i = n - 1
    <3>1. r[i] = ReadyQueue[1] /\ After(i, n - 1) = 1 /\ 1 \in 1..n
      BY <2>3, <1>1, <1>5 DEF After
    <3>2. CASE n < 3
      <4>1. R[r[i]] = CurrentTask
        BY <3>1, <3>2, <1>1, <1>2 DEF After
      <4>2. QED BY <4>1, <3>1, <3>2, <2>0, <2>3, <1>2
    <3>3. CASE n > 2
      <4>0. 1 \in 1..(n - 2) /\ 1 + 1 \in 1..n
        BY <3>3, <1>1
      <4>1. /\ 1 \in 1..(n - 2) /\ After(1, n) = 1 + 1
            /\ 1 + 1 \in 1..n /\ 1 + 1 # n
        BY <4>0, <1>1 DEF After
      <4>2. R[r[i]] = ReadyQueue[1 + 1] /\ r[1] = ReadyQueue[1 + 1]
        BY <4>1, <3>1, <1>2, <1>5
      <4>3. ReadyQueue[1 + 1] # CurrentTask
        <5>1. n \in 1..n
          BY <1>1
        <5>2. QED BY <5>1, <4>1, <1>1 DEF Distinct
      <4>4. QED BY <4>2, <4>3, <3>1, <2>0
    <3>4. QED BY <3>2, <3>3, <1>1
  <2>4. QED BY <2>1, <2>2, <2>3, <1>1
<1>7. RingOf(r) = f
  <2>1. DOMAIN f = Members(r) /\ f = [t \in DOMAIN f |-> f[t]]
    BY <1>5
  <2> HIDE DEF f
  <2>2. \A i \in 1..Len(r) : f[r[i]] = r[After(i, Len(r))]
    BY <1>5, <1>6
  <2>3. QED BY <2>1, <2>2, <1>5, SameRing
<1>8. ReadyQueue' = r /\ CurrentTask' = ReadyQueue[1]
  BY <1>2 DEF ScheduleFromExit, SwitchTo, q, r
<1>9. CurrentTask # kMainKernelTask
  BY TaskAssumption DEF isUserTask
<1>10. QED BY <1>2, <1>7, <1>8, <1>9 DEF Ring!Exit, Ring!OnRing, R

-----------------------------------------------------------------------------
(* The refinement *)

\* The boot leaves a ring of the main task alone.
LEMMA InitRing == Init => Ring!Init
<1> SUFFICES ASSUME Init PROVE Ring!Init
  OBVIOUS
<1>1. /\ ReadyQueue = <<kMainKernelTask>> /\ CurrentTask = kMainKernelTask
  BY DEF Init
<1>2. /\ ReadyQueue \in Seq(Tasks) /\ Len(ReadyQueue) = 1
      /\ ReadyQueue[1] = kMainKernelTask /\ Distinct(ReadyQueue)
  BY <1>1 DEF Distinct, Tasks
<1>3. Members(ReadyQueue) = {kMainKernelTask}
  BY <1>2 DEF Members
<1> DEFINE f == [t \in {kMainKernelTask} |-> kMainKernelTask]
<1>4. RingOf(ReadyQueue) = f
  <2>1. \A i \in 1..Len(ReadyQueue) : f[ReadyQueue[i]] = ReadyQueue[After(i, Len(ReadyQueue))]
    BY <1>2 DEF After
  <2>2. DOMAIN f = Members(ReadyQueue) /\ f = [t \in DOMAIN f |-> f[t]]
    BY <1>3
  <2> HIDE DEF f
  <2>3. QED BY <2>1, <2>2, <1>2, SameRing
<1>5. QED BY <1>1, <1>4 DEF Ring!Init

\* Every step of the scheduler is a step of the ring, or leaves it alone.
LEMMA StepRing ==
  Inv /\ [Next]_vars => [Ring!Next]_<<RingOf(ReadyQueue), CurrentTask>>
<1> SUFFICES ASSUME Inv, [Next]_vars
             PROVE  [Ring!Next]_<<RingOf(ReadyQueue), CurrentTask>>
  OBVIOUS
<1>1. CASE UNCHANGED <<ReadyQueue, CurrentTask>>
  BY <1>1
<1>2. CASE TimerCallback
  <2>1. CASE NextTick = 0 /\ Len(ReadyQueue) > 1
    BY <2>1, <1>2, TimerRing DEF TimerCallback, Ring!Next
  <2>2. CASE ~(NextTick = 0 /\ Len(ReadyQueue) > 1)
    BY <2>2, <1>1, <1>2 DEF TimerCallback
  <2>3. QED BY <2>1, <2>2
<1>3. CASE exit_this_task
  BY <1>3, ExitRing DEF exit_this_task, InUserCode, Ring!Next
<1>4. ASSUME NEW c \in UserTasks, create_user_task(c) \/ KernelJumpToUserEntry(c)
      PROVE  Ring!Next
  <2>1. Ring!Create(c) /\ c \in Tasks
    BY <1>4, CreateRing DEF create_user_task, KernelJumpToUserEntry, Tasks
  <2>2. QED BY <2>1 DEF Ring!Next
<1>5. QED
  BY <1>1, <1>2, <1>3, <1>4
  DEF Next, PageFault, destroy_user_task, Join, DestroyTask, CopyCode, KernelEnd,
      Halted, vars

\* The scheduler implements the ring: whatever mixture of timer switches, exits
\* and system calls happens, tasks are taken in ring order, a new one right after
\* its creator, and only exits and creations change the ring.
THEOREM RingIsImplemented == Spec => ImplementsRing
<1>1. Spec => []Inv
  BY Invariance
<1>2. QED
  BY <1>1, InitRing, StepRing, PTL DEF Spec, ImplementsRing, Ring!Spec
=============================================================================
