------------------------------- MODULE Context -------------------------------
(***************************************************************************)
(* Interrupts and the switch of contexts, at the level of the words on the *)
(* stacks: the stubs of kernel/interrupt.S, the dispatch in kernel/isr.cpp,*)
(* what schedule() saves of a task (kernel/task.cpp) and the four routines *)
(* of kernel/task.S that put it back, over the tables of                   *)
(* kernel/descriptortables.cpp, from the start of the kernel on.           *)
(*                                                                         *)
(* The machine is a record m; what the processor and each routine do is an *)
(* operator from machines to machines.  A handler runs with interrupts off *)
(* and is one step.  Of the general registers, eax (system call number and *)
(* result) is kept apart, and the others are one word; es stands for es,   *)
(* fs and gs.  A stack is the sequence of its live words, the top last.    *)
(* The value of a word says what it is: see Eip, Gpr, KernelAddr, UserAddr.*)
(***************************************************************************)
EXTENDS Naturals, Sequences, FiniteSets

CONSTANTS
  UserTasks,    \* user tasks that can exist at one time, as numbers
  KernelTasks,  \* kernel tasks other than the main one, as numbers
  kQuanta,      \* timer ticks between two calls of schedule
  Faults,       \* vectors of the exceptions programs may raise
  Devices       \* interrupt lines other than the timer's that may be raised

ASSUME TaskAssumption ==
  /\ UserTasks \cup KernelTasks \subseteq 1..9
  /\ UserTasks \cap KernelTasks = {}

kMainKernelTask == 0

Tasks == {kMainKernelTask} \cup UserTasks \cup KernelTasks

isUserTask(t) == t \in UserTasks

VARIABLES
  m,     \* the machine
  boot,  \* how far KernelSetup has come
  lost,  \* history: the context a task had when it last lost the processor
  asked  \* history: the context of a user task when it made its system call

vars == <<m, boot, lost, asked>>

-----------------------------------------------------------------------------
(* Descriptor tables *)

kKernelCodeSegment == 8
kKernelDataSegment == 16
kUserCodeSegment == 27
kUserDataSegment == 35

kSyscallInterrupt == 128
IRQ0 == 32

\* InitGDT: the access bytes of the six descriptors.
gdt_entries == <<0, 154, 146, 250, 242, 233>>

Access(sel) == IF sel < 48 THEN gdt_entries[sel \div 8 + 1] ELSE 0
Dpl(access) == (access \div 32) % 4
IsCode(access) == (access \div 8) % 2 = 1

Ring(cs) == cs % 4

\* The vectors InitIDT gives a stub.  Gate 39 is set twice, and gate 30 never.
Isrs == (0..31 \ {30}) \cup {kSyscallInterrupt}
Irqs == 32..47

ASSUME VectorAssumption == Faults \subseteq Isrs /\ {32 + l : l \in Devices} \subseteq Irqs

\* The privilege a program needs to raise v with an int instruction.
GateDpl(v) == IF v = kSyscallInterrupt THEN 3 ELSE 0

\* The exceptions for which the processor itself pushes an error code.
HasErrorCode == {8, 10, 11, 12, 13, 14, 17}

\* The stubs that do not push a dummy error code.
ISR_ERRCODE == {8, 10, 11, 12, 13, 14, 17, 30}

-----------------------------------------------------------------------------
(* Words, stacks, and the context a program sees *)

Eflags(if) == IF if THEN 514 ELSE 2
InterruptFlag(eflags) == eflags \div 512 = 1

\* A point in the code of task t; 3 is the loop in Join.
Eip(t, p) == 1000 + 10 * t + p
Gpr(t, p) == 2000 + 10 * t + p
Eax(t, p) == 3000 + 10 * t + p

\* Stack addresses: kernel stacks are visible everywhere, and a program's stack
\* has the same address in each address space.
KernelAddr(t, depth) == 100 * t + depth
UserAddr(depth) == 5000 + depth
IsUserAddr(a) == a >= 5000

\* What is live below address a while task t's page directory is loaded.
StackAt(M, t, a) ==
  LET s == IF IsUserAddr(a) THEN M.ustack[t] ELSE M.kstack[a \div 100]
      n == IF IsUserAddr(a) THEN a - 5000 ELSE a % 100
  IN  SubSeq(s, 1, IF n < Len(s) THEN n ELSE Len(s))

InUser(M) == Ring(M.cpu.cs) = 3

\* Everything of the current task that an interruption has to leave alone.
Ctx(M) == [cpu |-> M.cpu,
           stack |-> IF InUser(M) THEN M.ustack[M.cur] ELSE M.kstack[M.stk]]

\* The machine at the start; GDTFlush has run, and main's code is somewhere on
\* the boot stack.
Cpu(cs, ds, es, t) ==
  [cs |-> cs, ss |-> ds, ds |-> ds, es |-> es, if |-> TRUE,
   eip |-> Eip(t, 1), eax |-> 0, gpr |-> 0]

Word(t) == 4000 + 10 * t

NoRegs == [esp |-> 0, eax |-> 0, gpr |-> 0, eip |-> 0, eflags |-> 0, ds |-> 0, es |-> 0]

Machine ==
  [cpu |-> [Cpu(kKernelCodeSegment, kKernelDataSegment, kKernelDataSegment,
                kMainKernelTask) EXCEPT !.if = FALSE],
   kstack |-> [t \in Tasks |-> IF t = kMainKernelTask THEN <<Word(t)>> ELSE <<>>],
   ustack |-> [t \in UserTasks |-> <<>>],
   stk |-> kMainKernelTask, tss |-> kMainKernelTask, cur |-> kMainKernelTask,
   regs |-> [t \in Tasks |-> NoRegs],
   state |-> [t \in Tasks |-> IF t = kMainKernelTask THEN "RUNNING" ELSE "none"],
   parent |-> [t \in Tasks |-> kMainKernelTask],
   flag |-> [t \in Tasks |-> FALSE],
   queue |-> <<>>, node |-> "none", item |-> <<>>, tick |-> 0, serving |-> {},
   handlers |-> {}, halt |-> "no"]

\* A machine that loops with interrupts off; nothing else of it matters.
Stopped(M, why) == [Machine EXCEPT !.halt = why]

Running == m.halt = "no"

-----------------------------------------------------------------------------
(* The processor and the interrupt controllers *)

\* An interrupt through the gate of v: from ring 3 onto the stack the TSS
\* names, from ring 0 onto the stack in use.
Interrupt(M, v, err) ==
  LET c == M.cpu
      old == IF InUser(M) THEN <<c.ss, UserAddr(Len(M.ustack[M.cur]))>> ELSE <<>>
      frame == old \o <<Eflags(c.if), c.cs, c.eip>>
                   \o (IF v \in HasErrorCode THEN <<err>> ELSE <<>>)
      stk == IF InUser(M) THEN M.tss ELSE M.stk
  IN  [M EXCEPT !.kstack[stk] = (IF InUser(M) THEN <<>> ELSE @) \o frame,
                !.stk = stk,
                !.cpu.cs = kKernelCodeSegment,
                !.cpu.ss = kKernelDataSegment,
                !.cpu.if = FALSE]

\* iret in ring 0, with stack s.  A code segment of a ring other than the one
\* its selector asks for is a general protection fault.  What is left on the
\* kernel stack of a task in ring 3 is dead: it is entered at its top.
Iret(M, s) ==
  LET n == Len(s)
      cs == s[n - 1]
      cpu == [M.cpu EXCEPT !.eip = s[n], !.cs = cs, !.if = InterruptFlag(s[n - 2])]
  IN  IF ~IsCode(Access(cs)) \/ Dpl(Access(cs)) # Ring(cs)
      THEN Stopped(M, "protection fault")
      ELSE IF Ring(cs) = 3
      THEN [M EXCEPT !.cpu = [cpu EXCEPT !.ss = s[n - 4]],
                     !.ustack[M.cur] = StackAt(M, M.cur, s[n - 3]),
                     !.kstack[M.cur] = <<>>,
                     !.stk = M.tss]
      ELSE [M EXCEPT !.cpu = cpu, !.kstack[M.stk] = SubSeq(s, 1, n - 3)]

Highest(lines) == {l \in lines : \A k \in lines : l <= k}

\* A line is held back while one of the same or of a higher priority is served;
\* the second controller is on line 2 of the first.
Deliverable(M, l) ==
  /\ M.cpu.if
  /\ IF l < 8 THEN \A s \in M.serving : s < 8 => l < s
              ELSE \A s \in M.serving : s > 2 /\ (s >= 8 => l < s)

Serve(M, l) ==
  [M EXCEPT !.serving = @ \cup (IF l < 8 THEN {l} ELSE {l, 2})]

-----------------------------------------------------------------------------
(* interrupt.S, isr.cpp *)

\* The stub of v, then SAVE_REGISTERS.
Enter(M, v, err) ==
  LET I == Interrupt(M, v, err)
      dummy == IF v \in Irqs \/ v \notin ISR_ERRCODE THEN <<0>> ELSE <<>>
      s == I.kstack[I.stk] \o dummy \o <<v>>
  IN  [I EXCEPT !.kstack[I.stk] =
                  s \o <<I.cpu.eax, KernelAddr(I.stk, Len(s)), I.cpu.gpr, I.cpu.ds>>,
                !.cpu.ds = kKernelDataSegment,
                !.cpu.es = kKernelDataSegment]

\* X86Registers: the fields of the frame on top of the stack.
Regs(M) ==
  LET s == M.kstack[M.stk]
      n == Len(s)
  IN  [ds |-> s[n], gpr |-> s[n - 1], esp |-> s[n - 2], eax |-> s[n - 3],
       int_no |-> s[n - 4], err_code |-> s[n - 5], eip |-> s[n - 6],
       cs |-> s[n - 7], eflags |-> s[n - 8],
       useresp |-> IF n > 9 THEN s[n - 9] ELSE 0,
       ss |-> IF n > 10 THEN s[n - 10] ELSE 0]

\* RESTORE_REGISTERS; no interrupt is taken between sti and iret.
Restore(M) ==
  LET r == Regs(M)
      s == M.kstack[M.stk]
  IN  Iret([M EXCEPT !.cpu = [@ EXCEPT !.ds = r.ds, !.es = r.ds, !.gpr = r.gpr,
                                       !.eax = r.eax, !.if = TRUE]],
           SubSeq(s, 1, Len(s) - 6))

\* The end of interrupt commands of irq_handler: to the second controller for
\* the lines behind it, to the first one always.
EndOfInterrupt(M) ==
  LET second == IF Regs(M).int_no >= 40
                THEN M.serving \ Highest(M.serving \cap 8..15) ELSE M.serving
  IN  [M EXCEPT !.serving = second \ Highest(second \cap 0..7)]

-----------------------------------------------------------------------------
(* task.S *)

\* SWAP_TASKS: all registers but eip, eflags and cs, and the stack.
SwapTasks(M, t) ==
  LET r == M.regs[t]
  IN  [M EXCEPT !.cpu = [@ EXCEPT !.eax = r.eax, !.gpr = r.gpr, !.ds = r.ds, !.es = r.es],
                !.stk = IF IsUserAddr(r.esp) THEN @ ELSE r.esp \div 100]

\* switch_first_kernel_task_run, switch_first_user_task_run
SwitchFirst(M, t) == Iret(SwapTasks(M, t), StackAt(M, t, M.regs[t].esp))

\* switch_kernel_task_run
SwitchKernel(M, t) ==
  LET r == M.regs[t]
  IN  Iret(SwapTasks(M, t),
           StackAt(M, t, r.esp) \o <<r.eflags, kKernelCodeSegment, r.eip>>)

\* switch_user_task_run: the frame for iret goes onto the program's own stack,
\* below what is live there.
SwitchUser(M, t) ==
  LET r == M.regs[t]
  IN  Iret(SwapTasks(M, t),
           StackAt(M, t, r.esp)
             \o <<kUserDataSegment, r.esp, r.eflags, kUserCodeSegment, r.eip>>)

-----------------------------------------------------------------------------
(* schedule() *)

\* Mutant: the words of the interrupt frame count as the task's.
AdjustedEspAtFrame(M) ==
  LET r == Regs(M)
  IN  IF isUserTask(M.cur) /\ r.cs = kUserCodeSegment THEN r.useresp ELSE r.esp

\* The stack pointer the current task had before the interrupt.
AdjustedEsp(M) ==
  LET r == Regs(M)
  IN  IF isUserTask(M.cur) /\ r.cs = kUserCodeSegment
      THEN r.useresp ELSE r.esp - 5

\* Mutant: the general registers are not saved.
SavedRegsStale(M) ==
  LET r == Regs(M)
  IN  [NoRegs EXCEPT !.esp = AdjustedEsp(M), !.eip = r.eip, !.eflags = r.eflags,
                     !.ds = r.ds, !.es = r.ds]

\* X86TaskRegs of the current task, from the frame of the timer interrupt.
SavedRegs(M) ==
  LET r == Regs(M)
  IN  [esp |-> AdjustedEsp(M), eax |-> r.eax, gpr |-> r.gpr, eip |-> r.eip,
       eflags |-> r.eflags, ds |-> r.ds, es |-> r.ds]

\* What schedule asserts of the frame.
FrameExpected(M) ==
  LET r == Regs(M)
  IN  /\ r.int_no = IRQ0 /\ r.err_code = 0
      /\ IF isUserTask(M.cur) /\ r.cs = kUserCodeSegment
         THEN r.ss = kUserDataSegment ELSE r.cs = kKernelCodeSegment

\* SetupBeforeTaskRun, as far as the TSS goes.
TssFor(M, t) == IF isUserTask(t) THEN t ELSE M.tss

\* The end of schedule: flags is user_in_kernel_space_ when the next task's
\* flag is read.  What was saved of a task is dead once it runs.
SwitchTo(M, t, flags) ==
  LET first == M.state[t] = "READY"
      N == [M EXCEPT !.tss = TssFor(M, t), !.cur = t, !.state[t] = "RUNNING"]
      R == IF first THEN SwitchFirst(N, t)
           ELSE IF isUserTask(t) /\ ~flags[t] THEN SwitchUser(N, t) ELSE SwitchKernel(N, t)
  IN  [R EXCEPT !.regs[t] = NoRegs]

\* user_in_kernel_space_ once schedule has looked at the frame.
FlagsSet(M) ==
  [M.flag EXCEPT ![M.cur] = isUserTask(M.cur) /\ Regs(M).cs # kUserCodeSegment]

\* schedule(regs): the current task keeps its place at the end of the queue.
ScheduleTimer(M) ==
  LET t == Head(M.queue)
  IN  IF ~FrameExpected(M) THEN Stopped(M, "assert")
      ELSE SwitchTo([M EXCEPT !.queue = Append(Tail(@), t),
                              !.regs[M.cur] = SavedRegs(M),
                              !.flag = FlagsSet(M)],
                    t, [M.flag EXCEPT ![M.cur] = FALSE])

\* schedule(nullptr), from exit_this_task.  Its kernel stack is dead after the
\* switch.
ScheduleExit(M) ==
  LET t == Head(M.queue)
      flags == [M.flag EXCEPT ![M.cur] = FALSE]
  IN  SwitchTo([M EXCEPT !.queue = SelectSeq(Append(Tail(@), t), LAMBDA x : x # M.cur),
                         !.state[M.cur] = "COMPLETED",
                         !.kstack[M.cur] = <<>>,
                         !.flag = flags],
               t, flags)

\* schedule() returns when there is no queue, or nobody else on it.  The word it
\* reads for that is the next pointer of the first node, of which node tells what
\* it holds while the main task's node is the only one: a null pointer, or
\* something that leads anywhere.
Schedule(M) ==
  IF M.node = "none" \/ (M.node = "null" /\ Len(M.queue) = 1) THEN Restore(M)
  ELSE IF M.node = "wild" THEN Stopped(M, "wild queue")
  ELSE ScheduleTimer(M)

-----------------------------------------------------------------------------
(* The C++ handlers *)

\* Mutant: the controller hears of the end when the handler has returned, which
\* a switch to another task never does.
TimerLateEnd(M) ==
  LET N == [M EXCEPT !.tick = (@ + 1) % kQuanta]
  IN  IF N.tick # 0 \/ Len(N.queue) <= 1
      THEN Restore(EndOfInterrupt(N)) ELSE Schedule(N)

\* irq_handler on the timer's line, with TimerCallback.
TimerHandler(M) ==
  LET N == [EndOfInterrupt(M) EXCEPT !.tick = (@ + 1) % kQuanta]
  IN  IF IRQ0 \notin M.handlers THEN Stopped(M, "unhandled")
      ELSE IF N.tick = 0 THEN Schedule(N) ELSE Restore(N)

\* isr_handler, where handled is what the registered handler, if there is one,
\* makes of M.
IsrHandler(M, handled) ==
  IF Regs(M).int_no \in M.handlers THEN handled
  ELSE IF isUserTask(M.cur) THEN ScheduleExit(M)
  ELSE Stopped(M, "unhandled")

kNumSyscalls == 12

\* SyscallHandler, where called is what the function with the number asked for
\* makes of M.
SyscallHandler(M, called) ==
  IF ~isUserTask(M.cur) THEN Stopped(M, "assert")
  ELSE IF Regs(M).eax >= kNumSyscalls THEN Stopped(M, "bad number")
  ELSE called

\* Mutant: the result goes where another register is saved.
AnswerElsewhere(M, ret) ==
  Restore([M EXCEPT !.kstack[M.stk][Len(M.kstack[M.stk]) - 1] = ret])

\* The result goes where popa takes eax from.
Answer(M, ret) ==
  Restore([M EXCEPT !.kstack[M.stk][Len(M.kstack[M.stk]) - 3] = ret])

\* int 0x80 with a number in eax, in the current program.
Syscall(M, num) ==
  Enter([M EXCEPT !.cpu.eax = num],
        IF GateDpl(kSyscallInterrupt) < Ring(M.cpu.cs) THEN 13 ELSE kSyscallInterrupt, 0)

\* What becomes of M, which has just made a system call.
SyscallDone(M, called) == IsrHandler(M, SyscallHandler(M, called))

-----------------------------------------------------------------------------
(* The start of the kernel *)

exit_word == 7000

\* The context in which a new task should start.
FirstContext(t) ==
  IF isUserTask(t)
  THEN [cpu |-> Cpu(kUserCodeSegment, kUserDataSegment, 0, t), stack |-> <<Word(t)>>]
  ELSE [cpu |-> Cpu(kKernelCodeSegment, kKernelDataSegment, 0, t),
        stack |-> <<Word(t), exit_word>>]

\* The histories: lost of the tasks that wait for the processor after a timer
\* interrupt, asked of those in a system call.
Remember ==
  /\ lost' = [t \in Tasks |->
       IF m'.halt # "no" \/ t = m'.cur \/ m'.state[t] # "RUNNING" THEN FirstContext(t)
       ELSE IF t = m.cur THEN Ctx(m) ELSE lost[t]]
  /\ asked' = [t \in Tasks |->
       IF m'.halt # "no" \/ m'.state[t] # "RUNNING" \/ (t = m'.cur /\ InUser(m'))
       THEN FirstContext(t)
       ELSE IF t = m'.cur /\ t = m.cur /\ InUser(m) THEN Ctx(m) ELSE asked[t]]

Init ==
  /\ m = Machine
  /\ boot = 0
  /\ lost = [t \in Tasks |-> FirstContext(t)]
  /\ asked = lost

\* One step of KernelSetup in the main task.
Boots(stage, M) ==
  /\ Running /\ boot = stage
  /\ boot' = stage + 1
  /\ m' = M
  /\ Remember

\* InitializePaging registers the handler of page faults.
InitializePaging == Boots(0, [m EXCEPT !.handlers = @ \cup {14}])

\* InitTimer, with EnableInterrupts.
InitTimer == Boots(1, [m EXCEPT !.handlers = @ \cup {IRQ0}, !.cpu.if = TRUE])

\* InitScheduler: CurrentTask, then the first node, with what was in that memory
\* before, then the node's fields.
InitScheduler ==
  \/ Boots(2, m)
  \/ \E garbage \in {"null", "wild"} :
       Boots(3, [m EXCEPT !.node = garbage, !.queue = <<kMainKernelTask>>])
  \/ Boots(4, [m EXCEPT !.node = "null"])

InitializeSyscalls == Boots(5, [m EXCEPT !.handlers = @ \cup {kSyscallInterrupt}])

Booted == 6

-----------------------------------------------------------------------------
(* Tasks *)

\* The stacks the constructors of UserTask and of KernelTask prepare.
FirstUserStack(t) ==
  <<Word(t), kUserDataSegment, UserAddr(1), Eflags(TRUE), kUserCodeSegment, Eip(t, 1)>>

FirstKernelStack(t) ==
  <<Word(t), exit_word, Eflags(TRUE), kKernelCodeSegment, Eip(t, 1)>>

\* Everything else of the two constructors up to AddToQueue; no constructor sets
\* the flag.
Constructed(M, t, garbage) ==
  [M EXCEPT
     !.state[t] = "READY", !.parent[t] = M.cur, !.flag[t] = garbage,
     !.kstack[t] = IF isUserTask(t) THEN <<>> ELSE FirstKernelStack(t),
     !.ustack = IF isUserTask(t) THEN [@ EXCEPT ![t] = FirstUserStack(t)] ELSE @,
     !.regs[t] = [NoRegs EXCEPT
        !.esp = IF isUserTask(t) THEN UserAddr(6) ELSE KernelAddr(t, 5),
        !.ds = IF isUserTask(t) THEN kUserDataSegment ELSE kKernelDataSegment]]

AddToQueue(M, t) == [M EXCEPT !.queue = <<t>> \o @]

Idle == Running /\ boot = Booted /\ m.cpu.if

\* The current task executes, main not in the middle of AddToQueue.
InTask == Idle /\ (m.cur = kMainKernelTask => m.item = <<>>)

MainRuns == InTask /\ m.cur = kMainKernelTask

\* Main makes kernel tasks, as kernel/tests.cpp does, or the entry task, when no
\* other is left: the constructor with the first store of AddToQueue, which keeps
\* the front of the queue as the new node's successor.
MainCreates(t) ==
  /\ MainRuns
  /\ m.state[t] = "none"
  /\ \A u \in UserTasks : m.state[u] = "none"
  /\ isUserTask(t) => \A k \in KernelTasks : m.state[k] = "none"
  /\ \E garbage \in BOOLEAN :
       m' = [Constructed(m, t, garbage) EXCEPT !.item = <<t, Head(m.queue)>>]
  /\ UNCHANGED boot /\ Remember

\* The second store.  Interrupts were on: when the node kept as the successor is
\* no longer at the front its task has exited, and the list goes through freed
\* memory, which is not followed (see ReadyQueue).
MainPublishes ==
  /\ Idle /\ m.cur = kMainKernelTask /\ m.item # <<>>
  /\ m' = IF m.item[2] = Head(m.queue)
          THEN AddToQueue([m EXCEPT !.item = <<>>], m.item[1])
          ELSE Stopped(m, "freed node")
  /\ UNCHANGED boot /\ Remember

\* The object and its stacks are gone.
Freed(M, t) ==
  [M EXCEPT !.state[t] = "none", !.parent[t] = kMainKernelTask, !.flag[t] = FALSE,
            !.ustack = IF isUserTask(t) THEN [@ EXCEPT ![t] = <<>>] ELSE @]

Childless(t) == \A c \in UserTasks : m.parent[c] = t => m.state[c] = "none"

\* Main destroys a task whose Join is over.
MainDestroys(t) ==
  /\ MainRuns
  /\ m.state[t] = "COMPLETED" /\ m.parent[t] = kMainKernelTask /\ Childless(t)
  /\ m' = Freed(m, t)
  /\ UNCHANGED boot /\ Remember

\* A kernel task's function returns, to exit_this_task.
KernelTaskReturns ==
  /\ Idle
  /\ m.cur \in KernelTasks
  /\ m.kstack[m.stk][2] = exit_word
  /\ m' = ScheduleExit([m EXCEPT !.cpu.if = FALSE])
  /\ UNCHANGED boot /\ Remember

\* The code of a program or of a kernel task goes on: registers change, and a
\* word is pushed or popped.
Toggle(s, n, w) == IF Len(s) = n THEN Append(s, w) ELSE SubSeq(s, 1, n)

OwnStep ==
  /\ InTask
  /\ InUser(m) \/ ~isUserTask(m.cur)
  /\ LET t == m.cur
         p == 3 - (m.cpu.eip % 10)
     IN  m' = [m EXCEPT
           !.cpu = [@ EXCEPT !.eip = Eip(t, p), !.gpr = Gpr(t, p), !.eax = Eax(t, p)],
           !.ustack = IF InUser(m) THEN [@ EXCEPT ![t] = Toggle(@, 1, Word(t) + 1)] ELSE @,
           !.kstack = IF InUser(m) THEN @
                      ELSE [@ EXCEPT ![t] = Toggle(@, IF t = kMainKernelTask THEN 1 ELSE 2,
                                                   Word(t) + 1)]]
  /\ UNCHANGED boot /\ Remember

-----------------------------------------------------------------------------
(* Interrupts *)

TimerReady == Running /\ boot >= 2 /\ Deliverable(m, 0)

\* The timer's line.  A task that loses the processor does so here.
TimerInterrupt ==
  /\ TimerReady
  /\ m' = TimerHandler(Enter(Serve(m, 0), IRQ0, 0))
  /\ UNCHANGED boot /\ Remember

\* irq_handler on a line without a handler: PANIC.
DeviceInterrupt(l) ==
  /\ Running /\ boot >= 1 /\ Deliverable(m, l)
  /\ m' = Stopped(EndOfInterrupt(Enter(Serve(m, l), 32 + l, 0)), "device")
  /\ UNCHANGED boot /\ Remember

InProgram == Idle /\ InUser(m)

\* An exception in a program.  HandlePageFault stops the machine; without a
\* handler the task exits.
Exception(v) ==
  /\ InProgram
  /\ LET M == Enter(m, v, IF v \in HasErrorCode THEN 1 ELSE 0)
     IN  m' = IsrHandler(M, Stopped(M, "page fault"))
  /\ UNCHANGED boot /\ Remember

\* The HandleInterrupt test: a handler for vector 3, int $3, no handler again.
HandleInterrupt ==
  /\ MainRuns
  /\ LET M == Enter([m EXCEPT !.handlers = @ \cup {3}], 3, 0)
     IN  m' = [IsrHandler(M, Restore(M)) EXCEPT !.handlers = @ \ {3}]
  /\ UNCHANGED boot /\ Remember

\* The calls that only answer: number 0 stands for 2 and 5 to 11 as well, and
\* kNumSyscalls for a number that no function has.
PlainCall(num) ==
  /\ InProgram
  /\ LET M == Syscall(m, num)
     IN  m' = SyscallDone(M, Answer(M, 0))
  /\ UNCHANGED boot /\ Remember

exit_user_task ==
  /\ InProgram
  /\ LET M == Syscall(m, 1)
     IN  m' = SyscallDone(M, ScheduleExit(M))
  /\ UNCHANGED boot /\ Remember

create_user_task(c) ==
  /\ InProgram
  /\ m.state[c] = "none"
  /\ LET M == Syscall(m, 3)
     IN  \E garbage \in BOOLEAN :
           m' = SyscallDone(M, Answer(AddToQueue(Constructed(M, c, garbage), c), 0))
  /\ UNCHANGED boot /\ Remember

\* destroy_user_task up to Join: interrupts on, and the words of the C++ frames
\* on the kernel stack, among them the handle.
JoinWord(c) == 6000 + c

destroy_user_task(c) ==
  /\ InProgram
  /\ m.state[c] # "none" /\ m.parent[c] = m.cur
  /\ LET M == Syscall(m, 4)
     IN  m' = SyscallDone(M,
           [M EXCEPT !.kstack[M.stk] = Append(@, JoinWord(c)),
                     !.cpu = [@ EXCEPT !.if = TRUE, !.eip = Eip(M.cur, 3),
                                       !.gpr = Gpr(M.cur, 3), !.eax = Eax(M.cur, 3)]])
  /\ UNCHANGED boot /\ Remember

\* The rest of it, when the task waited for has exited.
DestroyReturns(c) ==
  /\ Idle /\ isUserTask(m.cur) /\ ~InUser(m)
  /\ m.kstack[m.stk] # <<>> /\ m.kstack[m.stk][Len(m.kstack[m.stk])] = JoinWord(c)
  /\ m.state[c] = "COMPLETED" /\ Childless(c)
  /\ m' = Answer([Freed(m, c) EXCEPT !.cpu.if = FALSE,
                           !.kstack[m.stk] = SubSeq(@, 1, Len(@) - 1)], 0)
  /\ UNCHANGED boot /\ Remember

\* Mutant: the allocator keeps a pointer of its own in free memory.
kfree_links(M) == [M EXCEPT !.node = "wild"]

\* kfree of the first node.  Free writes headers of chunks, never their memory.
kfree(M) == M

\* KernelEnd: DestroyScheduler frees the node, interrupts still on; ReadyQueue
\* goes on pointing to it.
KernelEnd ==
  /\ MainRuns
  /\ m.queue = <<kMainKernelTask>> /\ m.node = "null"
  /\ \A t \in Tasks \ {kMainKernelTask} : m.state[t] = "none"
  /\ m' = kfree(m)
  /\ boot' = Booted + 1
  /\ Remember

PowerOff ==
  /\ Running /\ boot = Booted + 1
  /\ m' = Stopped(m, "shutdown")
  /\ UNCHANGED boot /\ Remember

Halted == ~Running /\ UNCHANGED vars

Next ==
  \/ InitializePaging \/ InitTimer \/ InitScheduler \/ InitializeSyscalls
  \/ \E t \in Tasks \ {kMainKernelTask} : MainCreates(t) \/ MainDestroys(t)
  \/ MainPublishes \/ KernelTaskReturns \/ OwnStep
  \/ TimerInterrupt
  \/ \E l \in Devices : DeviceInterrupt(l)
  \/ \E v \in Faults : Exception(v)
  \/ HandleInterrupt
  \/ \E num \in {0, kNumSyscalls} : PlainCall(num)
  \/ exit_user_task
  \/ \E c \in UserTasks : create_user_task(c) \/ destroy_user_task(c) \/ DestroyReturns(c)
  \/ KernelEnd \/ PowerOff
  \/ Halted

\* The timer goes on ticking.  This is weak fairness of TimerInterrupt: it is
\* enabled exactly when TimerReady holds.
TimerFair == []<>(~TimerReady) \/ []<><<TimerInterrupt>>_vars

Spec == Init /\ [][Next]_vars /\ TimerFair

-----------------------------------------------------------------------------
(* Properties *)

Halts == {"no", "page fault", "device", "bad number", "shutdown"}

\* The context after is the one before.  An interruption leaves es, fs and gs
\* equal to ds; in its first turn a task has none in them.
Same(before, after) ==
  after = before \/ after = [before EXCEPT !.cpu.es = before.cpu.ds]

\* A task that gets the processor goes on exactly where it lost it, in the same
\* ring, with the same registers, flags and stack, or starts in the context its
\* constructor prepared: what schedule() saved from the interrupt frame and what
\* the routines of task.S put back fit together for every kind of task.
ResumedIntact ==
  [][m'.cur # m.cur /\ m'.halt = "no" => Same(lost[m'.cur], Ctx(m'))]_vars

\* The same context but for the result of a system call in eax.
Unseen(before, after) ==
  Same([before EXCEPT !.cpu.eax = 0], [after EXCEPT !.cpu.eax = 0])

\* An interruption after which the same task goes on is invisible to it, but for
\* the result of a system call in eax: also for destroy_user_task, during which
\* the task was preempted in the kernel, any number of times.
CallsReturnIntact ==
  [][/\ m.cur = m'.cur /\ m'.halt = "no" /\ InUser(m') /\ ~OwnStep
     => Unseen(IF InUser(m) THEN Ctx(m) ELSE asked[m.cur], Ctx(m'))]_vars

\* A kernel stack never holds more than the frame of a system call, the words of
\* that call, and nothing of an interrupt once it is over: repeated preemption in
\* the kernel does not let the stack grow (DEFAULT_THREAD_STACK_SIZE is fixed).
StacksStayShort ==
  Running => /\ \A t \in UserTasks : m.cur = t => Len(m.kstack[t]) <= 12
             /\ ~InUser(m) => m.stk = m.cur

\* The machine stops only for what the code means to stop for: no assertion of
\* schedule, of isr_handler or of SyscallHandler fails, no iret faults, no timer
\* interrupt comes unhandled, and a tick after DestroyScheduler is harmless.  The
\* exceptions are a tick in the middle of InitScheduler and, in the tests of the
\* kernel, the exit of a task in the middle of AddToQueue.
OnlyExpectedStops ==
  \/ m.halt \in Halts
  \/ m.halt = "wild queue" /\ boot = 4
  \/ m.halt = "freed node" /\ boot = Booted

\* The timer ticks for ever, once started: no switch of tasks, exit or system
\* call leaves the controller waiting for the end of an interrupt.
TimerKeepsTicking ==
  \A i \in 0..kQuanta - 1 : (boot >= 2) ~> (~Running \/ m.tick = i)
=============================================================================
