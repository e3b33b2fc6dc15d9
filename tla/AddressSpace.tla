---------------------------- MODULE AddressSpace ----------------------------
(***************************************************************************)
(* What pages hold, and the processor's way to them: the page memory with  *)
(* the contents of the frames, the page directory in cr3 and the TLB.      *)
(* Task::Write, Task::Read and the UserTask constructor (kernel/task.cpp)  *)
(* appear here with the loads and stores they make through mappings.       *)
(*                                                                         *)
(* Of a page only the words that the start of a program depends on are     *)
(* told apart.  An operation is an operator from a kernel state k to a     *)
(* kernel state.                                                           *)
(***************************************************************************)
EXTENDS PageMemory

CONSTANT
  InvlpgDropsAll   \* does invlpg make the processor drop all its TLB entries,
                   \* as an emulator may, or only the one it is given?

ASSUME InvlpgAssumption == InvlpgDropsAll \in BOOLEAN

\* The words of a page: the word at the top of the shared space, with a task's
\* argument; the word of the first stack that holds the entry address; the
\* ArgInfo and packed argv in the stack frame of LoadElfProgram; the archive at
\* the bottom of the shared space; the code of a program.
Words == {"arg", "entry", "arginfo", "argv", "vfs", "code"}

\* Words hold tuples, the empty one for a word nobody has written.
Unset == <<>>

NoEntries == [v \in Pages |-> NoFrame]

\* A kernel state after KernelSetup.
Booted ==
  [mem |-> KernelSetup(FALSE), cr3 |-> KernelPageDir, tlb |-> NoEntries,
   data |-> [p \in Frames |-> [w \in Words |-> Unset]]]

OnPages(k, m) == [k EXCEPT !.mem = m]

-----------------------------------------------------------------------------
(* The processor *)

\* Mutant: nothing is invalidated.
InvlpgKeeps(k) == k

\* invlpg %0, with "m"(v_addr): the operand is the variable that holds the
\* address, so the entry it drops is that of a page of the kernel, which never
\* changes.
Invlpg(k) == IF InvlpgDropsAll THEN [k EXCEPT !.tlb = NoEntries] ELSE k

\* A load of cr3 empties the TLB.
SwitchPageDirectory(k, d) == [k EXCEPT !.cr3 = d, !.tlb = NoEntries]

\* The frame an access to page v goes to.
Translated(k, v) == IF k.tlb[v] # NoFrame THEN k.tlb[v] ELSE k.mem.pd[k.cr3][v]

\* An access fills the TLB, or faults.
Touch(k, v) ==
  IF ~Running(k.mem) THEN k
  ELSE IF Translated(k, v) = NoFrame THEN OnPages(k, Failed(k.mem, "Page fault"))
  ELSE [k EXCEPT !.tlb[v] = Translated(k, v)]

Store(k, v, w, x) ==
  LET t == Touch(k, v)
  IN  IF Running(t.mem) THEN [t EXCEPT !.data[t.tlb[v]][w] = x] ELSE t

Load(k, v, w) == IF Running(Touch(k, v).mem) THEN k.data[Translated(k, v)][w] ELSE Unset

-----------------------------------------------------------------------------
(* Mappings and copies *)

MappedFresh(k, d, v, start) == Invlpg(OnPages(k, AddFreshPage(k.mem, d, v, start)))

MappedFrom(k, task, v, d, w) == Invlpg(OnPages(k, MapFrom(k.mem, task, v, d, w)))

Unmapped(k, d, v) == Invlpg(OnPages(k, RemovePage(k.mem, d, v)))

\* Task::Write of word w of page v of task, by the current task.
Write(k, task, v, w, x) ==
  IF task = k.cr3 THEN Store(k, v, w, x)
  ELSE LET a == MappedFrom(k, task, v, k.cr3, TMP_SHARED_TASK_MEM_START)
       IN  Unmapped(Store(a, TMP_SHARED_TASK_MEM_START, w, x),
                    k.cr3, TMP_SHARED_TASK_MEM_START)

\* Task::Read of page v of task, by the current task, and the word it gets.
Read(k, task, v) ==
  IF task = k.cr3 THEN Touch(k, v)
  ELSE LET a == MappedFrom(k, task, v, k.cr3, TMP_SHARED_TASK_MEM_START)
       IN  Unmapped(Touch(a, TMP_SHARED_TASK_MEM_START),
                    k.cr3, TMP_SHARED_TASK_MEM_START)

ReadWord(k, task, v, w) ==
  IF task = k.cr3 THEN Load(k, v, w)
  ELSE LET a == MappedFrom(k, task, v, k.cr3, TMP_SHARED_TASK_MEM_START)
       IN  Load(a, TMP_SHARED_TASK_MEM_START, w)

-----------------------------------------------------------------------------
(* The UserTask constructor *)

\* copyfunc writes through cr3.  CopyArgDefault stores the argument at the top
\* of the shared space it sees; the entry task's copyfunc stores the initial
\* ramdisk at the bottom and returns where it starts.
copyfunc(k, arg) ==
  IF arg = <<"initrd">> THEN Store(k, USER_SHARED_SPACE_START, "vfs", arg)
  ELSE Store(k, USER_SHARED_SPACE_START, "arg", arg)

\* Mutant: the argument is left to copyfunc.
SetupStackUnwritten(k, s, arg, prog) ==
  LET k1 == MappedFresh(k, s, USER_SHARED_SPACE_START, 1)
      k2 == MappedFrom(k1, s, USER_SHARED_SPACE_START, KernelPageDir, USER_SHARED_SPACE_START)
      k3 == copyfunc(k2, arg)
      k5 == Write(k3, s, USER_SHARED_SPACE_START, "entry", prog)
  IN  Unmapped(k5, KernelPageDir, USER_SHARED_SPACE_START)

\* The first stack of the new task s: its argument, and where it starts.
SetupStackOf(k, s, arg, prog) ==
  LET k1 == MappedFresh(k, s, USER_SHARED_SPACE_START, 1)
      k2 == MappedFrom(k1, s, USER_SHARED_SPACE_START, KernelPageDir, USER_SHARED_SPACE_START)
      k3 == copyfunc(k2, arg)
      k4 == Write(k3, s, USER_SHARED_SPACE_START, "arg", arg)
      k5 == Write(k4, s, USER_SHARED_SPACE_START, "entry", prog)
  IN  Unmapped(k5, KernelPageDir, USER_SHARED_SPACE_START)

\* A UserTask for prog up to AddToQueue, created by the current task; its
\* directory is slot s.
QueuedUserTask(k, s, arg, prog) ==
  LET k1 == OnPages(k, Clone(k.mem))
  IN  IF Running(k1.mem) THEN SetupStackOf(k1, s, arg, prog) ELSE k1

\* The code page of the new task s, and the copy of the code to it.
MapCodeOf(k, s) == MappedFresh(k, s, USER_START, 0)

CopyCodeOf(k, s, prog) == Write(k, s, USER_START, "code", prog)

\* The whole constructor, in a system call.
NewUserTask(k, s, arg, prog) ==
  LET k1 == QueuedUserTask(k, s, arg, prog)
  IN  IF Running(k1.mem) THEN CopyCodeOf(MapCodeOf(k1, s), s, prog) ELSE k1

\* SetupBeforeTaskRun of task s, still in the address space of the one before:
\* on a first run the entry address on its stack is compared.
SetupBeforeTaskRun(k, s, first, prog) ==
  IF ~first THEN k
  ELSE LET r == Read(k, s, USER_SHARED_SPACE_START)
       IN  IF Running(r.mem) /\ ReadWord(k, s, USER_SHARED_SPACE_START, "entry") # prog
           THEN OnPages(r, Failed(r.mem, "stack_val")) ELSE r
=============================================================================
