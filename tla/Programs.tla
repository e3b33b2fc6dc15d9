------------------------------ MODULE Programs ------------------------------
(***************************************************************************)
(* The programs of the initial ramdisk, from the boot to the shell and its *)
(* commands: userboot stage 1 (userboot/userboot.cpp), stage 2             *)
(* (userboot-stage2.cpp), two flat test programs, the shell (shell.cpp)    *)
(* and the commands it runs through system (libc/system.cpp).  A program   *)
(* is started by LoadElfProgram (libc/elf.cpp) in its parent and by        *)
(* pre_main (libc/pre-main.cpp) in itself: it reads its arguments from its *)
(* parent's stack and the archive from the entry task's shared space,      *)
(* through pages it shares for that time.                                  *)
(*                                                                         *)
(* Composed of the address spaces of AddressSpace and of the life cycle of *)
(* Scheduler, of which only this much is kept: any unfinished task can be  *)
(* the next.  A task is named by the slot of its page directory.  A system *)
(* call is one step; the steps of a program between two of them are apart. *)
(* The main task constructs the entry task with interrupts on: once it is  *)
(* on the queue it may run, before its code has been copied.               *)
(***************************************************************************)
EXTENDS AddressSpace, Sequences

CONSTANTS
  Commands,  \* the programs that are run from the shell: ls, the shell itself
  Argvs      \* the argument lists they are given

ASSUME CommandAssumption == Commands \subseteq {"ls", "shell"}

NextPage == USER_START + 1        \* the heap page of a program
Pointer == <<"&arginfo">>         \* what LoadElfProgram passes as arg
Null == <<"null">>

\* pre_main up to the call of main.
pre_main == <<"map_page", "share_args", "memcpy", "unmap", "share_vfs", "ParseUSTAR",
              "unmap", "copy_argv">>

\* What each program does, one entry for each system call or read.
Script ==
  [stage1 |-> <<"initrd", "map_page", "LoadElfProgram", "DestroyTask", "exit">>,
   stage2 |-> pre_main \o <<"RunFlatUserBinary", "RunFlatUserBinary", "DestroyTask",
                            "DestroyTask", "LoadElfProgram", "DestroyTask", "exit">>,
   flat   |-> <<"exit">>,
   shell  |-> pre_main \o <<"system", "DestroyTask", "exit">>,
   ls     |-> pre_main \o <<"main", "exit">>]

\* The program the two stages load.
Loads == [stage1 |-> "stage2", stage2 |-> "shell"]

VARIABLES
  kern,     \* pages, frames, TLB; kern.cr3 names the current task
  task,     \* the user tasks that are not deleted
  main      \* the main task: before the entry task; in its constructor, before
            \* and after its code page is mapped; in its Join; at the end

vars == <<kern, task, main>>

Init == kern = Booted /\ task = <<>> /\ main = "setup"

\* A new UserTask: what it is, where it is, what it has read so far, the tasks
\* it has to destroy, and the arguments it is meant to get.
NewTask(prog, by, argv) ==
  [prog |-> prog, state |-> "READY", parent |-> by, pc |-> 1, win |-> 0, env |-> Unset,
   vfs |-> Unset, argv |-> Unset, kids |-> <<>>, ret |-> 0, given |-> argv]

At(t) == Script[task[t].prog][task[t].pc]

\* Has task t left the first n steps of its script behind?
Past(t, n) == task[t].pc > n

Unfinished == {t \in DOMAIN task : task[t].state # "COMPLETED"}

\* Is the program of task t where it executes?
HasCode(t) ==
  LET p == kern.mem.pd[t][USER_START]
  IN  p # NoFrame /\ kern.data[p]["code"] = <<task[t].prog>>

Executes(t) == /\ Running(kern.mem) /\ t \in DOMAIN task /\ kern.cr3 = t
               /\ task[t].state = "RUNNING"

On(t, step) == Executes(t) /\ HasCode(t) /\ At(t) = step

\* A task that executes at USER_START without its program: a page fault, or the
\* bytes of a frame nobody has filled, which is not followed.
Fetch(t) ==
  /\ Executes(t) /\ ~HasCode(t)
  /\ kern' = OnPages(kern, Failed(kern.mem, "no code"))
  /\ UNCHANGED task

Advanced(t) == [task EXCEPT ![t].pc = @ + 1]

-----------------------------------------------------------------------------
(* Start-up *)

\* Stage 1 finds the archive in its own shared space.
initrd(t) ==
  /\ On(t, "initrd")
  /\ kern' = Touch(kern, USER_SHARED_SPACE_START)
  /\ task' = [Advanced(t) EXCEPT ![t].vfs = Load(kern, USER_SHARED_SPACE_START, "vfs")]

\* The heap.  A program that cannot get it leaves with a system call -1.
map_page(t) ==
  /\ On(t, "map_page")
  /\ kern' = IF kern.mem.pd[t][NextPage] # NoFrame
             THEN OnPages(kern, Failed(kern.mem, "Invalid syscall!"))
             ELSE MappedFresh(kern, t, NextPage, 1)
  /\ task' = Advanced(t)

FreeUserPages(t) == {v \in UserPages : kern.mem.pd[t][v] = NoFrame}

\* share_page of the shared space of task o, by t.
Shared(t, o) ==
  IF FreeUserPages(t) = {} THEN OnPages(kern, Failed(kern.mem, "next_free_vpage"))
  ELSE MappedFrom(kern, o, USER_SHARED_SPACE_START, t, Min(FreeUserPages(t)))

\* The page it chose.
ThroughWindow(t) ==
  [Advanced(t) EXCEPT ![t].win = IF FreeUserPages(t) = {} THEN 0 ELSE Min(FreeUserPages(t))]

\* The page of the parent that the argument points into; a pointer elsewhere
\* names a page that is not there.
share_args(t) ==
  /\ On(t, "share_args")
  /\ kern' = IF Load(kern, USER_SHARED_SPACE_START, "arg") = Pointer
             THEN Shared(t, task[t].parent)
             ELSE OnPages(kern, Failed(kern.mem, "page not present"))
  /\ task' = ThroughWindow(t)

memcpy(t) ==
  /\ On(t, "memcpy")
  /\ kern' = Touch(kern, task[t].win)
  /\ task' = [Advanced(t) EXCEPT ![t].env = Load(kern, task[t].win, "arginfo")]

\* Mutant: the page stays shared.
unmap_forgotten(t) ==
  /\ On(t, "unmap")
  /\ kern' = kern
  /\ task' = Advanced(t)

unmap_page(t) ==
  /\ On(t, "unmap")
  /\ kern' = Unmapped(kern, t, task[t].win)
  /\ task' = Advanced(t)

\* The owner of the archive is the second part of what memcpy read.  A handle
\* that is none makes the kernel fault.
share_vfs(t) ==
  /\ On(t, "share_vfs")
  /\ kern' = IF Len(task[t].env) = 2 /\ task[t].env[2] \in DOMAIN task
             THEN Shared(t, task[t].env[2])
             ELSE OnPages(kern, Failed(kern.mem, "Page fault"))
  /\ task' = ThroughWindow(t)

ParseUSTAR(t) ==
  /\ On(t, "ParseUSTAR")
  /\ kern' = Touch(kern, task[t].win)
  /\ task' = [Advanced(t) EXCEPT ![t].vfs = Load(kern, task[t].win, "vfs")]

\* copy_from_task of the packed arguments.
copy_argv(t) ==
  /\ On(t, "copy_argv")
  /\ kern' = Read(kern, task[t].parent, USER_SHARED_SPACE_START)
  /\ task' = [Advanced(t) EXCEPT
       ![t].argv = ReadWord(kern, task[t].parent, USER_SHARED_SPACE_START, "argv")]

-----------------------------------------------------------------------------
(* Creating and destroying tasks *)

\* CreateTask by t, from kernel state k.
Create(t, k, prog, arg, argv) ==
  LET new == IF FreeSlots(k.mem) = {} THEN {} ELSE {Min(FreeSlots(k.mem))}
  IN  /\ kern' = IF new = {} THEN OnPages(k, Clone(k.mem))
                 ELSE NewUserTask(k, Min(new), arg, prog)
      /\ task' = [u \in DOMAIN task \cup new |->
                    IF u \in new THEN NewTask(prog[1], t, argv)
                    ELSE IF u = t /\ new # {}
                      THEN [task[t] EXCEPT !.pc = @ + 1, !.kids = Append(@, Min(new))]
                    ELSE task[u]]

\* RunFlatUserBinary, without an argument.
RunFlatUserBinary(t) ==
  On(t, "RunFlatUserBinary") /\ Create(t, kern, <<"flat">>, Null, Unset)

\* The environment a program hands on: stage 1 names itself as the owner of
\* the archive.
env_info(t) == IF task[t].prog = "stage1" THEN <<"owner", t>> ELSE task[t].env

\* LoadElfProgram up to CreateTask: ArgInfo and packed argv are put on its stack.
LoadElfProgram(t, prog, argv) ==
  LET k1 == Store(kern, USER_SHARED_SPACE_START, "arginfo", env_info(t))
      k2 == Store(k1, USER_SHARED_SPACE_START, "argv", argv)
  IN  Create(t, k2, <<prog>>, Pointer, argv)

\* The shell's loop, with the line it read: a command to run; or one that ends
\* the shell, be it "exit", a file that is no program, or a failed assertion of
\* ArgvFromArgString, which looks at bytes nobody wrote.  An unknown or empty
\* command changes nothing.
system(t) ==
  /\ On(t, "system")
  /\ \/ \E prog \in Commands, argv \in Argvs : LoadElfProgram(t, prog, argv)
     \/ task' = [task EXCEPT ![t].pc = @ + 2] /\ UNCHANGED kern

\* Mutant: LoadElfProgram returns without waiting for the program to exit.
DestroyTaskReturns(t) ==
  /\ On(t, "DestroyTask")
  /\ task' = [task EXCEPT ![t].pc = IF task[t].prog = "shell" THEN @ - 1 ELSE @ + 1]
  /\ kern' = Store(kern, USER_SHARED_SPACE_START, "arginfo", Unset)

\* The rest of ~UserTask and ~Task of the oldest task t created, once it has
\* exited.  LoadElfProgram then returns, and its stack frame is gone; the shell
\* goes on to the next line.
DestroyTask(t) ==
  /\ On(t, "DestroyTask")
  /\ LET d == Head(task[t].kids)
         m == ReclaimPageDirRegion(kern.mem, d)
     IN  /\ task[d].state = "COMPLETED"
         /\ task' = [u \in DOMAIN task \ {d} |->
                       IF u # t THEN task[u]
                       ELSE [task[t] EXCEPT
                               !.pc = IF task[t].prog = "shell" THEN @ - 1 ELSE @ + 1,
                               !.kids = Tail(@)]]
         /\ kern' = IF task[d].kids # <<>>
                    THEN OnPages(kern, Failed(m, "child_tasks_.empty()"))
                    ELSE Store(OnPages(kern, m), USER_SHARED_SPACE_START, "arginfo", Unset)

-----------------------------------------------------------------------------
(* The scheduler and the main task *)

First(u) == u # KernelPageDir /\ task[u].state = "READY"

Started(f, u) == IF u = KernelPageDir THEN f ELSE [f EXCEPT ![u].state = "RUNNING"]

\* schedule() switches to u; f is task with the states of the others.
SwitchTo(u, f) ==
  LET k == IF u = KernelPageDir THEN kern
           ELSE SetupBeforeTaskRun(kern, u, First(u), <<task[u].prog>>)
  IN  /\ kern' = IF Running(k.mem) THEN SwitchPageDirectory(k, u) ELSE k
      /\ task' = Started(f, u)

\* The timer: any other unfinished task.
schedule(u) ==
  /\ u \in Unfinished \cup {KernelPageDir}
  /\ u # kern.cr3
  /\ main \in {"queued", "mapped", "join"} /\ Running(kern.mem)
  /\ SwitchTo(u, task)
  /\ UNCHANGED main

\* A command ends well or not.
ls_main(t) ==
  /\ On(t, "main")
  /\ \E ret \in {0, 1} : task' = [Advanced(t) EXCEPT ![t].ret = ret]
  /\ UNCHANGED kern

\* Mutant: after an error the number is another one.
exit_number_shifted(t) ==
  IF task[t].prog \in {"stage1", "flat"} \/ task[t].ret = 0 THEN 1 ELSE task[t].ret + 1

\* The number of the system call a program ends with: crt0.S takes a return
\* value other than 0 for it, start_user_program.S does not look at it.
exit_number(t) ==
  IF task[t].prog \in {"stage1", "flat"} \/ task[t].ret = 0 THEN 1 ELSE task[t].ret

\* That is 1, exit; after any other the program would loop for ever.
exit_user_task(t) ==
  /\ On(t, "exit") /\ exit_number(t) = 1
  /\ \E u \in (Unfinished \ {t}) \cup {KernelPageDir} :
       SwitchTo(u, [task EXCEPT ![t].state = "COMPLETED"])

\* The main task creates the entry task from the initial ramdisk and queues it,
KernelJumpToUserEntry ==
  /\ main = "setup"
  /\ LET s == Min(FreeSlots(kern.mem))
     IN  /\ kern' = QueuedUserTask(kern, s, <<"initrd">>, <<"stage1">>)
         /\ task' = [u \in {s} |-> NewTask("stage1", KernelPageDir, Unset)]
  /\ main' = "queued"

\* then maps its code page and copies its code,
MapCode ==
  /\ main = "queued" /\ Running(kern.mem) /\ kern.cr3 = KernelPageDir
  /\ \E s \in DOMAIN task : kern' = MapCodeOf(kern, s)
  /\ main' = "mapped"
  /\ UNCHANGED task

FillCode ==
  /\ main = "mapped" /\ Running(kern.mem) /\ kern.cr3 = KernelPageDir
  /\ \E s \in DOMAIN task : kern' = CopyCodeOf(kern, s, <<"stage1">>)
  /\ main' = "join"
  /\ UNCHANGED task

\* and destroys it when it has exited.
DestroyEntryTask ==
  /\ main = "join" /\ Running(kern.mem) /\ kern.cr3 = KernelPageDir
  /\ \E s \in DOMAIN task :
       /\ task[s].parent = KernelPageDir /\ task[s].state = "COMPLETED"
       /\ kern' = OnPages(kern, ReclaimPageDirRegion(kern.mem, s))
       /\ task' = [u \in DOMAIN task \ {s} |-> task[u]]
  /\ main' = "end"

-----------------------------------------------------------------------------

\* What task t does next; nothing while it waits in Join.
Program(t) ==
  /\ \/ initrd(t) \/ map_page(t) \/ share_args(t) \/ memcpy(t) \/ unmap_page(t)
     \/ share_vfs(t) \/ ParseUSTAR(t) \/ copy_argv(t) \/ RunFlatUserBinary(t)
     \/ On(t, "LoadElfProgram") /\ LoadElfProgram(t, Loads[task[t].prog], Unset)
     \/ system(t) \/ DestroyTask(t) \/ ls_main(t) \/ exit_user_task(t) \/ Fetch(t)
  /\ UNCHANGED main

\* The machine has stopped, or has come to the end of kernel_main.
Stopped == (~Running(kern.mem) \/ main = "end") /\ UNCHANGED vars

Next ==
  \/ KernelJumpToUserEntry \/ MapCode \/ FillCode \/ DestroyEntryTask
  \/ \E t \in Slots : Program(t)
  \/ \E u \in Slots \cup {KernelPageDir} : schedule(u)
  \/ Stopped

\* The tasks with something to do: not those in Join, in the destructor of a
\* task that has not exited, nor those that loop after their last system call.
\* None does anything on a machine that has stopped.
Ready == {t \in Unfinished :
            /\ Running(kern.mem) /\ HasCode(t)
            /\ At(t) = "DestroyTask" => task[Head(task[t].kids)].state = "COMPLETED"
            /\ At(t) = "exit" => exit_number(t) = 1}

\* A task gets on with its program.
Moves == \E t \in DOMAIN task \cap DOMAIN task' :
           task'[t].pc # task[t].pc \/ (task[t].state # "COMPLETED" /\ task'[t].state = "COMPLETED")

\* The boot goes on; the processor comes to tasks that have something to do; and
\* if they get it again and again, one of them does it before its turn is over;
\* all unless the machine stops.  Less than that every unfinished task gets its
\* turns, which Scheduler shows.  (Ready with the processor is what ENABLED of
\* Program amounts to.)
Fairness ==
  /\ <>(main = "join" \/ ~Running(kern.mem))
  /\ Ready # {} ~> (kern.cr3 \in Ready \/ ~Running(kern.mem))
  /\ []<>(kern.cr3 \in Ready) => []<><<Moves>>_vars

Spec == Init /\ [][Next]_vars /\ Fairness

-----------------------------------------------------------------------------

Owner == CHOOSE t \in DOMAIN task : task[t].prog = "stage1"

\* paging.cpp: "Invalidate page in TLB."  What the processor remembers of the
\* current page directory is what the directory says.
TlbCoherent ==
  \A v \in Pages : kern.tlb[v] # NoFrame => kern.tlb[v] = kern.mem.pd[kern.cr3][v]

\* Every program gets what its start-up fetches, whatever runs in between: the
\* environment that stage 1 made up, the bytes of the archive, and the arguments
\* its parent gave it, not those of an earlier command.  Once constructed it has
\* the program it was created for where it executes, though frames are reused and
\* the code was copied through a temporary mapping of another task.
StartUpDelivers ==
  Running(kern.mem) => \A t \in DOMAIN task :
    /\ main \in {"join", "end"} => HasCode(t)
    /\ task[t].prog = "stage1" /\ Past(t, 1) => task[t].vfs = <<"initrd">>
    /\ task[t].prog \in {"stage2", "shell", "ls"} =>
         /\ Past(t, 3) => task[t].env = <<"owner", Owner>>
         /\ Past(t, 6) => task[t].vfs = <<"initrd">>
         /\ Past(t, 8) => task[t].argv = task[t].given

\* pre-main.cpp: "within elf.cpp, we explicitly do not destroy the parent task
\* that spawned this task, nor do we finish exiting the function where this task
\* was spawned until this subtask has finished executing."  Until a program has
\* read them, its arguments are in its parent's stack, and the parent waits.
ArgumentsWait ==
  \A t \in DOMAIN task :
    task[t].prog \in {"stage2", "shell", "ls"} /\ task[t].state # "COMPLETED" =>
      LET p == task[t].parent
      IN  /\ p \in Unfinished /\ At(p) = "DestroyTask"
          /\ kern.data[kern.mem.pd[p][USER_SHARED_SPACE_START]]["arginfo"] = <<"owner", Owner>>
          /\ kern.data[kern.mem.pd[p][USER_SHARED_SPACE_START]]["argv"] = task[t].given

\* The window of task t onto another task, while it has one.
Window(t) ==
  IF task[t].prog \in {"stage2", "shell", "ls"} /\ task[t].pc \in {3, 4, 6, 7}
  THEN {task[t].win} ELSE {}

\* Address spaces are apart but for the windows of programs that start: a page
\* of the parent or of the owner of the archive is visible to a program for the
\* time of the one read, and to none whose main runs.
WindowsClose ==
  Running(kern.mem) =>
    \A t, u \in DOMAIN task : t # u =>
      \A v \in (Pages \ Common) \ Window(t), w \in (Pages \ Common) \ Window(u) :
        kern.mem.pd[t][v] = kern.mem.pd[u][w] => kern.mem.pd[t][v] = NoFrame

\* No assertion of the kernel fails and no access faults from the boot to the
\* end, but for want of page directories or frames: every handle and page the
\* programs name is there when it is used.  The exception is the entry task that
\* runs while the main task is still in its constructor.
OnlyResourcesRunOut ==
  \/ kern.mem.halt \in {"no", "No free pages in the page directory region", "Memory is full!"}
  \/ kern.mem.halt = "no code" /\ main \in {"queued", "mapped"}

\* When the entry task has been destroyed, every frame, reference and directory
\* that the programs and their temporary mappings took has been given back.
AllGivenBack == main = "end" => kern.mem = Booted.mem

RunsLs(t) ==
  /\ t \in DOMAIN task /\ task[t].prog = "shell"
  /\ \E i \in DOMAIN task[t].kids : task[task[t].kids[i]].prog = "ls"

\* Unless the machine stops, the boot gets to the shell's first prompt, and a
\* command the shell has started comes back to its prompt, whether the command's
\* main returns 0 or 1.
CommandsReturn ==
  /\ <>(~Running(kern.mem) \/ \E t \in DOMAIN task : At(t) = "system")
  /\ \A t \in Slots :
       RunsLs(t) ~> (~Running(kern.mem) \/ (t \in DOMAIN task /\ At(t) = "system"))
=============================================================================
