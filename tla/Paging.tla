------------------------------- MODULE Paging -------------------------------
(***************************************************************************)
(* The page memory under the system: the boot, the creation, the first     *)
(* switch and the destruction of user tasks (kernel/task.cpp), and the     *)
(* memory system calls (kernel/syscall.cpp).  Every action here runs with  *)
(* interrupts off, except for ReclaimPageDirRegion, which is one step here *)
(* and several in Reclaim.tla, and for the creation of the entry task,     *)
(* during which no other task can get anywhere (see Programs.tla).         *)
(***************************************************************************)
EXTENDS PageMemory

VARIABLES
  mem,
  state,    \* state_ of each user task, named by the slot of its directory
  parent,   \* its parent_task_, with KernelPageDir for the main task
  main      \* how far the main task is in kernel_main

vars == <<mem, state, parent, main>>

Init ==
  /\ \E grows \in BOOLEAN : mem = KernelSetup(grows)
  /\ state = <<>>
  /\ parent = <<>>
  /\ main = "setup"

UserTasks == PageDirs(mem) \ {KernelPageDir}

In(st) == {t \in UserTasks : state[t] = st}

\* Where in a task's address space its programs keep data.
DataPages == UserPages \cup {USER_SHARED_SPACE_START}

Mapped(t) == {v \in DataPages : mem.pd[t][v] # NoFrame}

\* f with the tasks that are new in mem' mapped to x, and those gone dropped.
Follow(f, x) ==
  [t \in PageDirs(mem') \ {KernelPageDir} |-> IF t \in DOMAIN f THEN f[t] ELSE x]

\* new UserTask(...) by task t.
NewTask(t) ==
  /\ \E grows \in SUBSET {"object", "stack", "node"} : mem' = UserTask(mem, t, grows)
  /\ state' = Follow(state, "READY")
  /\ parent' = Follow(parent, t)

\* The main task creates the entry task, and waits for it.
KernelJumpToUserEntry ==
  /\ main = "setup"
  /\ NewTask(KernelPageDir)
  /\ main' = "join"

create_user_task(t) == NewTask(t) /\ UNCHANGED main

\* schedule() switches from task t to task s, which has not run yet:
\* SetupBeforeTaskRun reads the stack that was set up for s.
FirstSwitch(t, s) ==
  /\ mem' = TaskMemcpy(mem, s, t, USER_SHARED_SPACE_START)
  /\ state' = [state EXCEPT ![s] = "RUNNING"]
  /\ UNCHANGED <<parent, main>>

\* schedule() from exit_this_task switches to a task that has run before, or
\* not; task t is still the current one.
exit_user_task(t) ==
  /\ \/ UNCHANGED mem /\ state' = [state EXCEPT ![t] = "COMPLETED"]
     \/ \E s \in In("READY") :
          /\ mem' = TaskMemcpy(mem, s, t, USER_SHARED_SPACE_START)
          /\ state' = [state EXCEPT ![t] = "COMPLETED", ![s] = "RUNNING"]
  /\ UNCHANGED <<parent, main>>

\* ~UserTask and ~Task of task d, once Join has returned, on a stack of task t.
destroy_user_task(t, d) ==
  /\ parent[d] = t
  /\ LET m == ReclaimPageDirRegion(mem, d)
     IN  mem' = IF Running(m) /\ \E c \in UserTasks : parent[c] = d
                THEN Failed(m, "child_tasks_.empty()") ELSE m
  /\ state' = Follow(state, "READY")
  /\ parent' = Follow(parent, t)
  /\ main' = IF t = KernelPageDir THEN "end" ELSE main

copy_from_task(t, handle, src) ==
  /\ mem' = TaskMemcpy(mem, handle, t, src)
  /\ UNCHANGED <<state, parent, main>>

\* Returns MAP_ALREADY_MAPPED, or maps a frame.
map_page(t, vaddr) ==
  /\ mem' = IF mem.pd[t][vaddr] # NoFrame THEN mem ELSE AddFreshPage(mem, t, vaddr, 1)
  /\ UNCHANGED <<state, parent, main>>

\* GetNextFreeVirtualUser
FreeUserPages(t) == {v \in UserPages : mem.pd[t][v] = NoFrame}

share_page(t, handle, src) ==
  /\ mem' = IF FreeUserPages(t) = {} THEN Failed(mem, "next_free_vpage")
            ELSE MapFrom(mem, handle, src, t, Min(FreeUserPages(t)))
  /\ UNCHANGED <<state, parent, main>>

unmap_page(t, dst) ==
  /\ mem' = RemovePage(mem, t, dst)
  /\ UNCHANGED <<state, parent, main>>

\* What a task that runs in user space can ask for.  This is about programs that
\* name pages of the user's range and sources that are mapped, and tasks whose
\* handle is valid, as all of the repository's do: the kernel checks none of it.
SystemCall(t) ==
  \/ create_user_task(t)
  \/ exit_user_task(t)
  \/ \E s \in UserTasks \ {t} : \E src \in Mapped(s) :
       copy_from_task(t, s, src) \/ share_page(t, s, src)
  \/ \E v \in UserPages : map_page(t, v)
  \/ \E v \in Mapped(t) \cap UserPages : unmap_page(t, v)

\* The machine loops with interrupts off, or has been powered off by KernelEnd.
Stopped == (~Running(mem) \/ main = "end") /\ UNCHANGED vars

Next ==
  \/ /\ Running(mem) /\ main # "end"
     /\ \/ KernelJumpToUserEntry
        \/ \E t \in In("RUNNING") : SystemCall(t)
        \/ \E t \in In("RUNNING") \cup {KernelPageDir}, s \in In("READY") :
             FirstSwitch(t, s)
        \/ \E t \in In("RUNNING") \cup {KernelPageDir}, d \in In("COMPLETED") :
             destroy_user_task(t, d)
  \/ Stopped

Spec == Init /\ [][Next]_vars

-----------------------------------------------------------------------------
(* Properties *)

TypeOK ==
  /\ IsMemory(mem)
  /\ state \in [UserTasks -> {"READY", "RUNNING", "COMPLETED"}]
  /\ parent \in [UserTasks -> Slots \cup {KernelPageDir}]
  /\ main \in {"setup", "join", "end"}

\* After any sequence of clones, mappings, sharing and destruction, a frame's
\* count is exactly the number of entries that map it, and its bit in the bitmap
\* is set exactly when there is one: no frame leaks, none is free while mapped.
RefsExact ==
  \A p \in Frames :
    /\ mem.refs[p] = Cardinality(Entries(mem, p))
    /\ p \in mem.used <=> mem.refs[p] > 0

\* Kernel code, the page directory region and the kernel heap are the same in
\* every address space, also in those that existed before the heap grew, so
\* kernel code may run on any task's page directory.
KernelIsCommon ==
  \A d \in PageDirs(mem), v \in Common : mem.pd[d][v] = mem.pd[KernelPageDir][v]

\* Whatever the tasks do with their pages, the only assertions of the paging code
\* that can fail are those that say a resource ran out.  (The one of ~Task is not
\* the paging code's.)
OnlyResourcesRunOut ==
  mem.halt \in {"no", "Memory is full!", "No memory left for kernel!",
                "No free pages in the page directory region", "next_free_vpage",
                "child_tasks_.empty()"}

\* What two tasks have in common after a step they had in common before it, or
\* one of them shares with the other in it.
SharingStep ==
  \A d, e \in PageDirs(mem') \ {KernelPageDir} : d # e =>
    \A v, w \in DataPages :
      (mem'.pd[d][v] = mem'.pd[e][w] /\ mem'.pd[d][v] # NoFrame) =>
        /\ {d, e} \subseteq PageDirs(mem)
        /\ \/ mem.pd[d][v] = mem.pd[e][w]
           \/ \E t, s \in {d, e}, src \in DataPages : share_page(t, s, src)

\* Two tasks come to have a frame in common only through share_page: a frame
\* given to a new task or by map_page is nobody else's.
Isolation == [][SharingStep]_vars
===========================================================================
