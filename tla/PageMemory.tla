----------------------------- MODULE PageMemory -----------------------------
(***************************************************************************)
(* Page directories and physical page frames (kernel/paging.cpp,           *)
(* kernel/include/paging.h), and the operations of the kernel on them: the *)
(* boot mappings, the kernel heap (kernel/kmalloc.cpp), and the address    *)
(* space of a user task (kernel/task.cpp).                                 *)
(*                                                                         *)
(* Pages and frames are 4MB and named by their index.  An operation is an  *)
(* operator from a memory to a memory.  A failed assertion stops the       *)
(* machine: it is recorded in the memory, and every later operation leaves *)
(* a stopped memory alone.                                                 *)
(***************************************************************************)
EXTENDS Naturals, FiniteSets

CONSTANTS
  KernelPageDir,   \* the kernel's own page directory
  NoFrame,         \* a page directory entry that is not present
  kNumPageDirs,    \* page directories in the page directory region
  kNumFrames,      \* frames of physical memory (32 in the code)
  kHeapEnd,        \* page index of KERN_HEAP_END (256 in the code)
  kUserEnd         \* page index of USER_END (1024 in the code)

\* Page indices of the memory layout.
KERNEL_START == 1
PAGE_DIRECTORY_REGION_START == 2
USER_SHARED_SPACE_START == 3
TMP_SHARED_TASK_MEM_START == 5
KERN_HEAP_BEGIN == 8
USER_START == 256

ASSUME LayoutAssumption ==
  /\ kNumPageDirs \in Nat /\ kNumFrames \in Nat /\ kHeapEnd \in Nat /\ kUserEnd \in Nat
  /\ kNumFrames > 3
  /\ kHeapEnd > KERN_HEAP_BEGIN /\ kHeapEnd <= USER_START
  /\ kUserEnd > USER_START
  /\ KernelPageDir \notin 0..(kNumPageDirs - 1)
  /\ NoFrame \notin 0..(kNumFrames - 1)

Frames == 0..(kNumFrames - 1)
Slots == 0..(kNumPageDirs - 1)
KernelHeap == KERN_HEAP_BEGIN..(kHeapEnd - 1)
UserPages == USER_START..(kUserEnd - 1)

\* The pages whose entry is the same in every page directory.
Common == {KERNEL_START, PAGE_DIRECTORY_REGION_START} \cup KernelHeap

Pages == Common \cup UserPages
           \cup {0, USER_SHARED_SPACE_START, TMP_SHARED_TASK_MEM_START}

Asserts == {"Memory is full!", "No free pages in the page directory region",
            "frame already used", "entry already assigned",
            "reserved for a kernel mapping", "no references",
            "page not present", "frame not allocated",
            "No memory left for kernel!", "next_free_vpage",
            "child_tasks_.empty()", "Page fault", "stack_val",
            "Invalid syscall!"}

\* A memory m has the page directories in use, m.pd (the kernel's and those
\* whose bit is set in PageDirRegion), the reference count of each frame, the
\* frames whose bit is set in PhysicalBitmap, and the assertion that failed.
IsMemory(m) ==
  /\ m = [pd |-> m.pd, refs |-> m.refs, used |-> m.used, halt |-> m.halt]
  /\ m.pd \in [DOMAIN m.pd -> [Pages -> Frames \cup {NoFrame}]]
  /\ KernelPageDir \in DOMAIN m.pd
  /\ DOMAIN m.pd \subseteq {KernelPageDir} \cup Slots
  /\ m.refs \in [Frames -> Nat]
  /\ m.used \subseteq Frames
  /\ m.halt \in Asserts \cup {"no"}

Running(m) == m.halt = "no"

Failed(m, assertion) == [m EXCEPT !.halt = assertion]

PageDirs(m) == DOMAIN m.pd

Min(S) == CHOOSE x \in S : \A y \in S : x <= y

-----------------------------------------------------------------------------
(* PhysicalBitmap4M *)

\* setPageFrameUsed, n times.
setPageFrameUsed(m, p, n) ==
  [pd |-> m.pd, refs |-> [m.refs EXCEPT ![p] = @ + n],
   used |-> m.used \cup {p}, halt |-> m.halt]

\* Mutant: the frame's bit is cleared whatever references are left.
FreeAtOnce(m, p, n) ==
  [m EXCEPT !.refs[p] = @ - n, !.used = @ \ {p}]

\* setPageFrameFree, n times, of a frame that has n references.
setPageFrameFree(m, p, n) ==
  [pd |-> m.pd, refs |-> [m.refs EXCEPT ![p] = @ - n],
   used |-> IF m.refs[p] = n THEN m.used \ {p} ELSE m.used, halt |-> m.halt]

FreeFrames(m, start) == {p \in Frames : p >= start /\ p \notin m.used}

-----------------------------------------------------------------------------
(* PageDirectory *)

\* Mutant: an entry added to the kernel's directory stays there.
OwnDirOnly(m, d, v) == {d}

\* The page directories an update of entry v of directory d goes to.
Updated(m, d, v) == IF d = KernelPageDir /\ v \in Common THEN PageDirs(m) ELSE {d}

\* Entry v of the directories in ds becomes e.
SetEntries(m, ds, v, e) ==
  [m EXCEPT !.pd = [d \in PageDirs(m) |->
                      IF d \in ds THEN [m.pd[d] EXCEPT ![v] = e] ELSE m.pd[d]]]

AddPage(m, d, v, p, allow_physical_reuse) ==
  LET ds == Updated(m, d, v)
  IN  IF ~Running(m) THEN m
      ELSE IF ~allow_physical_reuse /\ p \in m.used
        THEN Failed(m, "frame already used")
      ELSE IF m.pd[d][v] # NoFrame
        THEN Failed(m, "entry already assigned")
      ELSE IF \E e \in ds : m.pd[e][v] # NoFrame
        THEN Failed(m, "reserved for a kernel mapping")
      ELSE setPageFrameUsed(SetEntries(m, ds, v, p), p, Cardinality(ds))

\* The entry is taken as it is: one that is not present is 0, and frame 0 loses
\* a reference.
RemovePage(m, d, v) ==
  LET ds == Updated(m, d, v)
      p  == IF m.pd[d][v] = NoFrame THEN 0 ELSE m.pd[d][v]
  IN  IF ~Running(m) THEN m
      ELSE IF m.refs[p] < Cardinality(ds)
        THEN Failed(m, "no references")
      ELSE IF \E e \in ds \ {d} : m.pd[e][v] = NoFrame
        THEN Failed(m, "page not present")
      ELSE setPageFrameFree(SetEntries(m, ds, v, NoFrame), p, Cardinality(ds))

\* AddPage of the first free frame from start on.
AddFreshPage(m, d, v, start) ==
  IF ~Running(m) THEN m
  ELSE IF FreeFrames(m, start) = {} THEN Failed(m, "Memory is full!")
  ELSE AddPage(m, d, v, Min(FreeFrames(m, start)), FALSE)

\* The entries of directory d that map frame p.
Mapping(m, d, p) == {v \in Pages : m.pd[d][v] = p}

\* The entries, over all page directories in use, that map frame p.
Entries(m, p) == {e \in PageDirs(m) \X Pages : m.pd[e[1]][e[2]] = p}

FreeSlots(m) == Slots \ PageDirs(m)

\* Mutant: Clone takes no reference for the copied entries.
CloneUncounted(m) ==
  IF ~Running(m) THEN m
  ELSE IF FreeSlots(m) = {} THEN Failed(m, "No free pages in the page directory region")
  ELSE LET s == Min(FreeSlots(m))
       IN  [m EXCEPT !.pd = [d \in PageDirs(m) \cup {s} |->
                               IF d = s THEN m.pd[KernelPageDir] ELSE m.pd[d]]]

\* Clone of the kernel's directory, into the first free slot.
Clone(m) ==
  IF ~Running(m) THEN m
  ELSE IF FreeSlots(m) = {} THEN Failed(m, "No free pages in the page directory region")
  ELSE LET s == Min(FreeSlots(m))
       IN  [pd   |-> [d \in PageDirs(m) \cup {s} |->
                        IF d = s THEN m.pd[KernelPageDir] ELSE m.pd[d]],
            refs |-> [p \in Frames |->
                        m.refs[p] + Cardinality(Mapping(m, KernelPageDir, p))],
            used |-> m.used, halt |-> m.halt]

\* Mutant: the pages of the program are left out.
ReclaimSharedOnly(m, d) ==
  LET gone(p) == Cardinality({v \in Mapping(m, d, p) : v < USER_START})
  IN  IF ~Running(m) THEN m
      ELSE [m EXCEPT
              !.pd = [e \in PageDirs(m) \ {d} |-> m.pd[e]],
              !.refs = [p \in Frames |-> m.refs[p] - gone(p)],
              !.used = {p \in m.used : gone(p) = 0 \/ m.refs[p] # gone(p)}]

\* ReclaimPageDirRegion: every entry gives its reference back, then the slot is
\* free.
ReclaimPageDirRegion(m, d) ==
  LET gone(p) == Cardinality(Mapping(m, d, p))
  IN  IF ~Running(m) THEN m
      ELSE IF \E p \in Frames : m.refs[p] < gone(p) THEN Failed(m, "no references")
      ELSE [pd   |-> [e \in PageDirs(m) \ {d} |-> m.pd[e]],
            refs |-> [p \in Frames |-> m.refs[p] - gone(p)],
            used |-> {p \in m.used : gone(p) = 0 \/ m.refs[p] # gone(p)},
            halt |-> m.halt]

-----------------------------------------------------------------------------
(* The kernel heap, copies between address spaces, a task's address space *)

HeapTop(m) ==
  KERN_HEAP_BEGIN + Cardinality({v \in KernelHeap : m.pd[KernelPageDir][v] # NoFrame})

\* ksbrk by one page.
ksbrk_page(m) ==
  IF ~Running(m) THEN m
  ELSE IF HeapTop(m) >= kHeapEnd THEN Failed(m, "No memory left for kernel!")
  ELSE AddFreshPage(m, KernelPageDir, HeapTop(m), 1)

\* A kmalloc; grows tells whether the heap was too small.
kmalloc(m, grows) == IF grows THEN ksbrk_page(m) ELSE m

\* Page v of task's address space, found by GetPhysicalAddr, is mapped in
\* directory d at page w.
MapFrom(m, task, v, d, w) ==
  IF ~Running(m) THEN m
  ELSE IF m.pd[task][v] = NoFrame THEN Failed(m, "page not present")
  ELSE IF m.pd[task][v] \notin m.used THEN Failed(m, "frame not allocated")
  ELSE AddPage(m, d, w, m.pd[task][v], TRUE)

\* Mutant: the page the copy went through stays mapped.
CopyAndKeep(m, task, other_task, v) ==
  IF other_task = task THEN m
  ELSE MapFrom(m, task, v, other_task, TMP_SHARED_TASK_MEM_START)

\* TaskMemcpy: page v of task's address space is mapped into other_task's for
\* the time of the copy.
TaskMemcpy(m, task, other_task, v) ==
  IF other_task = task THEN m
  ELSE RemovePage(MapFrom(m, task, v, other_task, TMP_SHARED_TASK_MEM_START),
                  other_task, TMP_SHARED_TASK_MEM_START)

\* The shared space of the new task s is mapped in its own directory and, while
\* its stack is set up, in the kernel's.
SetupStack(m, s, creator) ==
  LET m1 == AddFreshPage(m, s, USER_SHARED_SPACE_START, 1)
      m2 == MapFrom(m1, s, USER_SHARED_SPACE_START, KernelPageDir, USER_SHARED_SPACE_START)
      m3 == TaskMemcpy(m2, s, creator, USER_SHARED_SPACE_START)
  IN  RemovePage(m3, KernelPageDir, USER_SHARED_SPACE_START)

\* The code page of the new task s, filled from its creator's address space.
CopyCode(m, s, creator) ==
  TaskMemcpy(AddFreshPage(m, s, USER_START, 0), s, creator, USER_START)

\* The UserTask constructor, run by creator, with the heap growing at some of
\* its allocations: the object, the kernel stack, the queue's node.
UserTask(m, creator, grows) ==
  LET s  == Min(FreeSlots(m))
      m1 == Clone(kmalloc(m, "object" \in grows))
      m2 == SetupStack(kmalloc(m1, "stack" \in grows), s, creator)
  IN  IF Running(m1) THEN CopyCode(kmalloc(m2, "node" \in grows), s, creator) ELSE m1

\* InitializePaging, the first page of the heap, and the copy of the initial
\* ramdisk, for which the first page of memory is mapped.
KernelSetup(grows) ==
  LET m0 == [pd   |-> [d \in {KernelPageDir} |-> [v \in Pages |-> NoFrame]],
             refs |-> [p \in Frames |-> 0], used |-> {}, halt |-> "no"]
      m1 == AddPage(m0, KernelPageDir, KERNEL_START, KERNEL_START, FALSE)
      m2 == AddPage(m1, KernelPageDir, PAGE_DIRECTORY_REGION_START,
                    PAGE_DIRECTORY_REGION_START, FALSE)
      m3 == AddPage(ksbrk_page(m2), KernelPageDir, 0, 0, TRUE)
  IN  RemovePage(kmalloc(m3, grows), KernelPageDir, 0)
=============================================================================
