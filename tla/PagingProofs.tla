---------------------------- MODULE PagingProofs ----------------------------
(***************************************************************************)
(* For any number of page directories and frames and any size of the heap: *)
(* the reference counts and the bitmap are exact, the kernel's part is the *)
(* same in every address space, only a lack of resources fails an          *)
(* assertion, and tasks share what they asked to share.                    *)
(***************************************************************************)
EXTENDS Paging, PageMemoryProofs

-----------------------------------------------------------------------------
(* The system *)

\* The inductive invariant.
Inv == TypeOK /\ Sound(mem) /\ (Running(mem) => Neat(mem))

\* Where an action leads when the set of tasks may have changed.
LEMMA FollowLemma ==
  ASSUME TypeOK, IsMemory(mem'), NEW t \in PageDirs(mem),
         state' = Follow(state, "READY"), parent' = Follow(parent, t),
         main' \in {"setup", "join", "end"}
  PROVE  TypeOK'
<1>1. t \in Slots \cup {KernelPageDir}
  BY DEF TypeOK, IsMemory, PageDirs
<1>2. state' \in [PageDirs(mem') \ {KernelPageDir} -> {"READY", "RUNNING", "COMPLETED"}]
  BY DEF Follow, TypeOK
<1>3. parent' \in [PageDirs(mem') \ {KernelPageDir} -> Slots \cup {KernelPageDir}]
  BY <1>1 DEF Follow, TypeOK
<1>4. QED BY <1>2, <1>3 DEF TypeOK, UserTasks

\* Where an action leads when the set of tasks is the same.
LEMMA SameTasks ==
  ASSUME TypeOK, IsMemory(mem'), PageDirs(mem') = PageDirs(mem),
         state' \in [UserTasks -> {"READY", "RUNNING", "COMPLETED"}],
         UNCHANGED <<parent, main>>
  PROVE  TypeOK'
<1>1. UserTasks' = UserTasks
  BY DEF UserTasks
<1>2. QED BY <1>1 DEF TypeOK

\* An operation on a program's page leaves the memory neat.
LEMMA NeatOnly ==
  ASSUME NEW m, Sound(m), Neat(m), NEW d \in PageDirs(m), d # KernelPageDir,
         NEW v \in UserPages, NEW n, Only(m, n, d, v)
  PROVE  Neat(n)
<1>1. KernelPageDir \in PageDirs(m)
  BY DEF Sound, Good, IsMemory, PageDirs
<1>2. QED BY <1>1, PagesLemma DEF Neat, Only

\* A step after which tasks have no more in common than before.
LEMMA PrivateStep ==
  ASSUME Private(mem, mem')
  PROVE  SharingStep
<1>1. DataPages \subseteq Pages \ Common
  BY PagesLemma DEF DataPages
<1>2. QED BY <1>1 DEF Private, Meet, SharingStep

\* A step that leaves the page directories alone.
LEMMA PrivateSame ==
  ASSUME NEW m, NEW n, n.pd = m.pd
  PROVE  Private(m, n)
BY DEF Private, Meet, PageDirs

\* Creation of a task.
LEMMA NewTaskInv ==
  ASSUME Inv, Running(mem), NEW t \in PageDirs(mem), NewTask(t),
         main' \in {"setup", "join", "end"}
  PROVE  Inv' /\ SharingStep
<1>1. PICK grows : mem' = UserTask(mem, t, grows)
  BY DEF NewTask
<1>2. Sound(mem') /\ (Running(mem') => Neat(mem')) /\ Private(mem, mem')
  BY <1>1, UserTaskSound DEF Inv
<1>3. TypeOK'
  BY <1>2, FollowLemma DEF Inv, NewTask, Sound, Good
<1>4. QED BY <1>2, <1>3, PrivateStep DEF Inv

\* A copy from the address space of task s into the one of task t.
LEMMA CopyInv ==
  ASSUME Inv, Running(mem), NEW t \in PageDirs(mem),
         NEW s \in PageDirs(mem), NEW v \in Pages, mem.pd[s][v] # NoFrame,
         mem' = TaskMemcpy(mem, s, t, v),
         state' \in [UserTasks -> {"READY", "RUNNING", "COMPLETED"}],
         UNCHANGED <<parent, main>>
  PROVE  Inv' /\ SharingStep
<1>1. Copies(mem, s, t, v)
  <2>1. TMP_SHARED_TASK_MEM_START \in Pages \ Common
    BY PagesLemma
  <2>2. QED BY <2>1 DEF Copies, Inv, Neat
<1>2. Sound(mem') /\ mem'.pd = mem.pd
  BY <1>1, TaskMemcpySound DEF Inv
<1>3. PageDirs(mem') = PageDirs(mem) /\ IsMemory(mem')
  BY <1>2 DEF PageDirs, Sound, Good
<1>4. Neat(mem')
  BY <1>2, <1>3 DEF Inv, Neat
<1>5. TypeOK'
  BY <1>3, SameTasks DEF Inv
<1>6. QED BY <1>2, <1>4, <1>5, PrivateSame, PrivateStep DEF Inv

\* The pages a program may name.
LEMMA MappedLemma ==
  ASSUME Inv, Running(mem)
  PROVE  /\ \A s \in UserTasks : /\ s \in PageDirs(mem) /\ s # KernelPageDir
                                 /\ mem.pd[s][USER_SHARED_SPACE_START] # NoFrame
         /\ \A s \in UserTasks : \A v \in Mapped(s) : v \in Pages /\ mem.pd[s][v] # NoFrame
         /\ KernelPageDir \in PageDirs(mem)
         /\ USER_SHARED_SPACE_START \in Pages
BY PagesLemma DEF Inv, Neat, UserTasks, Mapped, DataPages, TypeOK, IsMemory, PageDirs

\* The first switch to a task.
LEMMA FirstSwitchInv ==
  ASSUME Inv, Running(mem), NEW t \in PageDirs(mem), NEW s \in In("READY"),
         FirstSwitch(t, s)
  PROVE  Inv' /\ SharingStep
<1>1. s \in UserTasks
  BY DEF In
<1>2. state' \in [UserTasks -> {"READY", "RUNNING", "COMPLETED"}]
  BY DEF FirstSwitch, Inv, TypeOK
<1>3. QED BY <1>1, <1>2, MappedLemma, CopyInv DEF FirstSwitch

\* The exit of a task, with or without a first switch.
LEMMA ExitInv ==
  ASSUME Inv, Running(mem), NEW t \in UserTasks, exit_user_task(t)
  PROVE  Inv' /\ SharingStep
<1>1. state' \in [UserTasks -> {"READY", "RUNNING", "COMPLETED"}] /\ UNCHANGED <<parent, main>>
  BY DEF exit_user_task, Inv, TypeOK
<1>2. CASE UNCHANGED mem
  <2>1. TypeOK'
    BY <1>1, <1>2, SameTasks DEF Inv, TypeOK
  <2>2. QED BY <1>2, <2>1, PrivateSame, PrivateStep DEF Inv
<1>3. ASSUME NEW s \in In("READY"), mem' = TaskMemcpy(mem, s, t, USER_SHARED_SPACE_START)
      PROVE  Inv' /\ SharingStep
  <2>1. s \in UserTasks
    BY DEF In
  <2>2. QED BY <1>1, <1>3, <2>1, MappedLemma, CopyInv
<1>4. QED BY <1>2, <1>3 DEF exit_user_task

\* An operation on page v of task t alone.
LEMMA OwnPageInv ==
  ASSUME Inv, Running(mem), NEW t \in UserTasks, NEW v \in UserPages,
         Sound(mem'), Only(mem, mem', t, v), UNCHANGED <<state, parent, main>>
  PROVE  Inv'
<1>1. Neat(mem')
  BY NeatOnly, MappedLemma DEF Inv
<1>2. TypeOK'
  BY SameTasks DEF Inv, TypeOK, Only, Sound, Good
<1>3. QED BY <1>1, <1>2 DEF Inv

\* map_page, whether it finds a frame or not, or the page mapped.
LEMMA MapPageInv ==
  ASSUME Inv, Running(mem), NEW t \in UserTasks, NEW v \in UserPages, map_page(t, v)
  PROVE  Inv' /\ SharingStep
<1>1. t \in PageDirs(mem) /\ v \in Pages /\ v \notin Common
  BY MappedLemma, PagesLemma
<1>2. CASE mem.pd[t][v] # NoFrame
  <2>1. mem' = mem /\ UNCHANGED <<state, parent, main>>
    BY <1>2 DEF map_page
  <2>2. QED BY <2>1, OwnPageInv, PrivateSame, PrivateStep DEF Only, Inv
<1>3. CASE mem.pd[t][v] = NoFrame
  <2>1. mem' = AddFreshPage(mem, t, v, 1) /\ UNCHANGED <<state, parent, main>>
    BY <1>3 DEF map_page
  <2>2. Sound(mem') /\ Only(mem, mem', t, v) /\ Fresh(mem, mem', t, v)
    BY <1>1, <1>3, <2>1, AddFreshSound DEF Inv
  <2>3. SharingStep
    BY <2>2, PrivateFresh, PrivateStep
  <2>4. QED BY <2>1, <2>2, <2>3, OwnPageInv
<1>4. QED BY <1>2, <1>3

\* share_page, whether there is room in the program's address space or not.
LEMMA SharePageInv ==
  ASSUME Inv, Running(mem), NEW t \in UserTasks, NEW s \in UserTasks,
         NEW src \in Mapped(s), share_page(t, s, src)
  PROVE  Inv' /\ SharingStep
<1>1. /\ t \in PageDirs(mem) /\ s \in PageDirs(mem)
      /\ src \in Pages /\ mem.pd[s][src] # NoFrame
  BY MappedLemma
<1>2. CASE FreeUserPages(t) = {}
  <2>1. mem' = Failed(mem, "next_free_vpage") /\ UNCHANGED <<state, parent, main>>
    BY <1>2 DEF share_page
  <2>2. "next_free_vpage" \in Expected /\ "next_free_vpage" # "no"
    BY DEF Expected
  <2>3. Sound(mem') /\ mem'.pd = mem.pd
    BY <2>1, <2>2, FailedSound DEF Inv
  <2>4. Only(mem, mem', t, USER_START) /\ USER_START \in UserPages
    BY <2>3, PagesLemma DEF Only, PageDirs
  <2>5. QED BY <2>1, <2>3, <2>4, OwnPageInv, PrivateSame, PrivateStep
<1>3. CASE FreeUserPages(t) # {}
  <2> DEFINE w == Min(FreeUserPages(t))
  <2>1. w \in FreeUserPages(t)
    <3>1. FreeUserPages(t) \subseteq Nat
      BY LayoutAssumption DEF FreeUserPages, UserPages, USER_START
    <3>2. QED BY <1>3, <3>1, MinLemma
  <2>2. mem' = MapFrom(mem, s, src, t, w) /\ UNCHANGED <<state, parent, main>>
    BY <1>3 DEF share_page
  <2> HIDE DEF w
  <2>3. w \in UserPages /\ w \in Pages /\ w \notin Common /\ mem.pd[t][w] = NoFrame
    BY <2>1, PagesLemma DEF FreeUserPages
  <2>a. Maps(mem, s, src, t, w)
    BY <1>1, <2>3 DEF Maps
  <2>4. Sound(mem') /\ Only(mem, mem', t, w) /\ mem'.pd[t][w] = mem.pd[s][src]
    <3>1. MappedFrom(mem, mem', s, src, t, w)
      BY <1>1, <2>2, <2>3, <2>a, MapFromSound DEF Inv
    <3>2. QED BY <1>1, <3>1 DEF MappedFrom
  <2>5. ASSUME NEW d \in PageDirs(mem'), NEW e \in PageDirs(mem'), d # e,
               NEW x \in DataPages, NEW y \in DataPages,
               mem'.pd[d][x] = mem'.pd[e][y], mem'.pd[d][x] # NoFrame
        PROVE  /\ {d, e} \subseteq PageDirs(mem)
               /\ \/ mem.pd[d][x] = mem.pd[e][y]
                  \/ \E t1, s1 \in {d, e}, src1 \in DataPages : share_page(t1, s1, src1)
    <3>1. d \in PageDirs(mem) /\ e \in PageDirs(mem) /\ x \in Pages /\ y \in Pages
      BY <2>4, PagesLemma DEF Only, DataPages
    <3>2. CASE (d # t \/ x # w) /\ (e # t \/ y # w)
      BY <2>4, <2>5, <3>1, <3>2 DEF Only
    <3>3. CASE d = t /\ x = w
      <4>1. mem.pd[e][y] = mem.pd[s][src]
        BY <2>4, <2>5, <3>1, <3>3 DEF Only
      <4>2. share_page(t, e, y)
        BY <1>3, <2>2, <4>1 DEF share_page, MapFrom, w
      <4>3. QED BY <3>1, <3>3, <4>2
    <3>4. CASE e = t /\ y = w
      <4>1. mem.pd[d][x] = mem.pd[s][src]
        BY <2>4, <2>5, <3>1, <3>4 DEF Only
      <4>2. share_page(t, d, x)
        BY <1>3, <2>2, <4>1 DEF share_page, MapFrom, w
      <4>3. QED BY <3>1, <3>4, <4>2
    <3>5. QED BY <3>2, <3>3, <3>4
  <2>6. SharingStep
    BY <2>5 DEF SharingStep
  <2>7. QED BY <2>2, <2>3, <2>4, <2>6, OwnPageInv
<1>4. QED BY <1>2, <1>3

\* unmap_page, of a page that is mapped.
LEMMA UnmapPageInv ==
  ASSUME Inv, Running(mem), NEW t \in UserTasks, NEW v \in Mapped(t) \cap UserPages,
         unmap_page(t, v)
  PROVE  Inv' /\ SharingStep
<1>1. /\ t \in PageDirs(mem) /\ v \in Pages /\ v \notin Common
      /\ mem.pd[t][v] # NoFrame
  BY MappedLemma, PagesLemma
<1>2. mem' = RemovePage(mem, t, v) /\ UNCHANGED <<state, parent, main>>
  BY DEF unmap_page
<1>3. Sound(mem') /\ Only(mem, mem', t, v) /\ mem'.pd[t][v] = NoFrame
  BY <1>1, <1>2, RemoveSound DEF Inv
<1>4. Private(mem, mem')
  BY <1>3 DEF Private, Meet, Only
<1>5. QED BY <1>2, <1>3, <1>4, OwnPageInv, PrivateStep

\* The destruction of a task.
LEMMA DestroyInv ==
  ASSUME Inv, Running(mem), NEW t \in PageDirs(mem), NEW d \in UserTasks,
         destroy_user_task(t, d)
  PROVE  Inv' /\ SharingStep
<1> DEFINE m == ReclaimPageDirRegion(mem, d)
<1>1. d \in PageDirs(mem) /\ d # KernelPageDir /\ KernelPageDir \in PageDirs(mem)
  BY MappedLemma
<1>2. /\ Good(m) /\ m.halt = mem.halt /\ PageDirs(m) = PageDirs(mem) \ {d}
      /\ \A e \in PageDirs(m) : m.pd[e] = mem.pd[e]
  BY <1>1, ReclaimGood DEF Inv, Sound
<1>3. mem' = m \/ mem' = Failed(m, "child_tasks_.empty()")
  BY DEF destroy_user_task
<1> HIDE DEF m
<1>4. Sound(m) /\ Neat(m)
  <2>1. m.pd[KernelPageDir] = mem.pd[KernelPageDir] /\ KernelPageDir \in PageDirs(m)
    BY <1>1, <1>2
  <2>2. Contiguous(m)
    BY <2>1 DEF Contiguous, Inv, Sound
  <2>3. Neat(m)
    BY <1>2, <2>1 DEF Neat, Inv
  <2>4. QED BY <1>2, <2>2, <2>3 DEF Inv, Sound
<1>5. Sound(mem') /\ (Running(mem') => Neat(mem'))
  <2>1. "child_tasks_.empty()" \in Expected /\ "child_tasks_.empty()" # "no"
    BY DEF Expected
  <2>2. QED BY <1>3, <1>4, <2>1, FailedSound
<1>6. TypeOK'
  <2>1. main' \in {"setup", "join", "end"}
    BY DEF destroy_user_task, Inv, TypeOK
  <2>2. state' = Follow(state, "READY") /\ parent' = Follow(parent, t)
    BY DEF destroy_user_task
  <2>3. QED BY <1>5, <2>1, <2>2, FollowLemma DEF Inv, Sound, Good
<1>7. Private(mem, mem')
  <2>1. "child_tasks_.empty()" \in Expected /\ "child_tasks_.empty()" # "no"
    BY DEF Expected
  <2>2. mem'.pd = m.pd
    BY <1>3, <1>4, <2>1, FailedSound
  <2>3. PageDirs(mem') = PageDirs(m) /\ \A e \in PageDirs(mem') : mem'.pd[e] = mem.pd[e]
    BY <1>2, <2>2 DEF PageDirs
  <2>4. QED BY <1>2, <2>3 DEF Private, Meet
<1>8. QED BY <1>5, <1>6, <1>7, PrivateStep DEF Inv

\* The boot establishes the invariant.
LEMMA InitInv == Init => Inv
<1> SUFFICES ASSUME Init PROVE Inv
  OBVIOUS
<1>1. PICK grows : mem = KernelSetup(grows)
  BY DEF Init
<1>2. Sound(mem) /\ (Running(mem) => Neat(mem)) /\ PageDirs(mem) = {KernelPageDir}
  BY <1>1, KernelSetupSound
<1>3. TypeOK
  BY <1>2 DEF Init, TypeOK, UserTasks, Sound, Good
<1>4. QED BY <1>2, <1>3 DEF Inv

\* Every step keeps it, and shares only what it is to share.
LEMMA NextInv == Inv /\ [Next]_vars => Inv' /\ [SharingStep]_vars
<1> SUFFICES ASSUME Inv, [Next]_vars PROVE Inv' /\ [SharingStep]_vars
  OBVIOUS
<1>1. CASE UNCHANGED vars
  BY <1>1 DEF vars, Inv, TypeOK, UserTasks
<1>2. CASE Running(mem) /\ KernelJumpToUserEntry
  BY <1>2, MappedLemma, NewTaskInv DEF KernelJumpToUserEntry
<1>3. ASSUME Running(mem), NEW t \in In("RUNNING"), SystemCall(t)
      PROVE  Inv' /\ SharingStep
  <2>1. t \in UserTasks /\ t \in PageDirs(mem)
    BY <1>3, MappedLemma DEF In
  <2>2. CASE create_user_task(t)
    BY <1>3, <2>1, <2>2, NewTaskInv DEF create_user_task, Inv, TypeOK
  <2>3. CASE exit_user_task(t)
    BY <1>3, <2>1, <2>3, ExitInv
  <2>4. ASSUME NEW s \in UserTasks, NEW src \in Mapped(s), copy_from_task(t, s, src)
        PROVE  Inv' /\ SharingStep
    <3>1. state' \in [UserTasks -> {"READY", "RUNNING", "COMPLETED"}]
      BY <2>4 DEF copy_from_task, Inv, TypeOK
    <3>2. QED BY <1>3, <2>1, <2>4, <3>1, MappedLemma, CopyInv DEF copy_from_task
  <2>5. ASSUME NEW s \in UserTasks, NEW src \in Mapped(s), share_page(t, s, src)
        PROVE  Inv' /\ SharingStep
    BY <1>3, <2>1, <2>5, SharePageInv
  <2>6. ASSUME NEW v \in UserPages, map_page(t, v)
        PROVE  Inv' /\ SharingStep
    BY <1>3, <2>1, <2>6, MapPageInv
  <2>7. ASSUME NEW v \in Mapped(t) \cap UserPages, unmap_page(t, v)
        PROVE  Inv' /\ SharingStep
    BY <1>3, <2>1, <2>7, UnmapPageInv
  <2>8. QED BY <1>3, <2>2, <2>3, <2>4, <2>5, <2>6, <2>7 DEF SystemCall
<1>4. ASSUME Running(mem), NEW t \in In("RUNNING") \cup {KernelPageDir},
             NEW s \in In("READY"), FirstSwitch(t, s)
      PROVE  Inv' /\ SharingStep
  BY <1>4, MappedLemma, FirstSwitchInv DEF In
<1>5. ASSUME Running(mem), NEW t \in In("RUNNING") \cup {KernelPageDir},
             NEW d \in In("COMPLETED"), destroy_user_task(t, d)
      PROVE  Inv' /\ SharingStep
  BY <1>5, MappedLemma, DestroyInv DEF In
<1>6. QED BY <1>1, <1>2, <1>3, <1>4, <1>5 DEF Next, Stopped

\* The memory of the kernel is always well formed, whatever tasks are created,
\* share pages, exit and are destroyed.
THEOREM TypeCorrect == Spec => []TypeOK
<1>1. Inv => TypeOK
  BY DEF Inv
<1>2. QED BY <1>1, InitInv, NextInv, PTL DEF Spec

\* A frame's reference count is the number of entries that map it, and its bit is
\* set exactly when there is one: no leak, no frame in use that counts as free.
THEOREM ReferencesAreExact == Spec => []RefsExact
<1>1. Inv => RefsExact
  BY DEF Inv, Sound, Good, Counted, RefsExact
<1>2. QED BY <1>1, InitInv, NextInv, PTL DEF Spec

\* The kernel's part is the same in every address space, also after the heap grew.
THEOREM KernelStaysCommon == Spec => []KernelIsCommon
<1>1. Inv => KernelIsCommon
  BY DEF Inv, Sound, Good, Shared, KernelIsCommon
<1>2. QED BY <1>1, InitInv, NextInv, PTL DEF Spec

\* Of the assertions in the paging code only those about resources can fail.
THEOREM OnlyResourcesFail == Spec => []OnlyResourcesRunOut
<1>1. Inv => OnlyResourcesRunOut
  BY DEF Inv, Sound, Expected, OnlyResourcesRunOut
<1>2. QED BY <1>1, InitInv, NextInv, PTL DEF Spec

\* Two tasks come to have a frame in common only when one shares it with the
\* other.
THEOREM TasksAreIsolated == Spec => Isolation
BY InitInv, NextInv, PTL DEF Spec, Isolation
=============================================================================
