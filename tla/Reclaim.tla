------------------------------ MODULE Reclaim ------------------------------
(***************************************************************************)
(* ReclaimPageDirRegion (kernel/paging.cpp) in the steps it takes.         *)
(* destroy_user_task turns interrupts on before the destructor, and        *)
(* nothing turns them off again around the reference counts and the        *)
(* bitmaps, so between the load and the store of a --ref or of a setZero   *)
(* another task can run and make a system call.                            *)
(***************************************************************************)
EXTENDS Paging

CONSTANT Preemptible   \* can another task run before the destructor is done?

ASSUME Preemptible \in BOOLEAN

VARIABLE
  rec      \* the destructor in progress: where it is, who runs it, for which
           \* directory, the page it has come to, and the word it loaded

allvars == <<mem, state, parent, main, rec>>

Idle == [at |-> "idle"]

InitReclaim == Init /\ rec = Idle

\* setOne and setZero load and store a byte, eight bits of the bitmap.
SameByte(i, j) == i \div 8 = j \div 8

Entry == mem.pd[rec.dir][rec.page]

Present == {v \in Pages : v >= rec.page /\ mem.pd[rec.dir][v] # NoFrame}

\* Join has returned; the destructor starts on the directory of d.
Begin(t, d) ==
  /\ rec = Idle
  /\ parent[d] = t
  /\ rec' = [at |-> "scan", by |-> t, dir |-> d, page |-> 0]
  /\ UNCHANGED vars

\* The next present entry, and the load of its frame's count; or no more.
Scan ==
  /\ rec.at = "scan"
  /\ IF Present = {} THEN rec' = [rec EXCEPT !.at = "slot"] /\ UNCHANGED mem
     ELSE LET v == Min(Present)
              n == mem.refs[mem.pd[rec.dir][v]]
          IN  IF n = 0 THEN mem' = Failed(mem, "no references") /\ UNCHANGED rec
              ELSE /\ rec' = [at |-> "unref", by |-> rec.by, dir |-> rec.dir,
                              page |-> v, word |-> n]
                   /\ UNCHANGED mem
  /\ UNCHANGED <<state, parent, main>>

\* The store of --ref.
Unref ==
  /\ rec.at = "unref"
  /\ mem' = [mem EXCEPT !.refs[Entry] = rec.word - 1]
  /\ rec' = [rec EXCEPT !.at = "test"]
  /\ UNCHANGED <<state, parent, main>>

\* if (refs_[page_index] == 0), and the load of setZero.
Test ==
  /\ rec.at = "test"
  /\ rec' = IF mem.refs[Entry] = 0
            THEN [rec EXCEPT !.at = "clear", !.word = mem.used]
            ELSE [at |-> "scan", by |-> rec.by, dir |-> rec.dir, page |-> rec.page + 1]
  /\ UNCHANGED vars

\* Mutant: the bit of a frame with no reference left stays set.
ClearNothing ==
  /\ rec.at = "clear"
  /\ rec' = [at |-> "scan", by |-> rec.by, dir |-> rec.dir, page |-> rec.page + 1]
  /\ UNCHANGED vars

\* The store of setZero.
Clear ==
  /\ rec.at = "clear"
  /\ mem' = [mem EXCEPT !.used = {p \in Frames :
               /\ p # Entry
               /\ p \in IF SameByte(p, Entry) THEN rec.word ELSE mem.used}]
  /\ rec' = [at |-> "scan", by |-> rec.by, dir |-> rec.dir, page |-> rec.page + 1]
  /\ UNCHANGED <<state, parent, main>>

\* PageDirRegionBitmap::Reclaim: the load of its setZero ...
Slot ==
  /\ rec.at = "slot"
  /\ rec' = [at |-> "release", by |-> rec.by, dir |-> rec.dir, page |-> rec.page,
             word |-> PageDirs(mem)]
  /\ UNCHANGED vars

\* ... and the store.  Then ~Task insists that the task has no child left.
Release ==
  /\ rec.at = "release"
  /\ mem' = [mem EXCEPT
       !.halt = IF \E c \in UserTasks : parent[c] = rec.dir
                THEN "child_tasks_.empty()" ELSE @,
       !.pd = [d \in {d \in PageDirs(mem) \ {rec.dir} :
                         \/ d = KernelPageDir
                         \/ ~SameByte(d, rec.dir)
                         \/ d \in rec.word} |-> mem.pd[d]]]
  /\ state' = Follow(state, "READY")
  /\ parent' = Follow(parent, rec.by)
  /\ main' = IF rec.by = KernelPageDir THEN "end" ELSE main
  /\ rec' = Idle

\* The tasks whose own code can run: not the one inside the destructor, and no
\* other one either unless it can be preempted there.
CanRun == IF rec = Idle THEN In("RUNNING")
          ELSE IF Preemptible THEN In("RUNNING") \ {rec.by} ELSE {}

\* The destructor's own steps.
Destructor == Scan \/ Unref \/ Test \/ Clear \/ Slot \/ Release

NextReclaim ==
  \/ /\ Running(mem) /\ main # "end"
     /\ \/ KernelJumpToUserEntry /\ UNCHANGED rec
        \/ \E t \in CanRun : SystemCall(t) /\ UNCHANGED rec
        \/ \E t \in In("RUNNING") \cup {KernelPageDir}, s \in In("READY") :
             (rec = Idle \/ Preemptible) /\ FirstSwitch(t, s) /\ UNCHANGED rec
        \/ \E t \in In("RUNNING") \cup {KernelPageDir}, d \in In("COMPLETED") :
             Begin(t, d)
        \/ Destructor
  \/ Stopped /\ UNCHANGED rec

SpecReclaim == InitReclaim /\ [][NextReclaim]_allvars

-----------------------------------------------------------------------------

\* paging.h: "In order to keep track of the number of references each physical
\* page has, we can just ref-count the number of page directories that reference
\* it."  Between two entries of the destructor's loop, as between operations, a
\* frame's count is the number of entries that still hold a reference to it, and
\* its bit says whether that is zero.
RefsExactThroughout ==
  rec.at \in {"idle", "scan"} /\ Running(mem) =>
    \A p \in Frames :
      /\ mem.refs[p] = Cardinality({e \in Entries(mem, p) :
           rec.at = "scan" /\ e[1] = rec.dir => e[2] >= rec.page})
      /\ p \in mem.used <=> mem.refs[p] > 0
=============================================================================
