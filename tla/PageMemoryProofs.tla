-------------------------- MODULE PageMemoryProofs --------------------------
(***************************************************************************)
(* What each operation of PageMemory does to a memory whose reference      *)
(* counts are exact and whose kernel part is the same in every directory,  *)
(* for any number of page directories and frames and any size of the heap: *)
(* it keeps both, changes the entries it is meant to change and no others, *)
(* and fails for want of a resource only.                                  *)
(***************************************************************************)
EXTENDS PageMemory, FiniteSetTheorems, WellFoundedInduction, TLAPS

-----------------------------------------------------------------------------
(* Counting *)

\* The size of a product.
LEMMA CountProduct ==
  ASSUME NEW S, IsFiniteSet(S), NEW T, IsFiniteSet(T), NEW P, P = S \X T
  PROVE  IsFiniteSet(P) /\ Cardinality(P) = Cardinality(S) * Cardinality(T)
BY FS_Product

\* Joining a set that is apart adds its size.
LEMMA CountUnion ==
  ASSUME NEW E, IsFiniteSet(E), NEW A, IsFiniteSet(A), E \cap A = {}
  PROVE  /\ IsFiniteSet(E \cup A)
         /\ Cardinality(E \cup A) = Cardinality(E) + Cardinality(A)
<1>1. Cardinality(E) \in Nat /\ Cardinality(A) \in Nat
  BY FS_CardinalityType
<1>2. Cardinality(E \cap A) = 0
  BY FS_EmptySet
<1>3. /\ IsFiniteSet(E \cup A)
      /\ Cardinality(E \cup A) = Cardinality(E) + Cardinality(A) - Cardinality(E \cap A)
  BY FS_Union
<1>4. QED BY <1>1, <1>2, <1>3

\* Taking out a set that is inside takes away its size.
LEMMA CountDifference ==
  ASSUME NEW E, IsFiniteSet(E), NEW A, A \subseteq E
  PROVE  /\ Cardinality(E \ A) = Cardinality(E) - Cardinality(A)
         /\ Cardinality(A) <= Cardinality(E)
<1>1. E \cap A = A
  OBVIOUS
<1>2. Cardinality(A) <= Cardinality(E)
  BY FS_Subset
<1>3. Cardinality(E \ A) = Cardinality(E) - Cardinality(E \cap A)
  BY FS_Difference
<1>4. QED BY <1>1, <1>2, <1>3, Zenon

-----------------------------------------------------------------------------
(* The invariant of a memory *)

\* RefsExact and KernelIsCommon of a memory m.
Counted(m) ==
  \A p \in Frames :
    /\ m.refs[p] = Cardinality(Entries(m, p))
    /\ p \in m.used <=> m.refs[p] > 0

Shared(m) ==
  \A d \in PageDirs(m), v \in Common : m.pd[d][v] = m.pd[KernelPageDir][v]

Good(m) == IsMemory(m) /\ Counted(m) /\ Shared(m)

\* Memory is finite.
LEMMA Finite ==
  ASSUME NEW m, IsMemory(m)
  PROVE  /\ IsFiniteSet(Pages) /\ IsFiniteSet(PageDirs(m))
         /\ \A p : IsFiniteSet(Entries(m, p)) /\ Cardinality(Entries(m, p)) \in Nat
         /\ \A p, d : IsFiniteSet(Mapping(m, d, p)) /\ Cardinality(Mapping(m, d, p)) \in Nat
         /\ IsFiniteSet(FreeSlots(m))
<1> USE LayoutAssumption
<1>1. IsFiniteSet(Pages)
  <2>1. IsFiniteSet(0..kUserEnd) 
    BY FS_Interval
  <2>2. Pages \subseteq 0..kUserEnd
    BY DEF Pages, Common, KernelHeap, UserPages, KERNEL_START, PAGE_DIRECTORY_REGION_START,
       USER_SHARED_SPACE_START, TMP_SHARED_TASK_MEM_START, KERN_HEAP_BEGIN, USER_START
  <2>3. QED BY <2>1, <2>2, FS_Subset
<1>2. IsFiniteSet(Slots)
  BY FS_Interval DEF Slots
<1>3. IsFiniteSet(PageDirs(m))
  <2>1. IsFiniteSet(Slots \cup {KernelPageDir})
    BY <1>2, FS_AddElement
  <2>2. QED BY <2>1, FS_Subset DEF IsMemory, PageDirs
<1>4. ASSUME NEW p PROVE IsFiniteSet(Entries(m, p))
  <2>1. IsFiniteSet(PageDirs(m) \X Pages)
    BY <1>1, <1>3, FS_Product
  <2>2. Entries(m, p) \subseteq PageDirs(m) \X Pages
    BY DEF Entries
  <2>3. QED BY <2>1, <2>2, FS_Subset
<1>5. ASSUME NEW p, NEW d PROVE IsFiniteSet(Mapping(m, d, p))
  BY <1>1, FS_Subset DEF Mapping
<1>6. IsFiniteSet(FreeSlots(m))
  BY <1>2, FS_Subset DEF FreeSlots
<1>7. QED BY <1>1, <1>3, <1>4, <1>5, <1>6, FS_CardinalityType

\* A failed assertion changes nothing but the record of it.
LEMMA FailedGood ==
  ASSUME NEW m, Good(m), NEW a \in Asserts
  PROVE  Good(Failed(m, a)) /\ Failed(m, a).pd = m.pd /\ ~Running(Failed(m, a))
<1> DEFINE n == Failed(m, a)
<1>1. /\ n = [pd |-> m.pd, refs |-> m.refs, used |-> m.used, halt |-> a]
      /\ n.pd = m.pd /\ n.refs = m.refs /\ n.used = m.used /\ n.halt = a
  BY DEF Failed, Good, IsMemory
<1> HIDE DEF n
<1>2. IsMemory(n)
  BY <1>1 DEF Good, IsMemory
<1>3. Counted(n)
  BY <1>1 DEF Good, Counted, Entries, PageDirs
<1>4. Shared(n)
  BY <1>1 DEF Good, Shared, PageDirs
<1>5. a # "no"
  BY DEF Asserts
<1>6. QED BY <1>1, <1>2, <1>3, <1>4, <1>5 DEF Good, Running, n

\* AddPage and RemovePage touch the entry for page v of directory d, and those of
\* the other directories if the page is common.
Touches(m, n, d, v) ==
  /\ PageDirs(n) = PageDirs(m)
  /\ \A e \in PageDirs(m), w \in Pages :
       w # v \/ e \notin Updated(m, d, v) => n.pd[e][w] = m.pd[e][w]

\* Memory n is memory m with the entries for page v of the directories in ds set
\* to p.
IsUpdate(m, n, ds, v, p) ==
  /\ n.refs = m.refs /\ n.used = m.used /\ n.halt = m.halt
  /\ n.pd \in [PageDirs(m) -> [Pages -> Frames \cup {NoFrame}]]
  /\ \A e \in PageDirs(m), w \in Pages :
       n.pd[e][w] = IF e \in ds /\ w = v THEN p ELSE m.pd[e][w]

\* SetEntries sets those entries.
LEMMA SetEntriesLemma ==
  ASSUME NEW m, IsMemory(m), NEW ds \in SUBSET PageDirs(m), NEW v \in Pages,
         NEW p \in Frames \cup {NoFrame}
  PROVE  IsUpdate(m, SetEntries(m, ds, v, p), ds, v, p)
<1> DEFINE f == [d \in PageDirs(m) |->
                  IF d \in ds THEN [m.pd[d] EXCEPT ![v] = p] ELSE m.pd[d]]
           n == SetEntries(m, ds, v, p)
<1>1. /\ n = [pd |-> f, refs |-> m.refs, used |-> m.used, halt |-> m.halt]
      /\ n.pd = f
  BY DEF SetEntries, IsMemory
<1>2. m.pd \in [PageDirs(m) -> [Pages -> Frames \cup {NoFrame}]]
  BY DEF IsMemory, PageDirs
<1>3. f \in [PageDirs(m) -> [Pages -> Frames \cup {NoFrame}]]
  BY <1>2
<1>4. \A e \in PageDirs(m), w \in Pages :
        f[e][w] = IF e \in ds /\ w = v THEN p ELSE m.pd[e][w]
  BY <1>2
<1> HIDE DEF f, n
<1>5. IsUpdate(m, n, ds, v, p)
  BY <1>1, <1>3, <1>4 DEF IsUpdate
<1>6. QED BY <1>5 DEF n

\* A frame that an entry maps has a reference, and is in use.
LEMMA EntryLemma ==
  ASSUME NEW m, Good(m), NEW d \in PageDirs(m), NEW v \in Pages, m.pd[d][v] # NoFrame,
         NEW p, p = m.pd[d][v]
  PROVE  /\ p \in Frames /\ <<d, v>> \in Entries(m, p)
         /\ m.refs[p] \in Nat /\ m.refs[p] >= 1 /\ p \in m.used
<1>1. p \in Frames
  BY DEF Good, IsMemory, PageDirs
<1>2. <<d, v>> \in Entries(m, p)
  BY DEF Entries
<1>3. IsFiniteSet(Entries(m, p)) /\ Cardinality(Entries(m, p)) \in Nat
  BY Finite DEF Good
<1> DEFINE E == Entries(m, p)
<1> HIDE DEF E
<1>4. Cardinality(E) # 0
  <2>1. IsFiniteSet(E) /\ E # {}
    BY <1>2, <1>3 DEF E
  <2>2. QED BY <2>1, FS_EmptySet
<1>5. m.refs[p] = Cardinality(E) /\ (p \in m.used <=> m.refs[p] > 0)
  BY <1>1 DEF Good, Counted, E
<1>6. Cardinality(E) \in Nat
  BY <1>3 DEF E
<1>7. m.refs[p] \in Nat /\ m.refs[p] >= 1 /\ m.refs[p] > 0
  BY <1>4, <1>5, <1>6
<1>8. QED BY <1>1, <1>2, <1>5, <1>7

\* No entry maps a frame that is not in use.
LEMMA UnusedLemma ==
  ASSUME NEW m, Good(m), NEW p \in Frames, p \notin m.used
  PROVE  \A d \in PageDirs(m), v \in Pages : m.pd[d][v] # p
<1>1. NoFrame \notin Frames
  BY LayoutAssumption DEF Frames
<1>2. QED BY <1>1, EntryLemma

\* n is m after AddPage.
Adds(m, d, v, p, n) ==
  n = AddPage(m, d, v, p, TRUE) \/ n = AddPage(m, d, v, p, FALSE)

\* AddPage keeps the invariant, and leaves the other entries alone.
LEMMA AddPageGood ==
  ASSUME NEW m, Good(m), NEW d \in PageDirs(m), NEW v \in Pages,
         d = KernelPageDir \/ v \notin Common,
         NEW p \in Frames,
         NEW n, Adds(m, d, v, p, n)
  PROVE  /\ Good(n) /\ Touches(m, n, d, v)
         /\ Running(n) => Running(m) /\ n.pd[d][v] = p
<1> DEFINE ds == Updated(m, d, v)
<1>1. CASE ~Running(m)
  BY <1>1 DEF Adds, AddPage, Touches
<1>2. CASE \E a \in Asserts : n = Failed(m, a)
  BY <1>2, FailedGood DEF Touches, PageDirs
<1>3. CASE /\ Running(m) /\ \A e \in ds : m.pd[e][v] = NoFrame
           /\ n = setPageFrameUsed(SetEntries(m, ds, v, p), p, Cardinality(ds))
  <2> DEFINE s == SetEntries(m, ds, v, p)
  <2>1. ds \in SUBSET PageDirs(m) /\ d \in ds /\ IsFiniteSet(ds) /\ Cardinality(ds) \in Nat
    BY Finite, FS_Subset, FS_Singleton, FS_CardinalityType DEF Updated, Good
  <2>2. IsUpdate(m, s, ds, v, p)
    BY <2>1, SetEntriesLemma DEF Good
  <2>3. n = [pd |-> s.pd, refs |-> [s.refs EXCEPT ![p] = @ + Cardinality(ds)],
             used |-> s.used \cup {p}, halt |-> s.halt]
    BY <1>3 DEF setPageFrameUsed
  <2> HIDE DEF s, ds
  <2>4. /\ n.pd = s.pd /\ n.refs = [m.refs EXCEPT ![p] = @ + Cardinality(ds)]
        /\ n.used = m.used \cup {p} /\ n.halt = m.halt
        /\ PageDirs(n) = PageDirs(m) /\ DOMAIN n.pd = DOMAIN m.pd
    BY <2>2, <2>3 DEF PageDirs, IsUpdate
  <2>5. IsMemory(n)
    <3>1. m.refs \in [Frames -> Nat] /\ m.used \subseteq Frames
      BY DEF Good, IsMemory
    <3>2. n.refs \in [Frames -> Nat]
      BY <2>1, <2>4, <3>1
    <3>3. QED BY <2>2, <2>3, <2>4, <3>1, <3>2 DEF Good, IsMemory, PageDirs, IsUpdate
  <2>6. Counted(n)
    <3> SUFFICES ASSUME NEW q \in Frames
                 PROVE  /\ n.refs[q] = Cardinality(Entries(n, q))
                        /\ q \in n.used <=> n.refs[q] > 0
      BY DEF Counted
    <3>1. /\ m.refs \in [Frames -> Nat]
          /\ m.refs[q] = Cardinality(Entries(m, q)) /\ (q \in m.used <=> m.refs[q] > 0)
      BY DEF Good, Counted, IsMemory
    <3>2. NoFrame \notin Frames
      BY LayoutAssumption DEF Frames
    <3>3. CASE q # p
      <4>1. Entries(n, q) = Entries(m, q)
        BY <2>2, <2>4, <3>2, <3>3, <1>3 DEF Entries, IsUpdate, ds
      <4>2. n.refs[q] = m.refs[q] /\ (q \in n.used <=> q \in m.used)
        BY <2>4, <3>1, <3>3
      <4>3. QED BY <3>1, <4>1, <4>2
    <3>4. CASE q = p
      <4>1. Entries(n, p) = Entries(m, p) \cup (ds \X {v})
        <5>1. ASSUME NEW e \in PageDirs(m), NEW w \in Pages
              PROVE  n.pd[e][w] = p <=> m.pd[e][w] = p \/ (e \in ds /\ w = v)
          BY <2>2, <2>4 DEF IsUpdate
        <5>2. QED BY <5>1, <2>1, <2>4 DEF Entries
      <4>2. Entries(m, p) \cap (ds \X {v}) = {}
        BY <1>3, <3>2 DEF Entries, ds
      <4> DEFINE A == ds \X {v}
      <4>3. IsFiniteSet(A) /\ Cardinality(A) = Cardinality(ds) * 1
        <5>1. IsFiniteSet({v}) /\ Cardinality({v}) = 1
          BY FS_Singleton
        <5>2. QED BY <2>1, <5>1, CountProduct
      <4> HIDE DEF A
      <4>4. Cardinality(Entries(n, p)) = Cardinality(Entries(m, p)) + Cardinality(ds)
        <5>1. IsFiniteSet(Entries(m, p))
          BY Finite DEF Good
        <5>2. Entries(n, p) = Entries(m, p) \cup A /\ Entries(m, p) \cap A = {}
          BY <4>1, <4>2, Zenon DEF A
        <5>3. Cardinality(Entries(n, p)) = Cardinality(Entries(m, p)) + Cardinality(A)
          BY <4>3, <5>1, <5>2, CountUnion
        <5>4. QED BY <2>1, <4>3, <5>3
      <4>5. n.refs[p] = m.refs[p] + Cardinality(ds)
        BY <2>4, <3>1, <3>4
      <4>6. Cardinality(ds) > 0
        BY <2>1, FS_EmptySet
      <4>7. QED BY <2>1, <2>4, <3>1, <3>4, <4>4, <4>5, <4>6
    <3>5. QED BY <3>3, <3>4
  <2>7. Shared(n)
    <3>1. CASE v \in Common
      <4>1. ds = PageDirs(m) /\ KernelPageDir \in ds
        BY <3>1 DEF ds, Updated, Good, IsMemory, PageDirs
      <4>2. QED BY <2>2, <2>4, <4>1 DEF Shared, Good, Pages, IsUpdate
    <3>2. CASE v \notin Common
      BY <2>2, <2>4, <3>2 DEF Shared, Good, Pages, IsMemory, PageDirs, IsUpdate
    <3>3. QED BY <3>1, <3>2
  <2>8. QED BY <1>3, <2>1, <2>2, <2>4, <2>5, <2>6, <2>7 DEF Good, Touches, Running, ds, IsUpdate
<1>4. QED BY <1>1, <1>2, <1>3 DEF Adds, AddPage, Asserts

\* RemovePage of a page that is mapped and not common keeps the invariant, and
\* leaves the other entries alone.
LEMMA RemovePageGood ==
  ASSUME NEW m, Good(m), NEW d \in PageDirs(m), NEW v \in Pages, v \notin Common,
         Running(m) => m.pd[d][v] # NoFrame,
         NEW n, n = RemovePage(m, d, v)
  PROVE  /\ Good(n) /\ Touches(m, n, d, v)
         /\ Running(n) => Running(m) /\ n.pd[d][v] = NoFrame
<1> DEFINE ds == {d}
           p == m.pd[d][v]
<1>1. CASE ~Running(m)
  BY <1>1 DEF RemovePage, Touches
<1>2. CASE \E a \in Asserts : n = Failed(m, a)
  BY <1>2, FailedGood DEF Touches, PageDirs
<1>3. CASE /\ Running(m) /\ m.refs[p] >= 1
           /\ n = setPageFrameFree(SetEntries(m, ds, v, NoFrame), p, 1)
  <2> DEFINE s == SetEntries(m, ds, v, NoFrame)
  <2>1. p \in Frames /\ NoFrame \notin Frames
    BY <1>3, LayoutAssumption DEF Good, IsMemory, PageDirs, Frames
  <2>2. IsUpdate(m, s, ds, v, NoFrame)
    BY SetEntriesLemma DEF Good
  <2>3. n = [pd |-> s.pd, refs |-> [s.refs EXCEPT ![p] = @ - 1],
             used |-> IF s.refs[p] = 1 THEN s.used \ {p} ELSE s.used, halt |-> s.halt]
    BY <1>3 DEF setPageFrameFree
  <2> HIDE DEF s, p
  <2>4. /\ n.pd = s.pd /\ n.refs = [m.refs EXCEPT ![p] = @ - 1]
        /\ n.used = (IF m.refs[p] = 1 THEN m.used \ {p} ELSE m.used) /\ n.halt = m.halt
        /\ PageDirs(n) = PageDirs(m) /\ DOMAIN n.pd = DOMAIN m.pd
    BY <2>2, <2>3 DEF PageDirs, IsUpdate
  <2>5. IsMemory(n)
    <3>1. m.refs \in [Frames -> Nat] /\ m.used \subseteq Frames
      BY DEF Good, IsMemory
    <3>2. n.refs \in [Frames -> Nat]
      <4>1. m.refs[p] - 1 \in Nat
        BY <1>3, <2>1, <3>1 DEF p
      <4>2. QED BY <2>1, <2>4, <3>1, <4>1
    <3>3. n.used \subseteq Frames
      BY <2>4, <3>1
    <3>4. QED BY <2>2, <2>3, <2>4, <3>2, <3>3 DEF Good, IsMemory, PageDirs, IsUpdate
  <2>6. Counted(n)
    <3> SUFFICES ASSUME NEW q \in Frames
                 PROVE  /\ n.refs[q] = Cardinality(Entries(n, q))
                        /\ q \in n.used <=> n.refs[q] > 0
      BY DEF Counted
    <3>1. /\ m.refs \in [Frames -> Nat]
          /\ m.refs[q] = Cardinality(Entries(m, q)) /\ (q \in m.used <=> m.refs[q] > 0)
      BY DEF Good, Counted, IsMemory
    <3>2. CASE q # p
      <4>1. Entries(n, q) = Entries(m, q)
        <5>1. ASSUME NEW e \in PageDirs(m), NEW w \in Pages
              PROVE  n.pd[e][w] = q <=> m.pd[e][w] = q
          <6>1. CASE e = d /\ w = v
            <7>1. n.pd[e][w] = NoFrame
              BY <2>2, <2>4, <6>1 DEF IsUpdate
            <7>2. QED BY <7>1, <2>1, <3>2, <6>1 DEF p
          <6>2. CASE e # d \/ w # v
            <7>1. n.pd[e][w] = m.pd[e][w]
              BY <2>2, <2>4, <6>2 DEF IsUpdate
            <7>2. QED BY <7>1
          <6>3. QED BY <6>1, <6>2
        <5>2. QED BY <5>1, <2>4 DEF Entries
      <4>2. n.refs[q] = m.refs[q] /\ (q \in n.used <=> q \in m.used)
        BY <2>4, <3>1, <3>2
      <4>3. QED BY <3>1, <4>1, <4>2
    <3>3. CASE q = p
      <4>1. Entries(n, p) = Entries(m, p) \ {<<d, v>>}
        <5>1. ASSUME NEW e \in PageDirs(m), NEW w \in Pages
              PROVE  n.pd[e][w] = p <=> m.pd[e][w] = p /\ ~(e = d /\ w = v)
          BY <2>1, <2>2, <2>4 DEF IsUpdate
        <5>2. QED BY <5>1, <2>4 DEF Entries
      <4>2. <<d, v>> \in Entries(m, p)
        BY DEF Entries, p
      <4>3. Cardinality(Entries(n, p)) = Cardinality(Entries(m, p)) - 1
        <5>1. IsFiniteSet(Entries(m, p))
          BY Finite DEF Good
        <5>2. QED BY <4>1, <4>2, <5>1, FS_RemoveElement
      <4>4. n.refs[p] = m.refs[p] - 1
        BY <2>4, <3>1, <3>3
      <4>5. QED BY <1>3, <2>4, <3>1, <3>3, <4>3, <4>4
    <3>4. QED BY <3>2, <3>3
  <2>7. Shared(n)
    BY <2>2, <2>4 DEF Shared, Good, Pages, IsMemory, PageDirs, IsUpdate
  <2>8. n.pd[d][v] = NoFrame /\ (Running(n) => Running(m))
    BY <2>2, <2>4 DEF IsUpdate, Running
  <2>9. Touches(m, n, d, v)
    BY <2>2, <2>4 DEF Touches, Updated, IsUpdate
  <2>10. QED BY <2>5, <2>6, <2>7, <2>8, <2>9 DEF Good
<1>4. CASE Running(m)
  <2>1. Updated(m, d, v) = ds /\ Cardinality(ds) = 1 /\ ds \ {d} = {}
    BY FS_Singleton DEF Updated
  <2>2. (IF m.pd[d][v] = NoFrame THEN 0 ELSE m.pd[d][v]) = p
    BY <1>4
  <2>3. n = IF m.refs[p] < 1 THEN Failed(m, "no references")
            ELSE setPageFrameFree(SetEntries(m, ds, v, NoFrame), p, 1)
    BY <1>4, <2>1, <2>2 DEF RemovePage
  <2>4. m.refs[p] \in Nat
    BY <1>4, LayoutAssumption DEF Good, IsMemory, PageDirs, Frames
  <2> HIDE DEF p, ds
  <2>5. CASE m.refs[p] < 1
    <3>1. n = Failed(m, "no references")
      BY <2>3, <2>5
    <3>2. "no references" \in Asserts
      BY DEF Asserts
    <3>3. QED BY <3>1, <3>2, FailedGood DEF Touches, PageDirs
  <2>6. CASE m.refs[p] >= 1
    <3>1. n = setPageFrameFree(SetEntries(m, ds, v, NoFrame), p, 1)
      <4>1. ~(m.refs[p] < 1)
        BY <2>4, <2>6
      <4>2. QED BY <2>3, <4>1, Zenon
    <3>2. QED BY <1>3, <1>4, <2>6, <3>1
  <2>7. QED BY <2>4, <2>5, <2>6
<1>5. QED BY <1>1, <1>4

\* A search from the bottom finds something where there is something.
LEMMA MinLemma ==
  ASSUME NEW S, S \subseteq Nat, S # {}
  PROVE  Min(S) \in S
<1>1. PICK x \in S : \A y \in S : ~(<<y, x>> \in OpToRel(<, Nat))
  BY NatLessThanWellFounded, WFMin
<1>2. \A y \in S : x <= y
  <2>1. \A y \in S : ~(y < x)
    BY <1>1, Zenon DEF OpToRel
  <2>2. QED BY <2>1
<1>3. QED BY <1>2 DEF Min

\* AddPage of the first free frame keeps the invariant.
LEMMA AddFreshGood ==
  ASSUME NEW m, Good(m), NEW d \in PageDirs(m), NEW v \in Pages,
         d = KernelPageDir \/ v \notin Common, NEW start \in Nat,
         NEW n, n = AddFreshPage(m, d, v, start)
  PROVE  /\ Good(n) /\ Touches(m, n, d, v)
         /\ Running(n) => Running(m) /\ n.pd[d][v] # NoFrame
<1>1. CASE ~Running(m)
  BY <1>1 DEF AddFreshPage, Touches
<1>2. CASE Running(m) /\ FreeFrames(m, start) = {}
  <2>1. n = Failed(m, "Memory is full!")
    BY <1>2 DEF AddFreshPage
  <2>2. "Memory is full!" \in Asserts
    BY DEF Asserts
  <2>3. QED BY <2>1, <2>2, FailedGood DEF Touches, PageDirs
<1>3. CASE Running(m) /\ FreeFrames(m, start) # {}
  <2> DEFINE p == Min(FreeFrames(m, start))
  <2>1. p \in Frames /\ NoFrame \notin Frames
    BY <1>3, MinLemma, LayoutAssumption DEF FreeFrames, Frames
  <2>2. Adds(m, d, v, p, n)
    BY <1>3 DEF AddFreshPage, Adds
  <2> HIDE DEF p
  <2>3. /\ Good(n) /\ Touches(m, n, d, v)
        /\ Running(n) => Running(m) /\ n.pd[d][v] = p
    BY <2>1, <2>2, AddPageGood
  <2>4. QED BY <2>1, <2>3
<1>4. QED BY <1>1, <1>2, <1>3

\* The entries of directory x that are a copy of d's and map frame p.
Column(m, x, d, p) == {x} \X Mapping(m, d, p)

\* The entries of one directory that map a frame are among all that do.
LEMMA MappingLemma ==
  ASSUME NEW m, Good(m), NEW d \in PageDirs(m), NEW p \in Frames, NEW x
  PROVE  /\ IsFiniteSet(Column(m, x, d, p))
         /\ Cardinality(Column(m, x, d, p)) = Cardinality(Mapping(m, d, p))
         /\ Cardinality(Mapping(m, d, p)) \in Nat
         /\ Column(m, d, d, p) \subseteq Entries(m, p)
         /\ Cardinality(Mapping(m, d, p)) <= m.refs[p]
<1> DEFINE M == Mapping(m, d, p)
<1>1. IsFiniteSet(M) /\ Cardinality(M) \in Nat
  BY Finite, FS_Subset, FS_CardinalityType DEF Mapping, Good
<1>2. ASSUME NEW y
      PROVE  IsFiniteSet({y} \X M) /\ Cardinality({y} \X M) = Cardinality(M)
  <2> DEFINE P == {y} \X M
  <2>1. IsFiniteSet({y}) /\ Cardinality({y}) = 1
    BY FS_Singleton
  <2> HIDE DEF M
  <2>2. IsFiniteSet(P) /\ Cardinality(P) = 1 * Cardinality(M)
    BY <1>1, <2>1, CountProduct
  <2>3. QED BY <1>1, <2>2
<1>3. {d} \X M \subseteq Entries(m, p)
  BY DEF Mapping, Entries
<1>4. Cardinality(M) <= m.refs[p]
  <2>1. IsFiniteSet(Entries(m, p)) /\ m.refs[p] = Cardinality(Entries(m, p))
    BY Finite DEF Good, Counted
  <2> HIDE DEF M
  <2>2. Cardinality({d} \X M) <= Cardinality(Entries(m, p))
    BY <1>3, <2>1, FS_Subset
  <2>3. QED BY <1>2, <2>1, <2>2
<1> HIDE DEF M
<1>5. QED BY <1>1, <1>2, <1>3, <1>4 DEF M, Column

\* n is m with a copy of the kernel's directory in slot s.
IsClone(m, n, s) ==
  /\ s \in Slots \ PageDirs(m)
  /\ PageDirs(n) = PageDirs(m) \cup {s}
  /\ n.pd[s] = m.pd[KernelPageDir]
  /\ \A d \in PageDirs(m) : n.pd[d] = m.pd[d]

\* Clone keeps the invariant: each frame gains a reference for each copied entry.
LEMMA CloneGood ==
  ASSUME NEW m, Good(m), NEW n, n = Clone(m)
  PROVE  /\ Good(n)
         /\ Running(n) => Running(m) /\ IsClone(m, n, Min(FreeSlots(m)))
         /\ Running(n) \/ n.pd = m.pd
<1> DEFINE s == Min(FreeSlots(m))
           gain(p) == Cardinality(Mapping(m, KernelPageDir, p))
<1>1. CASE ~Running(m)
  BY <1>1 DEF Clone
<1>2. CASE Running(m) /\ FreeSlots(m) = {}
  <2>1. n = Failed(m, "No free pages in the page directory region")
    BY <1>2 DEF Clone
  <2>2. "No free pages in the page directory region" \in Asserts
    BY DEF Asserts
  <2>3. QED BY <2>1, <2>2, FailedGood
<1>3. CASE Running(m) /\ FreeSlots(m) # {}
  <2>1. s \in Slots \ PageDirs(m)
    BY <1>3, MinLemma, LayoutAssumption DEF FreeSlots, Slots
  <2>2. n = [pd   |-> [d \in PageDirs(m) \cup {s} |->
                        IF d = s THEN m.pd[KernelPageDir] ELSE m.pd[d]],
             refs |-> [p \in Frames |-> m.refs[p] + gain(p)],
             used |-> m.used, halt |-> m.halt]
    BY <1>3 DEF Clone
  <2> HIDE DEF s, gain
  <2>3. /\ n.used = m.used /\ n.halt = m.halt
        /\ n.refs = [p \in Frames |-> m.refs[p] + gain(p)]
    BY <2>2
  <2>4. IsClone(m, n, s)
    BY <2>1, <2>2 DEF IsClone, PageDirs
  <2>5. \A p \in Frames :
          /\ gain(p) \in Nat /\ gain(p) <= m.refs[p] /\ m.refs[p] \in Nat
          /\ IsFiniteSet(Column(m, s, KernelPageDir, p))
          /\ Cardinality(Column(m, s, KernelPageDir, p)) = gain(p)
    BY MappingLemma DEF gain, Good, IsMemory, PageDirs
  <2>6. IsMemory(n)
    <3>1. n.refs \in [Frames -> Nat]
      BY <2>3, <2>5
    <3>2. n.pd \in [PageDirs(m) \cup {s} -> [Pages -> Frames \cup {NoFrame}]]
      BY <2>2 DEF Good, IsMemory, PageDirs
    <3>3. QED BY <2>1, <2>2, <2>3, <3>1, <3>2 DEF Good, IsMemory, PageDirs
  <2>7. Counted(n)
    <3> SUFFICES ASSUME NEW p \in Frames
                 PROVE  /\ n.refs[p] = Cardinality(Entries(n, p))
                        /\ p \in n.used <=> n.refs[p] > 0
      BY DEF Counted
    <3> DEFINE A == Column(m, s, KernelPageDir, p)
    <3>1. Entries(n, p) = Entries(m, p) \cup A
      BY <2>1, <2>4 DEF Entries, Column, Mapping, IsClone
    <3>2. Entries(m, p) \cap A = {}
      BY <2>1 DEF Entries, Column
    <3>3. IsFiniteSet(Entries(m, p)) /\ m.refs[p] = Cardinality(Entries(m, p))
      BY Finite DEF Good, Counted
    <3>4. IsFiniteSet(A) /\ Cardinality(A) = gain(p)
      BY <2>5
    <3> HIDE DEF A
    <3>5. Cardinality(Entries(n, p)) = Cardinality(Entries(m, p)) + Cardinality(A)
      BY <3>1, <3>2, <3>3, <3>4, CountUnion
    <3>6. n.refs[p] = m.refs[p] + gain(p)
      BY <2>3
    <3>7. p \in m.used <=> m.refs[p] > 0
      BY DEF Good, Counted
    <3>8. QED BY <2>3, <2>5, <3>3, <3>4, <3>5, <3>6, <3>7
  <2>8. Shared(n)
    BY <2>1, <2>4 DEF Shared, Good, IsMemory, PageDirs, IsClone
  <2>9. Running(n)
    BY <1>3, <2>3 DEF Running
  <2>10. QED BY <1>3, <2>4, <2>6, <2>7, <2>8, <2>9 DEF Good, s
<1>4. QED BY <1>1, <1>2, <1>3

\* ReclaimPageDirRegion keeps the invariant: each frame loses a reference for
\* each entry of the directory.
LEMMA ReclaimGood ==
  ASSUME NEW m, Good(m), NEW d \in PageDirs(m), d # KernelPageDir,
         NEW n, n = ReclaimPageDirRegion(m, d)
  PROVE  /\ Good(n)
         /\ Running(m) => /\ n.halt = m.halt /\ PageDirs(n) = PageDirs(m) \ {d}
                          /\ \A e \in PageDirs(n) : n.pd[e] = m.pd[e]
<1> DEFINE gone(p) == Cardinality(Mapping(m, d, p))
<1>1. CASE ~Running(m)
  BY <1>1 DEF ReclaimPageDirRegion
<1>2. \A p \in Frames :
        /\ gone(p) \in Nat /\ gone(p) <= m.refs[p] /\ m.refs[p] \in Nat
        /\ Cardinality(Column(m, d, d, p)) = gone(p)
        /\ Column(m, d, d, p) \subseteq Entries(m, p)
  BY MappingLemma DEF Good, IsMemory
<1>3. CASE Running(m)
  <2>1. n = [pd   |-> [e \in PageDirs(m) \ {d} |-> m.pd[e]],
             refs |-> [p \in Frames |-> m.refs[p] - gone(p)],
             used |-> {p \in m.used : gone(p) = 0 \/ m.refs[p] # gone(p)},
             halt |-> m.halt]
    <3>1. ~\E p \in Frames : m.refs[p] < gone(p)
      BY <1>2
    <3>2. QED BY <1>3, <3>1, Zenon DEF ReclaimPageDirRegion
  <2> HIDE DEF gone
  <2>2. /\ n.pd = [e \in PageDirs(m) \ {d} |-> m.pd[e]]
        /\ n.refs = [p \in Frames |-> m.refs[p] - gone(p)]
        /\ n.used = {p \in m.used : gone(p) = 0 \/ m.refs[p] # gone(p)}
        /\ n.halt = m.halt /\ PageDirs(n) = PageDirs(m) \ {d}
    BY <2>1 DEF PageDirs
  <2>3. IsMemory(n)
    <3>1. n.refs \in [Frames -> Nat]
      BY <1>2, <2>2
    <3>2. n.pd \in [PageDirs(m) \ {d} -> [Pages -> Frames \cup {NoFrame}]]
      BY <2>2 DEF Good, IsMemory, PageDirs
    <3>3. n.used \subseteq Frames
      BY <2>2 DEF Good, IsMemory
    <3>4. QED BY <2>1, <2>2, <3>1, <3>2, <3>3 DEF Good, IsMemory, PageDirs
  <2>4. Counted(n)
    <3> SUFFICES ASSUME NEW p \in Frames
                 PROVE  /\ n.refs[p] = Cardinality(Entries(n, p))
                        /\ p \in n.used <=> n.refs[p] > 0
      BY DEF Counted
    <3> DEFINE A == Column(m, d, d, p)
    <3>1. Entries(n, p) = Entries(m, p) \ A
      BY <2>2 DEF Entries, Column, Mapping
    <3>2. IsFiniteSet(Entries(m, p)) /\ m.refs[p] = Cardinality(Entries(m, p))
      BY Finite DEF Good, Counted
    <3>3. A \subseteq Entries(m, p) /\ Cardinality(A) = gone(p)
      BY <1>2
    <3> HIDE DEF A
    <3>4. Cardinality(Entries(n, p)) = Cardinality(Entries(m, p)) - Cardinality(A)
      BY <3>1, <3>2, <3>3, CountDifference
    <3>5. n.refs[p] = m.refs[p] - gone(p)
      BY <2>2
    <3>6. p \in m.used <=> m.refs[p] > 0
      BY DEF Good, Counted
    <3>7. p \in n.used <=> n.refs[p] > 0
      <4>1. p \in n.used <=> p \in m.used /\ (gone(p) = 0 \/ m.refs[p] # gone(p))
        BY <2>2
      <4>2. gone(p) \in Nat /\ gone(p) <= m.refs[p] /\ m.refs[p] \in Nat
        BY <1>2
      <4>3. QED BY <3>5, <3>6, <4>1, <4>2
    <3>8. QED BY <3>2, <3>3, <3>4, <3>5, <3>7
  <2>5. Shared(n)
    BY <2>2 DEF Shared, Good, IsMemory, PageDirs
  <2>6. QED BY <2>2, <2>3, <2>4, <2>5 DEF Good
<1>4. QED BY <1>1, <1>3

-----------------------------------------------------------------------------
(* Which assertions can fail *)

Expected == {"no", "Memory is full!", "No memory left for kernel!",
             "No free pages in the page directory region", "next_free_vpage",
             "child_tasks_.empty()"}

\* The pages of the kernel heap are mapped from the bottom up.
Contiguous(m) ==
  \E top \in KERN_HEAP_BEGIN..kHeapEnd : \A v \in KernelHeap :
    m.pd[KernelPageDir][v] # NoFrame <=> v < top

\* What every operation keeps.
Sound(m) == Good(m) /\ m.halt \in Expected /\ (Running(m) => Contiguous(m))

\* n differs from m in entry v of directory d, at most.
Only(m, n, d, v) ==
  /\ PageDirs(n) = PageDirs(m)
  /\ \A e \in PageDirs(m), w \in Pages : e # d \/ w # v => n.pd[e][w] = m.pd[e][w]

\* What entry v of directory d came to map, no entry mapped before.
Fresh(m, n, d, v) ==
  \/ n.pd[d][v] = m.pd[d][v]
  \/ \A e \in PageDirs(m), w \in Pages : m.pd[e][w] # n.pd[d][v]

\* An operation on an entry that is not common does not disturb the heap.
LEMMA OnlyLemma ==
  ASSUME NEW m, Good(m), NEW n, NEW d, NEW v, v \notin Common, Touches(m, n, d, v)
  PROVE  Only(m, n, d, v) /\ (Contiguous(m) => Contiguous(n))
<1>1. Only(m, n, d, v)
  BY DEF Touches, Only, Updated
<1>2. \A w \in KernelHeap : n.pd[KernelPageDir][w] = m.pd[KernelPageDir][w]
  BY <1>1 DEF Only, Common, Pages, Good, IsMemory, PageDirs
<1>3. QED BY <1>1, <1>2 DEF Contiguous

\* An assertion about resources is an expected one.
LEMMA FailedSound ==
  ASSUME NEW m, Sound(m), NEW a \in Expected, a # "no"
  PROVE  /\ Sound(Failed(m, a)) /\ Failed(m, a).pd = m.pd
         /\ ~Running(Failed(m, a))
<1>1. a \in Asserts
  BY DEF Expected, Asserts
<1>2. Good(Failed(m, a)) /\ Failed(m, a).pd = m.pd /\ ~Running(Failed(m, a))
  BY <1>1, FailedGood DEF Sound
<1>3. Failed(m, a).halt = a
  BY DEF Failed, Sound, Good, IsMemory
<1>4. QED BY <1>2, <1>3 DEF Sound

\* AddPage does not fail on an entry that is free, with a frame that may be used.
LEMMA AddPageRuns ==
  ASSUME NEW m, Good(m), Running(m), NEW d \in PageDirs(m), NEW v \in Pages,
         NEW p \in Frames, m.pd[d][v] = NoFrame,
         NEW n, \/ n = AddPage(m, d, v, p, TRUE)
                \/ n = AddPage(m, d, v, p, FALSE) /\ p \notin m.used
  PROVE  Running(n)
<1> DEFINE ds == Updated(m, d, v)
           s == SetEntries(m, ds, v, p)
<1>1. ~\E e \in ds : m.pd[e][v] # NoFrame
  BY DEF Updated, Good, Shared
<1>2. n = setPageFrameUsed(s, p, Cardinality(ds))
  BY <1>1 DEF AddPage
<1>3. ds \in SUBSET PageDirs(m)
  BY DEF Updated
<1>4. s.halt = m.halt
  <2>1. IsUpdate(m, s, ds, v, p)
    BY <1>3, SetEntriesLemma DEF Good
  <2>2. QED BY <2>1 DEF IsUpdate
<1>5. n.halt = s.halt
  BY <1>2 DEF setPageFrameUsed
<1>6. QED BY <1>4, <1>5 DEF Running

\* The search for a frame is all that can fail when a free entry is mapped, and
\* what it finds was nobody's.
LEMMA FreshExpected ==
  ASSUME NEW m, Sound(m), NEW d \in PageDirs(m), NEW v \in Pages,
         d = KernelPageDir \/ v \notin Common,
         Running(m) => m.pd[d][v] = NoFrame, NEW start \in Nat,
         NEW n, n = AddFreshPage(m, d, v, start)
  PROVE  n.halt \in Expected /\ Fresh(m, n, d, v)
<1>1. CASE ~Running(m)
  BY <1>1 DEF AddFreshPage, Sound, Fresh
<1>2. CASE Running(m) /\ FreeFrames(m, start) = {}
  <2>1. n = Failed(m, "Memory is full!")
    BY <1>2 DEF AddFreshPage
  <2>2. "Memory is full!" \in Expected /\ "Memory is full!" # "no"
    BY DEF Expected
  <2>3. QED BY <2>1, <2>2, FailedSound DEF Sound, Fresh
<1>3. CASE Running(m) /\ FreeFrames(m, start) # {}
  <2> DEFINE p == Min(FreeFrames(m, start))
  <2>1. p \in FreeFrames(m, start)
    BY <1>3, MinLemma, LayoutAssumption DEF FreeFrames, Frames
  <2>2. n = AddPage(m, d, v, p, FALSE)
    BY <1>3 DEF AddFreshPage
  <2> HIDE DEF p
  <2>3. p \in Frames /\ p \notin m.used
    BY <2>1 DEF FreeFrames
  <2>4. Running(n)
    BY <1>3, <2>2, <2>3, AddPageRuns DEF Sound
  <2>5. Adds(m, d, v, p, n)
    BY <2>2 DEF Adds
  <2>6. n.pd[d][v] = p
    BY <2>3, <2>4, <2>5, AddPageGood DEF Sound
  <2>7. Fresh(m, n, d, v)
    BY <2>3, <2>6, UnusedLemma DEF Fresh, Sound
  <2>8. QED BY <2>4, <2>7 DEF Running, Expected
<1>4. QED BY <1>1, <1>2, <1>3

\* AddPage of a free frame to a free entry that is not common: only the search
\* for a frame can fail, and the frame was nobody's.
LEMMA AddFreshSound ==
  ASSUME NEW m, Sound(m), NEW d \in PageDirs(m), NEW v \in Pages, v \notin Common,
         Running(m) => m.pd[d][v] = NoFrame, NEW start \in Nat,
         NEW n, n = AddFreshPage(m, d, v, start)
  PROVE  /\ Sound(n) /\ Only(m, n, d, v) /\ Fresh(m, n, d, v)
         /\ Running(n) => Running(m) /\ n.pd[d][v] # NoFrame
<1>1. /\ Good(n) /\ Touches(m, n, d, v)
      /\ Running(n) => Running(m) /\ n.pd[d][v] # NoFrame
  BY AddFreshGood DEF Sound
<1>2. Only(m, n, d, v) /\ (Contiguous(m) => Contiguous(n))
  BY <1>1, OnlyLemma DEF Sound
<1>3. n.halt \in Expected /\ Fresh(m, n, d, v)
  BY FreshExpected
<1>4. QED BY <1>1, <1>2, <1>3 DEF Sound

\* RemovePage of an entry that is mapped and not common never fails.
LEMMA RemoveSound ==
  ASSUME NEW m, Sound(m), NEW d \in PageDirs(m), NEW v \in Pages, v \notin Common,
         Running(m) => m.pd[d][v] # NoFrame,
         NEW n, n = RemovePage(m, d, v)
  PROVE  /\ Sound(n) /\ Only(m, n, d, v)
         /\ Running(n) => Running(m) /\ n.pd[d][v] = NoFrame
         /\ Running(m) => Running(n)
<1>1. /\ Good(n) /\ Touches(m, n, d, v)
      /\ Running(n) => Running(m) /\ n.pd[d][v] = NoFrame
  BY RemovePageGood DEF Sound
<1>2. Only(m, n, d, v) /\ (Contiguous(m) => Contiguous(n))
  BY <1>1, OnlyLemma DEF Sound
<1>3. CASE ~Running(m)
  BY <1>1, <1>2, <1>3 DEF RemovePage, Sound
<1>4. CASE Running(m)
  <2> DEFINE p == m.pd[d][v]
             s == SetEntries(m, {d}, v, NoFrame)
  <2>1. p \in Frames
    BY <1>4, EntryLemma DEF Sound
  <2>2. m.refs[p] \in Nat /\ m.refs[p] >= 1
    BY <1>4, EntryLemma DEF Sound
  <2>3. Updated(m, d, v) = {d} /\ Cardinality({d}) = 1 /\ {d} \ {d} = {}
    BY FS_Singleton DEF Updated
  <2>4. (IF m.pd[d][v] = NoFrame THEN 0 ELSE m.pd[d][v]) = p
    BY <1>4
  <2>5. ~(m.refs[p] < 1)
    BY <2>2
  <2>6. n = setPageFrameFree(s, p, 1)
    BY <1>4, <2>3, <2>4, <2>5 DEF RemovePage
  <2>7. s.halt = m.halt
    <3>1. IsUpdate(m, s, {d}, v, NoFrame)
      BY SetEntriesLemma DEF Sound, Good
    <3> HIDE DEF s
    <3>2. QED BY <3>1 DEF IsUpdate
  <2> HIDE DEF s, p
  <2>8. n.halt = s.halt
    BY <2>6 DEF setPageFrameFree
  <2>9. QED BY <1>1, <1>2, <1>4, <2>7, <2>8 DEF Sound, Running
<1>5. QED BY <1>3, <1>4

\* The first page above a heap without holes.
LEMMA HeapTopLemma ==
  ASSUME NEW m, Contiguous(m)
  PROVE  /\ HeapTop(m) \in KERN_HEAP_BEGIN..kHeapEnd
         /\ \A v \in KernelHeap : m.pd[KernelPageDir][v] # NoFrame <=> v < HeapTop(m)
<1>1. PICK top \in KERN_HEAP_BEGIN..kHeapEnd :
        \A v \in KernelHeap : m.pd[KernelPageDir][v] # NoFrame <=> v < top
  BY DEF Contiguous
<1> DEFINE H == {v \in KernelHeap : m.pd[KernelPageDir][v] # NoFrame}
<1>2. H = KERN_HEAP_BEGIN..(top - 1)
  BY <1>1, LayoutAssumption DEF KernelHeap, KERN_HEAP_BEGIN
<1>3. Cardinality(KERN_HEAP_BEGIN..(top - 1)) = top - KERN_HEAP_BEGIN
  <2>1. KERN_HEAP_BEGIN \in Int /\ top - 1 \in Int /\ top >= KERN_HEAP_BEGIN /\ top \in Int
    BY <1>1, LayoutAssumption DEF KERN_HEAP_BEGIN
  <2>2. Cardinality(KERN_HEAP_BEGIN..(top - 1)) =
          IF KERN_HEAP_BEGIN > top - 1 THEN 0 ELSE (top - 1) - KERN_HEAP_BEGIN + 1
    BY <2>1, FS_Interval, Zenon
  <2>3. QED BY <2>1, <2>2
<1>4. HeapTop(m) = KERN_HEAP_BEGIN + Cardinality(H)
  BY DEF HeapTop
<1> HIDE DEF H
<1>5. HeapTop(m) = top
  BY <1>1, <1>2, <1>3, <1>4, LayoutAssumption DEF KERN_HEAP_BEGIN
<1>6. QED BY <1>1, <1>5

\* n differs from m in entries that are common, at most.
Outside(m, n) ==
  /\ PageDirs(n) = PageDirs(m)
  /\ \A e \in PageDirs(m), w \in Pages \ Common : n.pd[e][w] = m.pd[e][w]

\* An allocation in the kernel, whether the heap grows or not.
LEMMA kmallocSound ==
  ASSUME NEW m, Sound(m), NEW n, n = m \/ n = ksbrk_page(m)
  PROVE  Sound(n) /\ Outside(m, n) /\ (Running(n) => Running(m))
<1>1. CASE n = m \/ ~Running(m)
  <2>1. n = m
    BY <1>1 DEF ksbrk_page
  <2>2. QED BY <2>1 DEF Outside
<1>2. CASE Running(m) /\ n = ksbrk_page(m)
  <2> DEFINE top == HeapTop(m)
  <2>1. /\ top \in KERN_HEAP_BEGIN..kHeapEnd
        /\ \A v \in KernelHeap : m.pd[KernelPageDir][v] # NoFrame <=> v < top
    BY <1>2, HeapTopLemma DEF Sound
  <2> HIDE DEF top
  <2>2. CASE top >= kHeapEnd
    <3>1. n = Failed(m, "No memory left for kernel!")
      BY <1>2, <2>2 DEF ksbrk_page, top
    <3>2. "No memory left for kernel!" \in Expected /\ "No memory left for kernel!" # "no"
      BY DEF Expected
    <3>3. QED BY <3>1, <3>2, FailedSound DEF Outside, PageDirs
  <2>3. CASE ~(top >= kHeapEnd)
    <3>1. n = AddFreshPage(m, KernelPageDir, top, 1)
      BY <1>2, <2>3 DEF ksbrk_page, top
    <3>2. /\ top \in KernelHeap /\ top \in Common /\ top \in Pages
          /\ m.pd[KernelPageDir][top] = NoFrame
      BY <2>1, <2>3, LayoutAssumption DEF KernelHeap, Common, Pages, KERN_HEAP_BEGIN
    <3>3. KernelPageDir \in PageDirs(m)
      BY DEF Sound, Good, IsMemory, PageDirs
    <3>4. /\ Good(n) /\ Touches(m, n, KernelPageDir, top)
          /\ Running(n) => Running(m) /\ n.pd[KernelPageDir][top] # NoFrame
      BY <3>1, <3>2, <3>3, AddFreshGood DEF Sound
    <3>5. n.halt \in Expected
      BY <3>1, <3>2, <3>3, FreshExpected
    <3>6. Outside(m, n)
      BY <3>2, <3>4 DEF Outside, Touches
    <3>7. ASSUME Running(n) PROVE Contiguous(n)
      <4>1. \A v \in KernelHeap :
              v # top => n.pd[KernelPageDir][v] = m.pd[KernelPageDir][v]
        BY <3>3, <3>4 DEF Touches, Common, Pages
      <4>2. \A v \in KernelHeap : n.pd[KernelPageDir][v] # NoFrame <=> v < top + 1
        <5>1. \A v \in KernelHeap : v \in Nat
          BY LayoutAssumption DEF KernelHeap, KERN_HEAP_BEGIN
        <5>2. top \in Nat /\ n.pd[KernelPageDir][top] # NoFrame
          BY <2>1, <3>4, <3>7, LayoutAssumption DEF KERN_HEAP_BEGIN
        <5>3. QED BY <2>1, <3>2, <4>1, <5>1, <5>2
      <4>3. top + 1 \in KERN_HEAP_BEGIN..kHeapEnd
        BY <2>1, <2>3, LayoutAssumption DEF KERN_HEAP_BEGIN
      <4>4. QED BY <4>2, <4>3 DEF Contiguous
    <3>8. QED BY <3>4, <3>5, <3>6, <3>7 DEF Sound
  <2>4. QED BY <2>2, <2>3
<1>3. QED BY <1>1, <1>2

\* n is m after AddPage with allow_physical_reuse.
Reuses(m, d, v, p, n) == n = AddPage(m, d, v, p, TRUE)

\* AddPage of a given frame to a free entry that is not common never fails.
LEMMA AddReusedSound ==
  ASSUME NEW m, Sound(m), NEW d \in PageDirs(m), NEW w \in Pages, w \notin Common,
         Running(m) => m.pd[d][w] = NoFrame, NEW p \in Frames,
         NEW n, Reuses(m, d, w, p, n)
  PROVE  /\ Sound(n) /\ Only(m, n, d, w)
         /\ Running(m) => Running(n) /\ n.pd[d][w] = p
         /\ Running(n) => Running(m)
<1>1. CASE ~Running(m)
  BY <1>1 DEF Reuses, AddPage, Only
<1>2. CASE Running(m)
  <2>1. Adds(m, d, w, p, n)
    BY DEF Reuses, Adds
  <2>2. /\ Good(n) /\ Touches(m, n, d, w)
        /\ Running(n) => Running(m) /\ n.pd[d][w] = p
    BY <2>1, AddPageGood DEF Sound
  <2>3. Running(n)
    BY <1>2, AddPageRuns DEF Reuses, Sound
  <2>4. Only(m, n, d, w) /\ (Contiguous(m) => Contiguous(n))
    BY <2>2, OnlyLemma DEF Sound
  <2>5. n.halt \in Expected
    BY <2>3 DEF Running, Expected
  <2>6. QED BY <1>2, <2>2, <2>3, <2>4, <2>5 DEF Sound
<1>3. QED BY <1>1, <1>2

\* What MapFrom asserts.
Maps(m, task, v, d, w) ==
  Running(m) => m.pd[task][v] # NoFrame /\ m.pd[d][w] = NoFrame

\* What MapFrom does.
MappedFrom(m, n, task, v, d, w) ==
  /\ Sound(n) /\ Only(m, n, d, w)
  /\ Running(m) => Running(n) /\ n.pd[d][w] = m.pd[task][v]
  /\ Running(n) => Running(m)

\* Mapping a page that is mapped elsewhere, at a free entry that is not common.
LEMMA MapFromSound ==
  ASSUME NEW m, Sound(m), NEW task \in PageDirs(m), NEW v \in Pages,
         NEW d \in PageDirs(m), NEW w \in Pages, w \notin Common,
         Maps(m, task, v, d, w), NEW n, n = MapFrom(m, task, v, d, w)
  PROVE  MappedFrom(m, n, task, v, d, w)
<1>1. CASE ~Running(m)
  BY <1>1 DEF MapFrom, Only, MappedFrom
<1>2. CASE Running(m)
  <2> DEFINE p == m.pd[task][v]
  <2>1. p \in Frames
    BY <1>2, EntryLemma DEF Sound, Maps
  <2>2. p \in m.used
    BY <1>2, EntryLemma DEF Sound, Maps
  <2>3. Reuses(m, d, w, p, n)
    BY <1>2, <2>2 DEF MapFrom, Reuses, Maps
  <2>4. Running(m) => m.pd[d][w] = NoFrame
    BY DEF Maps
  <2> HIDE DEF p
  <2>5. Sound(n) /\ Only(m, n, d, w) /\ Running(n) /\ n.pd[d][w] = p
    BY <1>2, <2>1, <2>3, <2>4, AddReusedSound
  <2>6. QED BY <1>2, <2>5 DEF p, MappedFrom
<1>3. QED BY <1>1, <1>2

-----------------------------------------------------------------------------
(* The address space of a task *)

\* The page a copy goes through is free, and the page to copy from is there.
Copies(m, task, other, v) ==
  Running(m) => m.pd[task][v] # NoFrame /\ m.pd[other][TMP_SHARED_TASK_MEM_START] = NoFrame

\* The pages named by the kernel's code are pages, and not common.
LEMMA PagesLemma ==
  /\ USER_SHARED_SPACE_START \in Pages \ Common
  /\ TMP_SHARED_TASK_MEM_START \in Pages \ Common
  /\ USER_START \in UserPages
  /\ UserPages \subseteq Pages \ Common
  /\ 0 \in Pages \ Common
  /\ KERNEL_START \in Common /\ PAGE_DIRECTORY_REGION_START \in Common
  /\ Common \subseteq Pages
  /\ USER_SHARED_SPACE_START # TMP_SHARED_TASK_MEM_START
  /\ USER_SHARED_SPACE_START \notin UserPages /\ TMP_SHARED_TASK_MEM_START \notin UserPages
BY LayoutAssumption
   DEF Pages, Common, KernelHeap, UserPages, USER_SHARED_SPACE_START,
       TMP_SHARED_TASK_MEM_START, USER_START, KERNEL_START,
       PAGE_DIRECTORY_REGION_START, KERN_HEAP_BEGIN

\* A copy between address spaces never fails, and leaves every entry as it was.
LEMMA TaskMemcpySound ==
  ASSUME NEW m, Sound(m), NEW task \in PageDirs(m), NEW other \in PageDirs(m),
         NEW v \in Pages, Copies(m, task, other, v),
         NEW n, n = TaskMemcpy(m, task, other, v)
  PROVE  /\ Sound(n) /\ n.pd = m.pd
         /\ Running(n) <=> Running(m)
<1>1. CASE other = task
  BY <1>1 DEF TaskMemcpy
<1>2. CASE ~Running(m)
  BY <1>2 DEF TaskMemcpy, MapFrom, RemovePage
<1>3. CASE other # task /\ Running(m)
  <2> DEFINE w == TMP_SHARED_TASK_MEM_START
             m1 == MapFrom(m, task, v, other, w)
  <2>1. w \in Pages /\ w \notin Common
    BY PagesLemma
  <2>2. n = RemovePage(m1, other, w)
    BY <1>3 DEF TaskMemcpy
  <2>3. m.pd[task][v] # NoFrame /\ m.pd[other][w] = NoFrame
    BY <1>3 DEF Copies
  <2>a. Maps(m, task, v, other, w)
    BY <2>3 DEF Maps
  <2> HIDE DEF w
  <2>b. MappedFrom(m, m1, task, v, other, w)
    BY <2>1, <2>a, MapFromSound
  <2>4. Sound(m1) /\ Only(m, m1, other, w) /\ Running(m1) /\ m1.pd[other][w] = m.pd[task][v]
    BY <1>3, <2>b DEF MappedFrom
  <2> HIDE DEF m1
  <2>5. other \in PageDirs(m1) /\ m1.pd[other][w] # NoFrame
    BY <2>3, <2>4 DEF Only
  <2>6. Sound(n) /\ Only(m1, n, other, w) /\ Running(n) /\ n.pd[other][w] = NoFrame
    BY <2>1, <2>2, <2>4, <2>5, RemoveSound
  <2>7. n.pd = m.pd
    <3>1. PageDirs(n) = PageDirs(m)
      BY <2>4, <2>6 DEF Only
    <3>2. \A e \in PageDirs(m), x \in Pages : n.pd[e][x] = m.pd[e][x]
      BY <2>3, <2>4, <2>6 DEF Only
    <3>3. /\ n.pd \in [PageDirs(m) -> [Pages -> Frames \cup {NoFrame}]]
          /\ m.pd \in [PageDirs(m) -> [Pages -> Frames \cup {NoFrame}]]
      BY <2>6, <3>1 DEF Sound, Good, IsMemory, PageDirs
    <3>4. \A e \in PageDirs(m) : n.pd[e] = m.pd[e]
      BY <3>2, <3>3
    <3>5. QED BY <3>3, <3>4
  <2>8. QED BY <1>3, <2>6, <2>7
<1>4. QED BY <1>1, <1>2, <1>3

\* Setting up the stack of a new task maps its shared space, and nothing else.
LEMMA SetupStackSound ==
  ASSUME NEW m, Sound(m), NEW s \in PageDirs(m), s # KernelPageDir,
         NEW creator \in PageDirs(m),
         Running(m) => /\ m.pd[s][USER_SHARED_SPACE_START] = NoFrame
                       /\ m.pd[KernelPageDir][USER_SHARED_SPACE_START] = NoFrame
                       /\ m.pd[creator][TMP_SHARED_TASK_MEM_START] = NoFrame,
         NEW n, n = SetupStack(m, s, creator)
  PROVE  /\ Sound(n)
         /\ Only(m, n, s, USER_SHARED_SPACE_START)
         /\ Fresh(m, n, s, USER_SHARED_SPACE_START)
         /\ Running(n) => Running(m) /\ n.pd[s][USER_SHARED_SPACE_START] # NoFrame
<1> DEFINE w == USER_SHARED_SPACE_START
           x == TMP_SHARED_TASK_MEM_START
           m1 == AddFreshPage(m, s, w, 1)
           m2 == MapFrom(m1, s, w, KernelPageDir, w)
           m3 == TaskMemcpy(m2, s, creator, w)
<1>1. w \in Pages /\ w \notin Common /\ x \in Pages /\ x # w
  BY PagesLemma
<1>2. n = RemovePage(m3, KernelPageDir, w)
  BY DEF SetupStack
<1>3. KernelPageDir \in PageDirs(m)
  BY DEF Sound, Good, IsMemory, PageDirs
<1> HIDE DEF w, x
<1>4. /\ Sound(m1) /\ Only(m, m1, s, w) /\ Fresh(m, m1, s, w)
      /\ Running(m1) => Running(m) /\ m1.pd[s][w] # NoFrame
  BY <1>1, AddFreshSound DEF w
<1> HIDE DEF m1
<1>5. /\ PageDirs(m1) = PageDirs(m)
      /\ Running(m1) => /\ m1.pd[KernelPageDir][w] = NoFrame
                        /\ m1.pd[creator][x] = NoFrame
  BY <1>1, <1>3, <1>4 DEF Only, w, x
<1>6. /\ Sound(m2) /\ Only(m1, m2, KernelPageDir, w)
      /\ Running(m1) => Running(m2) /\ m2.pd[KernelPageDir][w] = m1.pd[s][w]
      /\ Running(m2) => Running(m1)
  <2>1. s \in PageDirs(m1) /\ KernelPageDir \in PageDirs(m1)
    BY <1>3, <1>5
  <2>2. Maps(m1, s, w, KernelPageDir, w)
    BY <1>4, <1>5 DEF Maps
  <2>3. m2 = MapFrom(m1, s, w, KernelPageDir, w)
    OBVIOUS
  <2>4. Sound(m1) /\ w \in Pages /\ w \notin Common
    BY <1>1, <1>4
  <2> HIDE DEF m2
  <2>5. MappedFrom(m1, m2, s, w, KernelPageDir, w)
    BY <2>1, <2>2, <2>3, <2>4, MapFromSound
  <2>6. QED BY <2>5 DEF MappedFrom
<1>7. ~Running(m1) => m2 = m1
  BY DEF MapFrom
<1> HIDE DEF m2
<1>8. Copies(m2, s, creator, w) /\ PageDirs(m2) = PageDirs(m)
  BY <1>1, <1>3, <1>4, <1>5, <1>6 DEF Only, Copies, x
<1>9. Sound(m3) /\ m3.pd = m2.pd /\ (Running(m3) <=> Running(m2))
  BY <1>1, <1>6, <1>8, TaskMemcpySound
<1> HIDE DEF m3
<1>10. /\ PageDirs(m3) = PageDirs(m)
       /\ Running(m3) => m3.pd[KernelPageDir][w] # NoFrame
  BY <1>4, <1>6, <1>8, <1>9 DEF PageDirs
<1>11. /\ Sound(n) /\ Only(m3, n, KernelPageDir, w)
       /\ Running(n) => Running(m3) /\ n.pd[KernelPageDir][w] = NoFrame
       /\ Running(m3) => Running(n)
  BY <1>1, <1>2, <1>3, <1>9, <1>10, RemoveSound
<1>12. ~Running(m3) => n = m3
  BY <1>2 DEF RemovePage
<1>13. \A e \in PageDirs(m), y \in Pages : n.pd[e][y] = m1.pd[e][y]
  <2>1. CASE Running(m1)
    <3> SUFFICES ASSUME NEW e \in PageDirs(m), NEW y \in Pages
                 PROVE  n.pd[e][y] = m1.pd[e][y]
      OBVIOUS
    <3>1. CASE e # KernelPageDir \/ y # w
      <4>1. n.pd[e][y] = m3.pd[e][y]
        BY <1>10, <1>11, <3>1 DEF Only
      <4>2. m2.pd[e][y] = m1.pd[e][y]
        BY <1>5, <1>6, <3>1 DEF Only
      <4>3. QED BY <1>9, <4>1, <4>2
    <3>2. CASE e = KernelPageDir /\ y = w
      <4>1. n.pd[KernelPageDir][w] = NoFrame
        BY <1>6, <1>9, <1>11, <2>1
      <4>2. QED BY <1>5, <2>1, <3>2, <4>1
    <3>3. QED BY <3>1, <3>2
  <2>2. CASE ~Running(m1)
    BY <1>6, <1>7, <1>9, <1>12, <2>2
  <2>3. QED BY <2>1, <2>2
<1>14. PageDirs(n) = PageDirs(m)
  BY <1>10, <1>11 DEF Only
<1>15. Only(m, n, s, w)
  BY <1>4, <1>13, <1>14 DEF Only
<1>16. Fresh(m, n, s, w)
  <2>1. n.pd[s][w] = m1.pd[s][w]
    BY <1>1, <1>13
  <2>2. Fresh(m, m1, s, w)
    BY <1>4
  <2>3. QED BY <2>1, <2>2 DEF Fresh
<1>17. Running(n) => Running(m) /\ n.pd[s][w] # NoFrame
  <2>1. Running(n) => Running(m1)
    BY <1>6, <1>9, <1>11
  <2>2. n.pd[s][w] = m1.pd[s][w]
    BY <1>1, <1>13
  <2>3. QED BY <2>1, <2>2, <1>4
<1>18. QED BY <1>11, <1>15, <1>16, <1>17 DEF w

\* Mapping and filling the code page of a new task changes no other entry.
LEMMA CopyCodeSound ==
  ASSUME NEW m, Sound(m), NEW s \in PageDirs(m), NEW creator \in PageDirs(m),
         Running(m) => /\ m.pd[s][USER_START] = NoFrame
                       /\ m.pd[creator][TMP_SHARED_TASK_MEM_START] = NoFrame,
         NEW n, n = CopyCode(m, s, creator)
  PROVE  /\ Sound(n) /\ Only(m, n, s, USER_START) /\ Fresh(m, n, s, USER_START)
         /\ Running(n) => Running(m)
<1> DEFINE m1 == AddFreshPage(m, s, USER_START, 0)
<1>1. /\ USER_START \in Pages /\ USER_START \notin Common
      /\ TMP_SHARED_TASK_MEM_START \in Pages /\ TMP_SHARED_TASK_MEM_START # USER_START
  BY PagesLemma
<1>2. /\ Sound(m1) /\ Only(m, m1, s, USER_START) /\ Fresh(m, m1, s, USER_START)
      /\ Running(m1) => Running(m) /\ m1.pd[s][USER_START] # NoFrame
  BY <1>1, AddFreshSound
<1>3. n = TaskMemcpy(m1, s, creator, USER_START)
  BY DEF CopyCode
<1> HIDE DEF m1
<1>4. Copies(m1, s, creator, USER_START) /\ PageDirs(m1) = PageDirs(m)
  BY <1>1, <1>2 DEF Only, Copies
<1>5. Sound(n) /\ n.pd = m1.pd /\ (Running(n) <=> Running(m1))
  BY <1>1, <1>2, <1>3, <1>4, TaskMemcpySound
<1>6. Only(m, n, s, USER_START)
  BY <1>2, <1>5 DEF Only, PageDirs
<1>a. Fresh(m, n, s, USER_START)
  BY <1>2, <1>5 DEF Fresh
<1>7. QED BY <1>2, <1>5, <1>6, <1>a

\* Between two operations: the kernel's directory has nothing but what is common,
\* no page is left from a copy, and every task has its shared space.
Neat(m) ==
  /\ \A v \in Pages \ Common : m.pd[KernelPageDir][v] = NoFrame
  /\ \A d \in PageDirs(m) \ {KernelPageDir} :
       /\ m.pd[d][TMP_SHARED_TASK_MEM_START] = NoFrame
       /\ m.pd[d][USER_SHARED_SPACE_START] # NoFrame

\* Clone can fail for want of a slot only.
LEMMA CloneSound ==
  ASSUME NEW m, Sound(m), NEW n, n = Clone(m)
  PROVE  /\ Sound(n)
         /\ Running(n) => Running(m) /\ IsClone(m, n, Min(FreeSlots(m)))
         /\ Running(n) \/ n.pd = m.pd
<1>1. /\ Good(n)
      /\ Running(n) => Running(m) /\ IsClone(m, n, Min(FreeSlots(m)))
      /\ Running(n) \/ n.pd = m.pd
  BY CloneGood DEF Sound
<1>2. n.halt \in Expected
  <2>1. CASE ~Running(m)
    BY <2>1 DEF Clone, Sound
  <2>2. CASE Running(m) /\ FreeSlots(m) = {}
    <3>1. n = Failed(m, "No free pages in the page directory region")
      BY <2>2 DEF Clone
    <3>2. /\ "No free pages in the page directory region" \in Expected
          /\ "No free pages in the page directory region" # "no"
      BY DEF Expected
    <3>3. QED BY <3>1, <3>2, FailedSound DEF Sound
  <2>3. CASE Running(m) /\ FreeSlots(m) # {}
    BY <2>3 DEF Clone, Sound
  <2>4. QED BY <2>1, <2>2, <2>3
<1>3. ASSUME Running(n) PROVE Contiguous(n)
  <2>1. n.pd[KernelPageDir] = m.pd[KernelPageDir]
    BY <1>1, <1>3 DEF IsClone, Sound, Good, IsMemory, PageDirs
  <2>2. QED BY <1>1, <1>3, <2>1 DEF Sound, Contiguous
<1>4. QED BY <1>1, <1>2, <1>3 DEF Sound

-----------------------------------------------------------------------------
(* Which frames two tasks have in common *)

\* Entry v of directory d maps the frame that entry w of directory e maps.
Meet(m, d, v, e, w) == m.pd[d][v] = m.pd[e][w] /\ m.pd[d][v] # NoFrame

\* What two tasks have in common in n they had in common in m.
Private(m, n) ==
  \A d, e \in PageDirs(n) \ {KernelPageDir}, v, w \in Pages \ Common :
    d # e /\ Meet(n, d, v, e, w) =>
      d \in PageDirs(m) /\ e \in PageDirs(m) /\ Meet(m, d, v, e, w)

\* Private composes.
LEMMA PrivateTrans ==
  ASSUME NEW a, NEW b, NEW c, Private(a, b), Private(b, c)
  PROVE  Private(a, c)
<1> SUFFICES ASSUME NEW d \in PageDirs(c) \ {KernelPageDir},
                    NEW e \in PageDirs(c) \ {KernelPageDir}, d # e,
                    NEW v \in Pages \ Common, NEW w \in Pages \ Common,
                    Meet(c, d, v, e, w)
             PROVE  d \in PageDirs(a) /\ e \in PageDirs(a) /\ Meet(a, d, v, e, w)
  BY DEF Private
<1>1. d \in PageDirs(b) /\ e \in PageDirs(b) /\ Meet(b, d, v, e, w)
  BY DEF Private
<1>2. QED BY <1>1 DEF Private

\* The growth of the heap is of no concern to it.
LEMMA PrivateOutside ==
  ASSUME NEW m, NEW n, Outside(m, n)
  PROVE  Private(m, n)
BY DEF Private, Outside, Meet

\* A frame that was nobody's is not shared.
LEMMA PrivateFresh ==
  ASSUME NEW m, NEW n, NEW x, NEW y, Only(m, n, x, y), Fresh(m, n, x, y)
  PROVE  Private(m, n)
<1> SUFFICES ASSUME NEW d \in PageDirs(n), NEW e \in PageDirs(n), d # e,
                    NEW v \in Pages \ Common, NEW w \in Pages \ Common,
                    Meet(n, d, v, e, w)
             PROVE  d \in PageDirs(m) /\ e \in PageDirs(m) /\ Meet(m, d, v, e, w)
  BY DEF Private
<1>0. n.pd[d][v] = n.pd[e][w] /\ n.pd[d][v] # NoFrame
  BY DEF Meet
<1>1. d \in PageDirs(m) /\ e \in PageDirs(m)
  BY DEF Only
<1>2. n.pd[d][v] = m.pd[d][v]
  <2>1. CASE d = x /\ v = y
    <3>1. n.pd[e][w] = m.pd[e][w]
      BY <1>1, <2>1 DEF Only
    <3>2. QED BY <1>0, <1>1, <2>1, <3>1 DEF Fresh
  <2>2. CASE d # x \/ v # y
    BY <1>1, <2>2 DEF Only
  <2>3. QED BY <2>1, <2>2
<1>3. n.pd[e][w] = m.pd[e][w]
  <2>1. CASE e = x /\ w = y
    BY <1>0, <1>1, <1>2, <2>1 DEF Fresh
  <2>2. CASE e # x \/ w # y
    BY <1>1, <2>2 DEF Only
  <2>3. QED BY <2>1, <2>2
<1>4. QED BY <1>0, <1>1, <1>2, <1>3 DEF Meet

\* A clone of a directory that has nothing but what is common shares no more.
LEMMA PrivateClone ==
  ASSUME NEW m, NEW n, NEW s, IsClone(m, n, s),
         \A v \in Pages \ Common : m.pd[KernelPageDir][v] = NoFrame
  PROVE  Private(m, n)
BY DEF Private, IsClone, Meet

-----------------------------------------------------------------------------
(* The UserTask constructor, and the boot *)

\* The pages that the constructor maps are free.
Bare(m, s, creator) ==
  /\ m.pd[s][USER_SHARED_SPACE_START] = NoFrame
  /\ m.pd[KernelPageDir][USER_SHARED_SPACE_START] = NoFrame
  /\ m.pd[s][USER_START] = NoFrame
  /\ m.pd[creator][TMP_SHARED_TASK_MEM_START] = NoFrame

\* The steps of the constructor from the clone on.
Constructs(m, s, creator, k2, m2, k3, n) ==
  /\ k2 = m \/ k2 = ksbrk_page(m)
  /\ m2 = SetupStack(k2, s, creator)
  /\ k3 = m2 \/ k3 = ksbrk_page(m2)
  /\ n = CopyCode(k3, s, creator)

\* Directory s got its shared space and its code, and nothing else changed.
Spares(m, n, s) ==
  \A d \in PageDirs(m), v \in Pages \ Common :
    d # s \/ v \notin {USER_SHARED_SPACE_START, USER_START} => n.pd[d][v] = m.pd[d][v]

SetUp(m, n, s) ==
  /\ Sound(n) /\ Private(m, n) /\ PageDirs(n) = PageDirs(m) /\ Spares(m, n, s)
  /\ Running(n) => n.pd[s][USER_SHARED_SPACE_START] # NoFrame

\* From the clone on, the constructor changes two entries of the new task.
LEMMA SetupTaskSound ==
  ASSUME NEW m, Sound(m), NEW s \in PageDirs(m), s # KernelPageDir,
         NEW creator \in PageDirs(m),
         Bare(m, s, creator), NEW k2, NEW m2, NEW k3, NEW n,
         Constructs(m, s, creator, k2, m2, k3, n)
  PROVE  SetUp(m, n, s)
<1> DEFINE w == USER_SHARED_SPACE_START
           x == TMP_SHARED_TASK_MEM_START
           u == USER_START
<1>1. /\ w \in Pages \ Common /\ x \in Pages \ Common /\ x # w
      /\ u \in Pages \ Common /\ u # x /\ u # w /\ Common \subseteq Pages
  BY PagesLemma
<1>2. KernelPageDir \in PageDirs(m)
  BY DEF Sound, Good, IsMemory, PageDirs
<1>a. /\ m.pd[s][w] = NoFrame /\ m.pd[KernelPageDir][w] = NoFrame
      /\ m.pd[s][u] = NoFrame /\ m.pd[creator][x] = NoFrame
  BY DEF Bare
<1>b. /\ k2 = m \/ k2 = ksbrk_page(m)
      /\ m2 = SetupStack(k2, s, creator)
      /\ k3 = m2 \/ k3 = ksbrk_page(m2)
      /\ n = CopyCode(k3, s, creator)
  BY DEF Constructs
<1> HIDE DEF w, x, u
<1>3. Sound(k2) /\ Outside(m, k2)
  BY <1>b, kmallocSound
<1>4. /\ k2.pd[s][w] = NoFrame /\ k2.pd[KernelPageDir][w] = NoFrame
      /\ k2.pd[creator][x] = NoFrame /\ PageDirs(k2) = PageDirs(m)
  BY <1>1, <1>2, <1>3, <1>a DEF Outside
<1>5. /\ Sound(m2) /\ Only(k2, m2, s, w) /\ Fresh(k2, m2, s, w)
      /\ Running(m2) => m2.pd[s][w] # NoFrame
  BY <1>3, <1>4, <1>b, SetupStackSound DEF w, x
<1>6. Sound(k3) /\ Outside(m2, k3) /\ (Running(k3) => Running(m2))
  BY <1>5, <1>b, kmallocSound
<1>7. PageDirs(m2) = PageDirs(m) /\ PageDirs(k3) = PageDirs(m)
  BY <1>4, <1>5, <1>6 DEF Only, Outside
<1>8. ASSUME NEW d \in PageDirs(m), NEW v \in Pages \ Common, d # s \/ v # w
      PROVE  k3.pd[d][v] = m.pd[d][v]
  <2>1. k2.pd[d][v] = m.pd[d][v]
    BY <1>3 DEF Outside
  <2>2. m2.pd[d][v] = k2.pd[d][v]
    BY <1>4, <1>5, <1>8 DEF Only
  <2>3. k3.pd[d][v] = m2.pd[d][v]
    BY <1>6, <1>7 DEF Outside
  <2>4. QED BY <2>1, <2>2, <2>3
<1>9. k3.pd[s][u] = NoFrame /\ k3.pd[creator][x] = NoFrame
  BY <1>1, <1>8, <1>a
<1>10. /\ Sound(n) /\ Only(k3, n, s, u) /\ Fresh(k3, n, s, u)
       /\ Running(n) => Running(k3)
  BY <1>6, <1>7, <1>9, <1>b, CopyCodeSound DEF u, x
<1>11. PageDirs(n) = PageDirs(m)
  BY <1>7, <1>10 DEF Only
<1>12. ASSUME NEW d \in PageDirs(m), NEW v \in Pages \ Common, d # s \/ v \notin {w, u}
       PROVE  n.pd[d][v] = m.pd[d][v]
  <2>1. n.pd[d][v] = k3.pd[d][v]
    BY <1>7, <1>10, <1>12 DEF Only
  <2>2. QED BY <1>8, <1>12, <2>1
<1>13. Running(n) => n.pd[s][w] # NoFrame
  <2>1. n.pd[s][w] = k3.pd[s][w]
    BY <1>1, <1>7, <1>10 DEF Only
  <2>2. k3.pd[s][w] = m2.pd[s][w]
    BY <1>1, <1>6, <1>7 DEF Outside
  <2>3. QED BY <1>5, <1>6, <1>10, <2>1, <2>2
<1>14. Private(m, n)
  <2>1. Private(m, k2) /\ Private(m2, k3)
    BY <1>3, <1>6, PrivateOutside
  <2>2. Private(k2, m2) /\ Private(k3, n)
    BY <1>5, <1>10, PrivateFresh
  <2>3. QED BY <2>1, <2>2, PrivateTrans
<1>15. Spares(m, n, s)
  BY <1>12 DEF Spares, w, u
<1>16. QED BY <1>10, <1>11, <1>13, <1>14, <1>15 DEF w, SetUp

\* The UserTask constructor leaves the memory neat, or stops for want of memory;
\* the new task shares no frame with another.
LEMMA UserTaskSound ==
  ASSUME NEW m, Sound(m), Running(m), Neat(m), NEW creator \in PageDirs(m), NEW grows,
         NEW n, n = UserTask(m, creator, grows)
  PROVE  Sound(n) /\ (Running(n) => Neat(n)) /\ Private(m, n)
<1> DEFINE K == KernelPageDir
           s == Min(FreeSlots(m))
           k1 == kmalloc(m, "object" \in grows)
           m1 == Clone(k1)
           k2 == kmalloc(m1, "stack" \in grows)
           m2 == SetupStack(k2, s, creator)
           k3 == kmalloc(m2, "node" \in grows)
<1>1. n = IF Running(m1) THEN CopyCode(k3, s, creator) ELSE m1
  BY DEF UserTask
<1>2. K \in PageDirs(m)
  BY DEF Sound, Good, IsMemory, PageDirs
<1>3. Sound(k1) /\ Outside(m, k1)
  BY kmallocSound DEF kmalloc
<1> HIDE DEF k1
<1>4. \A v \in Pages \ Common : k1.pd[K][v] = NoFrame
  BY <1>2, <1>3 DEF Outside, Neat
<1>5. FreeSlots(k1) = FreeSlots(m)
  BY <1>3 DEF FreeSlots, Outside
<1>6. /\ Sound(m1) /\ (Running(m1) => IsClone(k1, m1, s))
      /\ Running(m1) \/ m1.pd = k1.pd
  BY <1>3, <1>5, CloneSound
<1> HIDE DEF m1, s
<1>7. Private(m, m1)
  <2>1. Private(m, k1)
    BY <1>3, PrivateOutside
  <2>2. Private(k1, m1)
    <3>1. CASE Running(m1)
      BY <3>1, <1>4, <1>6, PrivateClone
    <3>2. CASE m1.pd = k1.pd
      BY <3>2 DEF Private, PageDirs, Meet
    <3>3. QED BY <3>1, <3>2, <1>6
  <2>3. QED BY <2>1, <2>2, PrivateTrans
<1>8. CASE ~Running(m1)
  BY <1>1, <1>6, <1>7, <1>8
<1>9. CASE Running(m1)
  <2>1. /\ s \in Slots /\ s \notin PageDirs(m) /\ s # K /\ s # creator
        /\ PageDirs(m1) = PageDirs(m) \cup {s}
    BY <1>3, <1>6, <1>9, LayoutAssumption DEF IsClone, Outside, Slots
  <2>2. \A v \in Pages \ Common : m1.pd[s][v] = NoFrame
    BY <1>4, <1>6, <1>9 DEF IsClone
  <2>3. ASSUME NEW d \in PageDirs(m), NEW v \in Pages \ Common
        PROVE  m1.pd[d][v] = m.pd[d][v]
    BY <1>3, <1>6, <1>9 DEF IsClone, Outside
  <2>4. /\ m1.pd[s][USER_SHARED_SPACE_START] = NoFrame
        /\ m1.pd[K][USER_SHARED_SPACE_START] = NoFrame
        /\ m1.pd[s][USER_START] = NoFrame
        /\ m1.pd[creator][TMP_SHARED_TASK_MEM_START] = NoFrame
    <3>1. /\ USER_SHARED_SPACE_START \in Pages \ Common
          /\ USER_START \in Pages \ Common
          /\ TMP_SHARED_TASK_MEM_START \in Pages \ Common
      BY PagesLemma
    <3>2. /\ m.pd[K][USER_SHARED_SPACE_START] = NoFrame
          /\ m.pd[creator][TMP_SHARED_TASK_MEM_START] = NoFrame
      BY <3>1 DEF Neat
    <3>3. QED BY <1>2, <2>2, <2>3, <3>1, <3>2
  <2>5. /\ k2 = m1 \/ k2 = ksbrk_page(m1)
        /\ k3 = m2 \/ k3 = ksbrk_page(m2)
        /\ n = CopyCode(k3, s, creator)
    BY <1>1, <1>9 DEF kmalloc
  <2>6. Constructs(m1, s, creator, k2, m2, k3, n) /\ Bare(m1, s, creator)
    BY <2>4, <2>5 DEF Constructs, Bare
  <2> HIDE DEF k2, m2, k3
  <2>7. /\ Sound(n) /\ Private(m1, n) /\ PageDirs(n) = PageDirs(m1) /\ Spares(m1, n, s)
        /\ Running(n) => n.pd[s][USER_SHARED_SPACE_START] # NoFrame
    <3>1. s \in PageDirs(m1) /\ creator \in PageDirs(m1) /\ s # KernelPageDir
      BY <2>1
    <3>2. SetUp(m1, n, s)
      BY <1>6, <2>6, <3>1, SetupTaskSound
    <3>3. QED BY <3>2 DEF SetUp
  <2>8. Private(m, n)
    BY <1>7, <2>7, PrivateTrans
  <2>9. ASSUME Running(n) PROVE Neat(n)
    <3>1. ASSUME NEW d \in PageDirs(m), NEW v \in Pages \ Common
          PROVE  n.pd[d][v] = m.pd[d][v]
      <4>1. d \in PageDirs(m1) /\ d # s
        BY <2>1
      <4>2. n.pd[d][v] = m1.pd[d][v]
        BY <2>7, <4>1 DEF Spares
      <4>3. QED BY <2>3, <4>2
    <3>2. n.pd[s][TMP_SHARED_TASK_MEM_START] = NoFrame
      BY <2>1, <2>2, <2>7, PagesLemma DEF Spares
    <3>3. n.pd[s][USER_SHARED_SPACE_START] # NoFrame
      BY <2>7, <2>9
    <3>4. /\ \A v \in Pages \ Common : n.pd[K][v] = NoFrame
          /\ \A d \in PageDirs(m) \ {K} :
               /\ n.pd[d][TMP_SHARED_TASK_MEM_START] = NoFrame
               /\ n.pd[d][USER_SHARED_SPACE_START] # NoFrame
      BY <1>2, <3>1, PagesLemma DEF Neat
    <3>5. QED BY <2>1, <2>7, <3>2, <3>3, <3>4 DEF Neat
  <2>10. QED BY <2>7, <2>8, <2>9
<1>10. QED BY <1>8, <1>9

\* After the boot the memory is neat, or there is none left.
LEMMA KernelSetupSound ==
  ASSUME NEW grows, NEW n, n = KernelSetup(grows)
  PROVE  Sound(n) /\ (Running(n) => Neat(n)) /\ PageDirs(n) = {KernelPageDir}
<1> DEFINE K == KernelPageDir
           a == KERNEL_START
           b == PAGE_DIRECTORY_REGION_START
           m0 == [pd   |-> [d \in {KernelPageDir} |-> [v \in Pages |-> NoFrame]],
                  refs |-> [p \in Frames |-> 0], used |-> {}, halt |-> "no"]
           m1 == AddPage(m0, KernelPageDir, a, a, FALSE)
           m2 == AddPage(m1, KernelPageDir, b, b, FALSE)
           k2 == ksbrk_page(m2)
           m3 == AddPage(k2, KernelPageDir, 0, 0, TRUE)
           k3 == kmalloc(m3, grows)
<1>1. n = RemovePage(k3, KernelPageDir, 0)
  BY DEF KernelSetup
<1>2. /\ a \in Common /\ b \in Common /\ Common \subseteq Pages /\ a # b
      /\ 0 \in Pages \ Common /\ a \notin KernelHeap /\ b \notin KernelHeap
      /\ a \in Frames /\ b \in Frames /\ 0 \in Frames /\ NoFrame \notin Frames
  BY PagesLemma, LayoutAssumption
     DEF KERNEL_START, PAGE_DIRECTORY_REGION_START, KernelHeap, KERN_HEAP_BEGIN, Frames
<1> HIDE DEF a, b
<1>3. /\ PageDirs(m0) = {K} /\ m0.used = {} /\ m0.halt = "no"
      /\ \A v \in Pages : m0.pd[K][v] = NoFrame
  BY DEF PageDirs
<1>4. Good(m0)
  <2>1. IsMemory(m0)
    BY DEF IsMemory
  <2>2. ASSUME NEW p \in Frames PROVE Cardinality(Entries(m0, p)) = 0
    <3>1. Entries(m0, p) = {}
      BY <1>2, <1>3 DEF Entries
    <3>2. QED BY <3>1, FS_EmptySet
  <2>3. Counted(m0)
    <3>1. \A p \in Frames : m0.refs[p] = 0 /\ p \notin m0.used
      OBVIOUS
    <3> HIDE DEF m0
    <3>2. QED BY <2>2, <3>1 DEF Counted
  <2>4. Shared(m0)
    BY <1>3 DEF Shared
  <2>5. QED BY <2>1, <2>3, <2>4 DEF Good
<1> HIDE DEF m0
<1>5. /\ Good(m1) /\ Running(m1) /\ PageDirs(m1) = {K} /\ m1.pd[K][a] = a
      /\ \A v \in Pages \ {a} : m1.pd[K][v] = NoFrame
  <2>1. Adds(m0, K, a, a, m1)
    BY DEF Adds
  <2>2. Running(m1)
    BY <1>2, <1>3, <1>4, AddPageRuns DEF Running
  <2> HIDE DEF m1
  <2>3. Good(m1) /\ Touches(m0, m1, K, a) /\ m1.pd[K][a] = a
    <3>1. /\ KernelPageDir \in PageDirs(m0) /\ a \in Pages /\ a \in Frames
          /\ Adds(m0, KernelPageDir, a, a, m1)
      BY <1>2, <1>3, <2>1
    <3>2. /\ Good(m1) /\ Touches(m0, m1, KernelPageDir, a)
          /\ Running(m1) => m1.pd[KernelPageDir][a] = a
      BY <1>4, <3>1, AddPageGood
    <3>3. QED BY <2>2, <3>2
  <2>4. QED BY <1>3, <2>2, <2>3 DEF Touches
<1> HIDE DEF m1
<1>6. b \notin m1.used
  <2>1. Entries(m1, b) = {}
    BY <1>2, <1>5 DEF Entries
  <2>2. m1.refs[b] = 0
    BY <1>2, <1>5, <2>1, FS_EmptySet DEF Good, Counted
  <2>3. b \in m1.used <=> m1.refs[b] > 0
    BY <1>2, <1>5 DEF Good, Counted
  <2>4. QED BY <2>2, <2>3
<1>7. /\ Good(m2) /\ Running(m2) /\ PageDirs(m2) = {K}
      /\ \A v \in Pages \ {a, b} : m2.pd[K][v] = NoFrame
  <2>1. Adds(m1, K, b, b, m2)
    BY DEF Adds
  <2>2. Running(m2)
    BY <1>2, <1>5, <1>6, AddPageRuns
  <2> HIDE DEF m2
  <2>3. Good(m2) /\ Touches(m1, m2, K, b)
    BY <1>2, <1>5, <2>1, AddPageGood
  <2>4. QED BY <1>2, <1>5, <2>2, <2>3 DEF Touches
<1> HIDE DEF m2
<1>8. Sound(m2)
  <2>1. \A v \in KernelHeap : ~(m2.pd[K][v] # NoFrame) /\ ~(v < KERN_HEAP_BEGIN)
    <3>1. KernelHeap \subseteq Pages \ {a, b}
      BY <1>2 DEF Common
    <3>2. \A v \in KernelHeap : m2.pd[K][v] = NoFrame
      BY <1>7, <3>1
    <3>3. \A v \in KernelHeap : ~(v < KERN_HEAP_BEGIN)
      BY LayoutAssumption DEF KernelHeap, KERN_HEAP_BEGIN
    <3>4. QED BY <3>2, <3>3
  <2>2. KERN_HEAP_BEGIN \in KERN_HEAP_BEGIN..kHeapEnd
    BY LayoutAssumption DEF KERN_HEAP_BEGIN
  <2>3. Contiguous(m2)
    BY <2>1, <2>2 DEF Contiguous
  <2>4. QED BY <1>7, <2>3 DEF Sound, Running, Expected
<1>9. /\ Sound(k2) /\ PageDirs(k2) = {K}
      /\ \A v \in Pages \ Common : k2.pd[K][v] = NoFrame
  <2>1. k2 = ksbrk_page(m2)
    OBVIOUS
  <2> HIDE DEF k2
  <2>2. Sound(k2) /\ Outside(m2, k2)
    BY <1>8, <2>1, kmallocSound
  <2>3. \A v \in Pages \ Common : m2.pd[K][v] = NoFrame
    BY <1>2, <1>7
  <2>4. QED BY <1>7, <2>2, <2>3 DEF Outside
<1> HIDE DEF k2
<1>10. /\ Sound(m3) /\ PageDirs(m3) = {K}
       /\ \A v \in Pages \ Common : v # 0 => m3.pd[K][v] = NoFrame
       /\ Running(m3) => m3.pd[K][0] # NoFrame
  <2>1. Reuses(k2, K, 0, 0, m3)
    BY DEF Reuses
  <2> HIDE DEF m3
  <2>2. /\ Sound(m3) /\ Only(k2, m3, K, 0)
        /\ Running(k2) => Running(m3) /\ m3.pd[K][0] = 0
        /\ Running(m3) => Running(k2)
    BY <1>2, <1>9, <2>1, AddReusedSound
  <2>3. QED BY <1>2, <1>9, <2>2 DEF Only
<1> HIDE DEF m3
<1>11. /\ Sound(k3) /\ PageDirs(k3) = {K}
       /\ \A v \in Pages \ Common : v # 0 => k3.pd[K][v] = NoFrame
       /\ Running(k3) => k3.pd[K][0] # NoFrame
  <2>1. Sound(k3) /\ Outside(m3, k3) /\ (Running(k3) => Running(m3))
    BY <1>10, kmallocSound DEF kmalloc
  <2>2. QED BY <1>2, <1>10, <2>1 DEF Outside
<1> HIDE DEF k3
<1>12. /\ Sound(n) /\ Only(k3, n, K, 0)
       /\ Running(n) => n.pd[K][0] = NoFrame
  <2>1. /\ K \in PageDirs(k3) /\ 0 \in Pages /\ 0 \notin Common
        /\ n = RemovePage(k3, K, 0)
    BY <1>1, <1>2, <1>11
  <2>2. Sound(k3) /\ (Running(k3) => k3.pd[K][0] # NoFrame)
    BY <1>11
  <2>3. QED BY <2>1, <2>2, RemoveSound
<1>13. QED BY <1>2, <1>11, <1>12 DEF Only, Neat
=============================================================================
