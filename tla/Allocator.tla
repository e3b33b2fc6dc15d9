----------------------------- MODULE Allocator -----------------------------
(***************************************************************************)
(* The allocator behind kmalloc and umalloc (utils/allocator.cpp): a heap  *)
(* tiled by chunks, each a header and a payload, searched first fit from   *)
(* the bottom, and extended by sbrk at the top.                            *)
(*                                                                         *)
(* Each call is one step: kmalloc.cpp disables interrupts around every one *)
(* of them, and a user program has a single thread.  An operation is an    *)
(* operator from a heap to a heap; a failed assertion stops it for good.   *)
(***************************************************************************)
EXTENDS Integers, FiniteSets, FiniteSetsExt

CONSTANTS
  heap_start,
  heap_end,
  kPage,        \* sbrk extends by multiples of this many bytes
  Sizes,        \* the sizes programs ask for, in bytes
  Alignments    \* the alignments they ask for

HeaderSize == 4
kMaxAlignment == 4
NullPtr == -1

IsPowerOf2(n) == n \in {2^k : k \in 0..30}

ASSUME HeapAssumption ==
  /\ {heap_start, heap_end, kPage} \subseteq Nat
  /\ kPage > 0 /\ kPage % HeaderSize = 0 /\ heap_start % HeaderSize = 0
  /\ heap_start + kPage <= heap_end
  /\ Sizes \subseteq Nat
  /\ \A a \in Alignments : IsPowerOf2(a)

\* All that the proofs use of a power of two: it is one of the small ones, or a
\* multiple of kMaxAlignment.
ASSUME AlignmentAssumption ==
  \A a \in Alignments : a \in Nat \ {0} /\ (a < kMaxAlignment \/ a % kMaxAlignment = 0)

\* The chunk headers met walking up from the bottom, by address.  What the bytes
\* between them were when they were headers is not looked at again.
VARIABLES
  heap,   \* chunk: the headers; top: heap_; used: heap_used_; halt
  live    \* the blocks the program holds, with what it asked for

vars == <<heap, live>>

Running(h) == h.halt = "no"

Failed(h, assertion) ==
  [chunk |-> h.chunk, top |-> h.top, used |-> h.used, halt |-> assertion]

Chunks(h) == DOMAIN h.chunk

Header(size, used) == [size |-> size, used |-> used]

-----------------------------------------------------------------------------

RoundUp(n, to) == IF n % to = 0 THEN n ELSE n + (to - (n % to))

\* ksbrk and usbrk ask for whole pages, at least one.
Increase(bytes) == RoundUp(bytes, kPage)

\* Header and payload.
RealSize(size, alignment) == RoundUp(HeaderSize + size, alignment)

\* Mutant: the chunk is aligned, not its payload.
AdjustChunk(c, alignment) == (alignment - (c % alignment)) % alignment

\* How far the payload of a chunk at c is from an aligned address.
Adjust(c, alignment) == (alignment - ((c + HeaderSize) % alignment)) % alignment

CanUseChunk(c, header, realsize, alignment) ==
  /\ ~header.used
  /\ header.size >= realsize
  /\ Adjust(c, alignment) = 0 \/ header.size >= Adjust(c, alignment) + realsize

Usable(h, realsize, alignment) ==
  {c \in Chunks(h) : CanUseChunk(c, h.chunk[c], realsize, alignment)}

\* A new chunk at the top.  It is extended a second time when the first does not
\* leave room to align; twice always does.
Grow(h, realsize, alignment) ==
  LET inc  == Increase(realsize)
      size == IF CanUseChunk(h.top, Header(inc, FALSE), realsize, alignment)
              THEN inc ELSE 2 * inc
  IN  IF h.top + size > heap_end THEN Failed(h, "No memory left for kernel!")
      ELSE [chunk |-> [c \in Chunks(h) \cup {h.top} |->
                         IF c = h.top THEN Header(size, FALSE) ELSE h.chunk[c]],
            top |-> h.top + size, used |-> h.used, halt |-> h.halt]

\* Mutant: the left-over chunk's size forgets that the front was cut off.
TakeLong(h, c, realsize, alignment) ==
  LET adjust == Adjust(c, alignment)
      taken  == c + adjust
      size   == h.chunk[c].size
      split  == size - realsize >= HeaderSize
      next   == taken + realsize
      new    == {taken} \cup (IF split THEN {next} ELSE {})
  IN  [h EXCEPT
        !.chunk = [d \in Chunks(h) \cup new |->
                     IF d = taken THEN Header(IF split THEN realsize ELSE size, TRUE)
                     ELSE IF split /\ d = next THEN Header(size - realsize, FALSE)
                     ELSE IF d = c THEN Header(adjust, FALSE)
                     ELSE h.chunk[d]],
        !.used = @ + (IF split THEN realsize ELSE size)]

\* The free chunk c is taken: an unaligned front becomes a free chunk of its own,
\* and so does what is left over at the end, if a header fits.
Take(h, c, realsize, alignment) ==
  LET adjust == Adjust(c, alignment)
      taken  == c + adjust
      size   == h.chunk[c].size - adjust
      split  == size - realsize >= HeaderSize
      next   == taken + realsize
      new    == {taken} \cup (IF split THEN {next} ELSE {})
  IN  IF adjust # 0 /\ adjust < HeaderSize
        THEN Failed(h, "Cannot create a chunk less than sizeof(MallocHeader)")
      ELSE [
        chunk |-> [d \in Chunks(h) \cup new |->
                     IF d = taken THEN Header(IF split THEN realsize ELSE size, TRUE)
                     ELSE IF split /\ d = next THEN Header(size - realsize, FALSE)
                     ELSE IF d = c THEN Header(adjust, FALSE)
                     ELSE h.chunk[d]],
        top   |-> h.top,
        used  |-> h.used + (IF split THEN realsize ELSE size),
        halt  |-> h.halt]

\* Malloc: the heap afterwards and the pointer.
Malloc(h, size, asked) ==
  LET alignment == Max({asked, kMaxAlignment})
      realsize  == RealSize(size, alignment)
      found     == Usable(h, realsize, alignment)
      grown     == IF found = {} THEN Grow(h, realsize, alignment) ELSE h
      c         == IF found = {} THEN h.top ELSE Min(found)
  IN  IF ~Running(h) \/ size = 0 THEN [heap |-> h, ptr |-> NullPtr]
      ELSE IF \E d \in Chunks(h) : h.chunk[d].size = 0 /\ d < c
        THEN [heap |-> Failed(h, "Corrupted chunk"), ptr |-> NullPtr]
      ELSE IF ~Running(grown) THEN [heap |-> grown, ptr |-> NullPtr]
      ELSE [heap |-> Take(grown, c, realsize, alignment),
            ptr  |-> c + Adjust(c, alignment) + HeaderSize]

\* Where the run of free chunks after chunk c ends.
MergeEnd(h, c) ==
  Min({d \in Chunks(h) : d > c /\ h.chunk[d].used} \cup {h.top})

\* Free: the chunk and the free ones after it become one.
Free(h, ptr) ==
  LET c   == ptr - HeaderSize
      end == MergeEnd(h, c)
  IN  IF ~Running(h) \/ ptr = NullPtr THEN h
      ELSE IF h.used < h.chunk[c].size
        THEN Failed(h, "Attempting to free more memory than was recorded")
      ELSE [chunk |-> [d \in {d \in Chunks(h) : d <= c \/ d >= end} |->
                         IF d = c THEN Header(end - c, FALSE) ELSE h.chunk[d]],
            top |-> h.top, used |-> h.used - h.chunk[c].size, halt |-> h.halt]

SlowRealloc(h, ptr, size) ==
  LET new == Malloc(h, size, kMaxAlignment)
  IN  IF new.ptr = ptr
        THEN [heap |-> Failed(h, "Somehow returned the same pointer"), ptr |-> new.ptr]
      ELSE [heap |-> Free(new.heap, ptr), ptr |-> new.ptr]

\* Mutant: a block shortened in place stays charged in full.
ReallocUncredited(h, ptr, size) ==
  LET c        == ptr - HeaderSize
      old      == h.chunk[c].size
      realsize == RealSize(size, kMaxAlignment)
  IN  IF size = 0 THEN [heap |-> h, ptr |-> NullPtr]
      ELSE IF old = realsize THEN [heap |-> h, ptr |-> ptr]
      ELSE IF old > realsize + HeaderSize
        THEN [heap |-> [h EXCEPT
                !.chunk = [d \in Chunks(h) \cup {c + realsize} |->
                             IF d = c THEN Header(realsize, TRUE)
                             ELSE IF d = c + realsize THEN Header(old - realsize, FALSE)
                             ELSE h.chunk[d]]],
              ptr |-> ptr]
      ELSE SlowRealloc(h, ptr, size)

\* Realloc: in place when the size fits exactly or leaves room for a chunk.
Realloc(h, ptr, size) ==
  LET c        == ptr - HeaderSize
      old      == h.chunk[c].size
      realsize == RealSize(size, kMaxAlignment)
  IN  IF size = 0 THEN [heap |-> h, ptr |-> NullPtr]
      ELSE IF old = realsize THEN [heap |-> h, ptr |-> ptr]
      ELSE IF old > realsize + HeaderSize
        THEN [heap |-> [
                chunk |-> [d \in Chunks(h) \cup {c + realsize} |->
                             IF d = c THEN Header(realsize, TRUE)
                             ELSE IF d = c + realsize THEN Header(old - realsize, FALSE)
                             ELSE h.chunk[d]],
                top |-> h.top, used |-> h.used - (old - realsize), halt |-> h.halt],
              ptr |-> ptr]
      ELSE SlowRealloc(h, ptr, size)

-----------------------------------------------------------------------------

\* Init and InitializeHeap.
Init ==
  /\ heap = [chunk |-> [c \in {heap_start} |-> Header(Increase(1), FALSE)],
             top |-> heap_start + Increase(1), used |-> 0, halt |-> "no"]
  /\ live = [p \in {} |-> {}]

Block(size, alignment) == [size |-> size, align |-> Max({alignment, kMaxAlignment})]

\* The program gets result, for which it gives up the blocks of gone.
Hold(result, gone, block) ==
  /\ heap' = result.heap
  /\ live' = IF result.ptr = NullPtr \/ ~Running(result.heap) THEN live
             ELSE [p \in (DOMAIN live \ gone) \cup {result.ptr} |->
                     IF p = result.ptr THEN block ELSE live[p]]

malloc(size, alignment) ==
  Hold(Malloc(heap, size, alignment), {}, Block(size, alignment))

calloc(num, size) ==
  Hold(Malloc(heap, num * size, kMaxAlignment), {}, Block(num * size, kMaxAlignment))

realloc(ptr, size) ==
  Hold(Realloc(heap, ptr, size), {ptr}, Block(size, kMaxAlignment))

free(ptr) ==
  /\ heap' = Free(heap, ptr)
  /\ live' = [p \in DOMAIN live \ {ptr} |-> live[p]]

Stopped == ~Running(heap) /\ UNCHANGED vars

Next ==
  \/ /\ Running(heap)
     /\ \/ \E size \in Sizes, alignment \in Alignments : malloc(size, alignment)
        \/ \E num \in {2}, size \in Sizes : calloc(num, size)
        \/ \E ptr \in DOMAIN live : free(ptr) \/ \E size \in Sizes : realloc(ptr, size)
        \/ free(NullPtr)
  \/ Stopped

Spec == Init /\ [][Next]_vars

-----------------------------------------------------------------------------
(* Properties *)

\* Through every mix of splits and forward merges the headers tile the heap: the
\* walk from the bottom by sizes meets exactly the chunks, each with room for its
\* header, and ends exactly at the top.  The chunks in use are exactly the headers
\* of the blocks the program holds, each with room for what was asked.
ChunksExact ==
  /\ heap_start \in Chunks(heap)
  /\ \A c \in Chunks(heap) :
       LET next == c + heap.chunk[c].size IN
       /\ heap.chunk[c].size >= HeaderSize
       /\ next \in Chunks(heap) \cup {heap.top}
       /\ \A d \in Chunks(heap) : d > c => d >= next
  /\ {c \in Chunks(heap) : heap.chunk[c].used} = {p - HeaderSize : p \in DOMAIN live}
  /\ \A p \in DOMAIN live :
       heap.chunk[p - HeaderSize].size >= live[p].size + HeaderSize

\* heap_used_, which the kernel asserts to be 0 at its end ("Kernel heap was not
\* cleared!"), is what the chunks in use add up to: 0 exactly when everything was
\* freed.  So the assertions on it never fail; the allocator stops only when
\* memory ran out.
Accounting ==
  /\ heap.used = MapThenSumSet(LAMBDA c : heap.chunk[c].size,
                               {c \in Chunks(heap) : heap.chunk[c].used})
  /\ heap.halt \in {"no", "No memory left for kernel!"}

Blocks == INSTANCE Heap

\* The allocator keeps its promise: what it hands out is aligned, inside the heap
\* and apart from every block still held, also after a realloc.
ImplementsHeap == Blocks!Spec
=============================================================================
