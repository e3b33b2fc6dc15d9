-------------------------------- MODULE Heap --------------------------------
(***************************************************************************)
(* What the allocator promises its callers (utils/include/allocator.h): a  *)
(* block handed out is aligned as asked, lies in the heap, and overlaps no *)
(* block that is still held; nothing but its own free or realloc ends it.  *)
(***************************************************************************)
EXTENDS Integers

CONSTANTS heap_start, heap_end

VARIABLE live   \* the blocks held: for each pointer its size and alignment

\* Blocks of n bytes at p and of m bytes at q have no byte in common.
Apart(p, n, q, m) == p + n <= q \/ q + m <= p

\* A block of size n at p is one the caller of an allocation can be given while
\* it holds the blocks of held.
Fresh(p, b, held) ==
  /\ p >= heap_start /\ p + b.size <= heap_end
  /\ p % b.align = 0
  /\ \A q \in DOMAIN held : Apart(p, b.size, q, held[q].size)

Without(p) == [q \in DOMAIN live \ {p} |-> live[q]]

With(held, p, b) == [q \in DOMAIN held \cup {p} |-> IF q = p THEN b ELSE held[q]]

Init == live = [p \in {} |-> {}]

Allocate(p, b) == Fresh(p, b, live) /\ live' = With(live, p, b)

Release(p) == live' = Without(p)

\* The block at p becomes one at q, which overlaps no other.
Resize(p, q, b) == Fresh(q, b, Without(p)) /\ live' = With(Without(p), q, b)

Next ==
  \/ \E p \in DOMAIN live' : Allocate(p, live'[p])
  \/ \E p \in DOMAIN live :
       \/ Release(p)
       \/ \E q \in DOMAIN live' : Resize(p, q, live'[q])

Spec == Init /\ [][Next]_live
=============================================================================
