--------------------------- MODULE AllocatorProofs ---------------------------
(***************************************************************************)
(* For any heap, page size, request sizes and alignments: until an         *)
(* assertion fails the chunks tile the heap and those in use are the       *)
(* blocks held, and the allocator keeps the promise of Heap.               *)
(***************************************************************************)
EXTENDS Allocator, WellFoundedInduction, TLAPS

-----------------------------------------------------------------------------
(* Arithmetic *)

\* What is left over by a division.
LEMMA ModLemma ==
  ASSUME NEW n \in Nat, NEW a \in Nat \ {0}
  PROVE  /\ n % a \in 0..(a - 1)
         /\ n % a <= n
         /\ \E k \in Nat : n = a * k + (n % a)
<1>1. n % a \in 0..(a - 1)
  OBVIOUS
<1>2. n = a * (n \div a) + (n % a) /\ n \div a \in Nat
  OBVIOUS
<1>3. n % a <= n
  <2>1. CASE n < a
    BY <2>1
  <2>2. CASE n >= a
    BY <2>2, <1>1
  <2>3. QED BY <2>1, <2>2
<1>4. QED BY <1>1, <1>2, <1>3, Zenon

\* A multiple leaves nothing.
LEMMA MultipleLemma ==
  ASSUME NEW k \in Nat, NEW a \in Nat \ {0}
  PROVE  (a * k) % a = 0
  OBVIOUS

\* A multiple of a multiple is a multiple.
LEMMA MultiplesLemma ==
  ASSUME NEW n \in Nat, NEW a \in Nat \ {0}, NEW b \in Nat \ {0},
         n % a = 0, a % b = 0
  PROVE  n % b = 0
<1>1. PICK k \in Nat : n = a * k + (n % a)
  BY ModLemma
<1>2. PICK j \in Nat : a = b * j + (a % b)
  BY ModLemma
<1>3. n = a * k /\ a = b * j
  BY <1>1, <1>2
<1>4. n = b * (j * k) /\ j * k \in Nat
  BY <1>3
<1>5. QED BY <1>4, MultipleLemma

\* RoundUp gives at least what it is given, and at least one whole unit.
LEMMA RoundUpLemma ==
  ASSUME NEW n \in Nat \ {0}, NEW a \in Nat \ {0}
  PROVE  RoundUp(n, a) \in Nat /\ RoundUp(n, a) >= n /\ RoundUp(n, a) >= a
<1>1. n % a \in 0..(a - 1) /\ n % a <= n
  BY ModLemma
<1>2. n < a => n % a = n
  OBVIOUS
<1>3. QED BY <1>1, <1>2 DEF RoundUp

\* The adjustment of a chunk is less than the alignment, and aligns the payload.
LEMMA AdjustLemma ==
  ASSUME NEW c \in Nat, NEW a \in Nat \ {0}
  PROVE  /\ Adjust(c, a) \in 0..(a - 1)
         /\ (c + Adjust(c, a) + HeaderSize) % a = 0
<1> DEFINE n == c + HeaderSize
<1>1. n \in Nat
  BY DEF HeaderSize
<1>2. PICK k \in Nat : n = a * k + (n % a)
  BY <1>1, ModLemma
<1>3. n % a \in 0..(a - 1) /\ Adjust(c, a) = (a - (n % a)) % a
  BY <1>1, ModLemma DEF Adjust
<1>4. CASE n % a = 0
  <2>1. Adjust(c, a) = a % a /\ a % a = 0
    BY <1>3, <1>4
  <2>2. c + Adjust(c, a) + HeaderSize = n
    BY <2>1 DEF HeaderSize
  <2>3. QED BY <2>1, <2>2, <1>4
<1>5. CASE n % a # 0
  <2>1. a - (n % a) \in 1..(a - 1)
    BY <1>3, <1>5
  <2>2. Adjust(c, a) = a - (n % a)
    BY <2>1, <1>3
  <2>3. c + Adjust(c, a) + HeaderSize = n + (a - (n % a))
    BY <2>1, <2>2, <1>1 DEF HeaderSize
  <2>4. n + (a - (n % a)) = a * k + a
    BY <1>2, <1>3
  <2>5. a * k + a = a * (k + 1)
    OBVIOUS
  <2>6. (a * (k + 1)) % a = 0
    BY MultipleLemma
  <2>7. QED BY <2>1, <2>2, <2>3, <2>4, <2>5, <2>6
<1>6. QED BY <1>4, <1>5

\* A search from the bottom finds the lowest.
LEMMA MinLemma ==
  ASSUME NEW S, S \subseteq Nat, S # {}
  PROVE  Min(S) \in S /\ \A y \in S : Min(S) <= y
<1>1. PICK x \in S : \A y \in S : ~(<<y, x>> \in OpToRel(<, Nat))
  BY NatLessThanWellFounded, WFMin
<1>2. \A y \in S : x <= y
  <2>1. \A y \in S : ~(y < x)
    BY <1>1, Zenon DEF OpToRel
  <2>2. QED BY <2>1
<1>3. QED BY <1>2 DEF Min

\* The alignment Malloc works with.
LEMMA AlignmentLemma ==
  ASSUME NEW asked \in Alignments \cup {kMaxAlignment}
  PROVE  /\ Max({asked, kMaxAlignment}) \in Nat \ {0}
         /\ Max({asked, kMaxAlignment}) % kMaxAlignment = 0
<1>1. /\ asked \in Nat \ {0}
      /\ asked < kMaxAlignment \/ asked % kMaxAlignment = 0
  BY AlignmentAssumption DEF kMaxAlignment
<1>2. Max({asked, kMaxAlignment}) = IF asked < kMaxAlignment THEN kMaxAlignment ELSE asked
  BY <1>1 DEF Max, kMaxAlignment
<1>3. QED BY <1>1, <1>2 DEF kMaxAlignment

-----------------------------------------------------------------------------
(* The tiling *)

\* The address after chunk c.
After(h, c) == c + h.chunk[c].size

\* Walking up from the bottom by sizes meets the chunks and ends at the top.
Tiled(h) ==
  /\ Chunks(h) \subseteq Nat /\ h.top \in Nat /\ h.top <= heap_end
  /\ heap_start \in Chunks(h)
  /\ \A c \in Chunks(h) :
       /\ h.chunk[c].size \in Nat /\ h.chunk[c].size >= HeaderSize
       /\ heap_start <= c /\ c < h.top
       /\ After(h, c) \in Chunks(h) \cup {h.top}
       /\ \A d \in Chunks(h) : d > c => d >= After(h, c)

Used(h) == {c \in Chunks(h) : h.chunk[c].used}

\* No chunk reaches beyond the top.
LEMMA AfterLemma ==
  ASSUME NEW h, Tiled(h), NEW c \in Chunks(h)
  PROVE  After(h, c) \in Nat /\ c < After(h, c) /\ After(h, c) <= h.top
<1>1. c \in Nat /\ h.chunk[c].size \in Nat /\ h.chunk[c].size >= 4
  BY DEF Tiled, HeaderSize
<1>2. After(h, c) \in Nat /\ c < After(h, c)
  BY <1>1 DEF After
<1>3. After(h, c) <= h.top
  BY DEF Tiled
<1>4. QED BY <1>2, <1>3

\* The chunks of A lie end to end from the start of chunk c of h to its end.
Pieces(h, n, c, A) ==
  /\ A \subseteq Nat /\ c \in A
  /\ \A a \in A :
       /\ n.chunk[a].size \in Nat /\ n.chunk[a].size >= HeaderSize
       /\ c <= a /\ a < After(h, c)
       /\ After(n, a) \in A \cup {After(h, c)}
       /\ \A b \in A : b > a => b >= After(n, a)

\* A chunk cut into pieces leaves the heap tiled.
LEMMA CutTiled ==
  ASSUME NEW h, Tiled(h), NEW c \in Chunks(h), NEW n, NEW A, Pieces(h, n, c, A),
         n.top = h.top, Chunks(n) = Chunks(h) \cup A,
         \A d \in Chunks(h) \ {c} : n.chunk[d] = h.chunk[d]
  PROVE  Tiled(n)
<1>0. /\ h.top \in Nat /\ After(h, c) \in Nat /\ After(h, c) <= h.top
      /\ c < After(h, c) /\ c \in Nat /\ heap_start <= c
      /\ After(h, c) \in Chunks(h) \cup {h.top}
  BY AfterLemma DEF Tiled
<1>1. ASSUME NEW d \in Chunks(h) \ {c}
      PROVE  /\ d \in Nat /\ After(n, d) = After(h, d) /\ n.chunk[d].size \in Nat
             /\ n.chunk[d].size >= HeaderSize /\ heap_start <= d /\ d < n.top
             /\ After(n, d) \in Chunks(n) \cup {n.top}
             /\ \A e \in Chunks(n) : e > d => e >= After(n, d)
  <2>1. /\ d \in Nat /\ After(n, d) = After(h, d) /\ n.chunk[d].size \in Nat
        /\ n.chunk[d].size >= HeaderSize /\ heap_start <= d /\ d < n.top
        /\ After(n, d) \in Chunks(n) \cup {n.top}
    BY DEF Tiled, After
  <2>2. ASSUME NEW e \in Chunks(n), e > d PROVE e >= After(n, d)
    <3>1. CASE e \in Chunks(h)
      BY <3>1, <2>1, <2>2 DEF Tiled
    <3>2. CASE e \in A
      <4>1. e \in Nat /\ c <= e /\ e < After(h, c)
        BY <3>2 DEF Pieces
      <4>2. d > c => d >= After(h, c)
        BY DEF Tiled
      <4>3. d < c
        BY <4>1, <4>2, <2>1, <2>2, <1>0
      <4>4. c >= After(h, d) /\ After(h, d) \in Nat
        BY <4>3, AfterLemma DEF Tiled
      <4>5. QED BY <4>1, <4>4, <2>1, <1>0
    <3>3. QED BY <3>1, <3>2
  <2>3. QED BY <2>1, <2>2
<1>2. ASSUME NEW d \in A
      PROVE  /\ d \in Nat /\ n.chunk[d].size \in Nat
             /\ n.chunk[d].size >= HeaderSize /\ heap_start <= d /\ d < n.top
             /\ After(n, d) \in Chunks(n) \cup {n.top}
             /\ \A e \in Chunks(n) : e > d => e >= After(n, d)
  <2>1. /\ d \in Nat /\ n.chunk[d].size \in Nat
        /\ n.chunk[d].size >= HeaderSize /\ c <= d /\ d < After(h, c)
        /\ After(n, d) \in A \cup {After(h, c)}
    BY DEF Pieces
  <2>2. After(n, d) \in Nat /\ After(n, d) <= After(h, c)
    <3>1. \A a \in A : a \in Nat /\ a < After(h, c)
      BY DEF Pieces
    <3>2. CASE After(n, d) \in A
      BY <3>1, <3>2, <1>0
    <3>3. CASE After(n, d) = After(h, c)
      BY <3>3, <1>0
    <3>4. QED BY <2>1, <3>2, <3>3
  <2>3. heap_start <= d /\ d < n.top
    BY <2>1, <1>0, HeapAssumption
  <2>4. After(n, d) \in Chunks(n) \cup {n.top}
    BY <2>1, <1>0
  <2>5. ASSUME NEW e \in Chunks(n), e > d PROVE e >= After(n, d)
    <3>1. CASE e \in A
      BY <3>1, <2>5 DEF Pieces
    <3>2. CASE e \in Chunks(h) /\ e \notin A
      <4>1. e \in Nat /\ e > c
        BY <3>2, <2>1, <2>5, <1>0 DEF Tiled
      <4>2. e >= After(h, c)
        BY <3>2, <4>1 DEF Tiled
      <4>3. QED BY <4>1, <4>2, <2>2, <1>0
    <3>3. QED BY <3>1, <3>2
  <2>6. QED BY <2>1, <2>3, <2>4, <2>5
<1>3. /\ Chunks(n) \subseteq Nat /\ heap_start \in Chunks(n)
      /\ n.top \in Nat /\ n.top <= heap_end
  BY <1>1, <1>2 DEF Tiled
<1>4. \A d \in Chunks(n) : d \in Chunks(h) \ {c} \/ d \in A
  BY DEF Pieces
<1>5. QED BY <1>1, <1>2, <1>3, <1>4 DEF Tiled

-----------------------------------------------------------------------------
(* The operations *)

\* From h to n the chunks of gone are given up and those of new are taken; the
\* others in use stay as they are.
Changed(h, n, gone, new) ==
  /\ Tiled(n)
  /\ Used(n) = (Used(h) \ gone) \cup new
  /\ new \cap (Used(h) \ gone) = {}
  /\ \A c \in Used(h) \ (gone \cup new) : n.chunk[c] = h.chunk[c]

\* A failed assertion stops the machine.
LEMMA FailedLemma ==
  ASSUME NEW h, NEW assertion, assertion # "no"
  PROVE  ~Running(Failed(h, assertion))
  BY DEF Failed, Running

\* Grow leaves a free chunk at the old top, with room to align.
LEMMA GrowLemma ==
  ASSUME NEW h, Tiled(h), NEW realsize \in Nat, realsize >= HeaderSize,
         NEW a \in Nat \ {0}, realsize >= a,
         NEW n, n = Grow(h, realsize, a), Running(n), Running(h)
  PROVE  /\ Changed(h, n, {}, {})
         /\ h.top \in Chunks(n) \ Used(n)
         /\ n.chunk[h.top].size >= Adjust(h.top, a) + realsize
<1> DEFINE inc == Increase(realsize)
           size == IF CanUseChunk(h.top, Header(inc, FALSE), realsize, a)
                   THEN inc ELSE 2 * inc
           t == h.top
<1>1. t \in Nat /\ inc \in Nat /\ inc >= realsize /\ HeaderSize = 4
  BY HeapAssumption, RoundUpLemma DEF Tiled, Increase, HeaderSize
<1>2. Adjust(t, a) \in 0..(a - 1)
  BY <1>1, AdjustLemma
<1> HIDE DEF inc
<1>3. size \in Nat /\ size >= Adjust(t, a) + realsize /\ size >= 4
  <2>1. CASE CanUseChunk(t, Header(inc, FALSE), realsize, a)
    BY <2>1, <1>1, <1>2 DEF CanUseChunk, Header
  <2>2. CASE ~CanUseChunk(t, Header(inc, FALSE), realsize, a)
    BY <2>2, <1>1, <1>2
  <2>3. QED BY <2>1, <2>2
<1>4. /\ t + size <= heap_end
      /\ n = [chunk |-> [c \in Chunks(h) \cup {t} |->
                           IF c = t THEN Header(size, FALSE) ELSE h.chunk[c]],
              top |-> t + size, used |-> h.used, halt |-> h.halt]
  <2>1. ~(t + size > heap_end)
    <3>1. SUFFICES ASSUME t + size > heap_end PROVE FALSE
      OBVIOUS
    <3>2. n = Failed(h, "No memory left for kernel!")
      BY <3>1 DEF Grow, inc
    <3>3. QED BY <3>2, FailedLemma
  <2> HIDE DEF size
  <2>2. t + size <= heap_end
    BY <2>1, <1>1, <1>3, HeapAssumption
  <2>3. QED BY <2>1, <2>2 DEF Grow, inc, size
<1> HIDE DEF size
<1>5. t \notin Chunks(h)
  BY DEF Tiled
<1>6. /\ Chunks(n) = Chunks(h) \cup {t} /\ n.top = t + size
      /\ n.chunk[t] = Header(size, FALSE)
      /\ \A c \in Chunks(h) : n.chunk[c] = h.chunk[c]
  <2>1. /\ n.chunk = [c \in Chunks(h) \cup {t} |->
                        IF c = t THEN Header(size, FALSE) ELSE h.chunk[c]]
        /\ n.top = t + size
    BY <1>4
  <2>2. Chunks(n) = Chunks(h) \cup {t}
    BY <2>1 DEF Chunks
  <2>3. QED BY <2>1, <2>2, <1>5
<1>7. n.chunk[t].size = size /\ n.chunk[t].used = FALSE /\ After(n, t) = n.top
  BY <1>6 DEF Header, After
<1>8. ASSUME NEW c \in Chunks(h)
      PROVE  /\ After(n, c) = After(h, c) /\ After(h, c) \in Nat /\ c \in Nat
             /\ After(h, c) <= t /\ After(h, c) \in Chunks(h) \cup {t}
             /\ h.chunk[c].size \in Nat /\ h.chunk[c].size >= 4
             /\ heap_start <= c /\ c < t
  BY <1>1, <1>6, AfterLemma DEF Tiled, After
<1>9. Tiled(n)
  <2>1. /\ Chunks(n) \subseteq Nat /\ n.top \in Nat /\ n.top <= heap_end
        /\ heap_start \in Chunks(n) /\ heap_start <= t /\ t < n.top
    <3>1. heap_start \in Chunks(h)
      BY DEF Tiled
    <3>2. t < t + size /\ t + size \in Nat /\ heap_start \in Nat
      BY <1>1, <1>3, HeapAssumption
    <3>3. Chunks(n) \subseteq Nat /\ heap_start \in Chunks(n)
      BY <3>1, <1>1, <1>6, <1>8
    <3>4. heap_start <= t
      BY <3>1, <3>2, <1>1, <1>8
    <3>5. QED BY <3>2, <3>3, <3>4, <1>4, <1>6
  <2>2. ASSUME NEW c \in Chunks(h)
        PROVE  /\ n.chunk[c].size \in Nat /\ n.chunk[c].size >= HeaderSize
               /\ heap_start <= c /\ c < n.top
               /\ After(n, c) \in Chunks(n) \cup {n.top}
               /\ \A d \in Chunks(n) : d > c => d >= After(n, c)
    <3>1. \A d \in Chunks(h) : d > c => d >= After(n, c)
      BY <1>8 DEF Tiled
    <3>2. QED BY <1>1, <1>3, <1>6, <1>8, <2>1, <3>1
  <2>3. /\ n.chunk[t].size \in Nat /\ n.chunk[t].size >= HeaderSize
        /\ After(n, t) \in Chunks(n) \cup {n.top}
        /\ \A d \in Chunks(n) : d > t => d >= After(n, t)
    <3>1. \A d \in Chunks(n) : ~(d > t)
      BY <1>1, <1>6, <1>8
    <3>2. QED BY <3>1, <1>1, <1>3, <1>7
  <2>4. \A c \in Chunks(n) : c \in Chunks(h) \/ c = t
    BY <1>6
  <2>5. QED BY <2>1, <2>2, <2>3, <2>4 DEF Tiled
<1>10. Used(n) = Used(h)
  BY <1>5, <1>6, <1>7 DEF Used
<1>11. t \in Chunks(n) \ Used(n)
  BY <1>6, <1>7 DEF Used
<1>12. QED BY <1>3, <1>6, <1>7, <1>9, <1>10, <1>11 DEF Changed, Used

\* Taking a free chunk cuts it into at most three pieces, of which the aligned one
\* is in use.
LEMMA TakeLemma ==
  ASSUME NEW h, Tiled(h), Running(h), NEW c \in Chunks(h) \ Used(h),
         NEW realsize \in Nat, realsize >= HeaderSize, NEW a \in Nat \ {0},
         h.chunk[c].size >= Adjust(c, a) + realsize,
         NEW n, n = Take(h, c, realsize, a), Running(n)
  PROVE  /\ Changed(h, n, {}, {c + Adjust(c, a)})
         /\ n.chunk[c + Adjust(c, a)].size >= realsize
<1> DEFINE adjust == Adjust(c, a)
           taken == c + adjust
           size == h.chunk[c].size - adjust
           next == taken + realsize
           split == size - realsize >= HeaderSize
           tsize == IF split THEN realsize ELSE size
           A == {c, taken} \cup (IF split THEN {next} ELSE {})
<1>1. /\ c \in Nat /\ h.chunk[c].size \in Nat /\ adjust \in Nat /\ HeaderSize = 4
  <2>1. c \in Nat /\ h.chunk[c].size \in Nat
    BY DEF Tiled
  <2>2. adjust \in Nat
    BY <2>1, AdjustLemma
  <2>3. QED BY <2>1, <2>2 DEF HeaderSize
<1>2. ~(adjust # 0 /\ adjust < HeaderSize)
  <2>1. SUFFICES ASSUME adjust # 0 /\ adjust < HeaderSize PROVE FALSE
    OBVIOUS
  <2>2. n = Failed(h, "Cannot create a chunk less than sizeof(MallocHeader)")
    BY <2>1 DEF Take
  <2>3. QED BY <2>2, FailedLemma
<1>3. /\ n.chunk = [d \in Chunks(h) \cup ({taken} \cup (IF split THEN {next} ELSE {})) |->
                      IF d = taken THEN Header(tsize, TRUE)
                      ELSE IF split /\ d = next THEN Header(size - realsize, FALSE)
                      ELSE IF d = c THEN Header(adjust, FALSE)
                      ELSE h.chunk[d]]
      /\ n.top = h.top /\ n.halt = h.halt
  BY <1>2 DEF Take
<1> HIDE DEF adjust
<1>4. /\ taken \in Nat /\ size \in Nat /\ next \in Nat /\ size >= realsize
      /\ taken + size = After(h, c) /\ c <= taken /\ taken < next
      /\ c < taken <=> adjust # 0
  BY <1>1 DEF After, adjust
<1>5. /\ tsize \in Nat /\ tsize >= realsize /\ tsize >= 4
      /\ taken + tsize = IF split THEN next ELSE After(h, c)
  BY <1>1, <1>4
<1>6. split => next + (size - realsize) = After(h, c) /\ next < After(h, c)
  BY <1>1, <1>4
<1>7. Chunks(n) = Chunks(h) \cup A /\ n.top = h.top /\ n.halt = h.halt
  BY <1>3 DEF Chunks
<1>8. taken \in A /\ c \in A /\ (next \in A <=> split)
  BY <1>1, <1>4
<1>9. n.chunk[taken] = Header(tsize, TRUE)
  BY <1>3 DEF Chunks
<1>10. ASSUME split PROVE n.chunk[next] = Header(size - realsize, FALSE)
  <2>1. next # taken /\ next \in {taken} \cup (IF split THEN {next} ELSE {})
    BY <1>4, <1>10
  <2>2. QED BY <1>3, <1>10, <2>1
<1>11. ASSUME c # taken PROVE n.chunk[c] = Header(adjust, FALSE)
  <2>1. c # next /\ c \in Chunks(h)
    BY <1>1, <1>4
  <2>2. QED BY <1>3, <1>11, <2>1
<1>12. ASSUME NEW d \in Chunks(h) \ {c}
       PROVE  d \notin A /\ n.chunk[d] = h.chunk[d]
  <2>1. d \in Nat /\ (d < c \/ d >= After(h, c))
    BY <1>1 DEF Tiled
  <2>2. After(h, c) \in Nat /\ taken < After(h, c) /\ (split => next < After(h, c))
    BY <1>1, <1>4, <1>6
  <2>3. d # taken /\ ~(split /\ d = next)
    BY <2>1, <2>2, <1>1, <1>4
  <2>4. QED BY <2>3, <1>3 DEF Chunks
<1>13. /\ n.chunk[taken].size = tsize /\ n.chunk[taken].used
       /\ split => n.chunk[next].size = size - realsize /\ ~n.chunk[next].used
       /\ c # taken => n.chunk[c].size = adjust /\ ~n.chunk[c].used
  BY <1>9, <1>10, <1>11 DEF Header
<1> HIDE DEF tsize, size, taken, next
<1>14. /\ After(n, taken) = IF split THEN next ELSE After(h, c)
       /\ split => After(n, next) = After(h, c)
       /\ c # taken => After(n, c) = taken
  BY <1>5, <1>6, <1>13 DEF After, taken
<1> HIDE DEF split
<1>15. Pieces(h, n, c, A)
  <2>1. A \subseteq Nat /\ \A x \in A : x = c \/ x = taken \/ (split /\ x = next)
    BY <1>1, <1>4
  <2>2. After(h, c) \in Nat
    BY <1>4, <1>1
  <2>3. /\ n.chunk[taken].size \in Nat /\ n.chunk[taken].size >= HeaderSize
        /\ c <= taken /\ taken < After(h, c)
        /\ After(n, taken) \in A \cup {After(h, c)}
        /\ \A b \in A : b > taken => b >= After(n, taken)
    <3>1. taken < After(h, c)
      BY <1>1, <1>4, <2>2
    <3>2. \A b \in A : b > taken => split /\ b = next
      BY <1>1, <1>4
    <3>3. QED BY <3>1, <3>2, <1>1, <1>4, <1>5, <1>8, <1>13, <1>14
  <2>4. ASSUME split
        PROVE  /\ n.chunk[next].size \in Nat /\ n.chunk[next].size >= HeaderSize
               /\ c <= next /\ next < After(h, c)
               /\ After(n, next) \in A \cup {After(h, c)}
               /\ \A b \in A : b > next => b >= After(n, next)
    <3>1. \A b \in A : ~(b > next)
      BY <1>1, <1>4
    <3>2. QED BY <3>1, <2>4, <1>1, <1>4, <1>6, <1>13, <1>14 DEF split
  <2>5. ASSUME c # taken
        PROVE  /\ n.chunk[c].size \in Nat /\ n.chunk[c].size >= HeaderSize
               /\ c <= c /\ c < After(h, c)
               /\ After(n, c) \in A \cup {After(h, c)}
               /\ \A b \in A : b > c => b >= After(n, c)
    <3>1. \A b \in A : b > c => b >= taken
      BY <1>1, <1>4
    <3>2. c < taken /\ taken < After(h, c) /\ adjust >= 4
      BY <2>3, <2>5, <1>1, <1>2, <1>4 DEF adjust
    <3>3. QED BY <3>1, <3>2, <2>2, <2>5, <1>1, <1>4, <1>8, <1>13, <1>14
  <2>6. QED BY <2>1, <2>3, <2>4, <2>5, <1>8 DEF Pieces
<1>16. Tiled(n)
  BY <1>7, <1>12, <1>15, CutTiled
<1>17. Used(n) = Used(h) \cup {taken}
  <2>1. ASSUME NEW d \in Chunks(n) PROVE d \in Used(n) <=> d \in Used(h) \/ d = taken
    <3>1. CASE d \in Chunks(h) \ {c}
      BY <3>1, <1>7, <1>8, <1>12 DEF Used
    <3>2. CASE d = taken
      BY <3>2, <1>7, <1>8, <1>13 DEF Used
    <3>3. CASE d = c /\ d # taken
      BY <3>3, <1>13 DEF Used
    <3>4. CASE split /\ d = next /\ d \notin Chunks(h)
      BY <3>4, <1>4, <1>13 DEF Used
    <3>5. QED BY <3>1, <3>2, <3>3, <3>4, <1>7
  <2>2. taken \in Used(n)
    BY <1>7, <1>8, <1>13 DEF Used
  <2>3. QED BY <2>1, <2>2, <1>7 DEF Used
<1>18. taken \notin Used(h)
  BY <1>8, <1>12 DEF Used
<1>19. \A d \in Used(h) : n.chunk[d] = h.chunk[d]
  BY <1>12 DEF Used
<1>20. QED BY <1>5, <1>13, <1>16, <1>17, <1>18, <1>19 DEF Changed, taken, adjust

\* A request that succeeds takes one chunk that was not in use, with room for what
\* was asked, and hands out its payload, aligned.
LEMMA MallocLemma ==
  ASSUME NEW h, Tiled(h), Running(h), NEW size \in Nat,
         NEW asked \in Alignments \cup {kMaxAlignment},
         NEW r, r = Malloc(h, size, asked), Running(r.heap), r.ptr # NullPtr
  PROVE  /\ r.ptr \in Nat /\ r.ptr - HeaderSize \in Nat
         /\ Changed(h, r.heap, {}, {r.ptr - HeaderSize})
         /\ r.heap.chunk[r.ptr - HeaderSize].size >= size + HeaderSize
         /\ r.ptr % Max({asked, kMaxAlignment}) = 0
<1> DEFINE a == Max({asked, kMaxAlignment})
           realsize == RealSize(size, a)
           found == Usable(h, realsize, a)
           grown == IF found = {} THEN Grow(h, realsize, a) ELSE h
           c == IF found = {} THEN h.top ELSE Min(found)
<1>1. /\ Running(grown)
      /\ r.heap = Take(grown, c, realsize, a)
      /\ r.ptr = c + Adjust(c, a) + HeaderSize
  <2>1. ~(~Running(h) \/ size = 0)
    BY DEF Malloc
  <2>2. ~\E d \in Chunks(h) : h.chunk[d].size = 0 /\ d < c
    BY <2>1 DEF Malloc
  <2>3. Running(grown)
    BY <2>1, <2>2 DEF Malloc
  <2>4. r = [heap |-> Take(grown, c, realsize, a),
             ptr  |-> c + Adjust(c, a) + HeaderSize]
    BY <2>1, <2>2, <2>3 DEF Malloc
  <2>5. QED BY <2>3, <2>4
<1>2. a \in Nat \ {0}
  BY AlignmentLemma
<1> HIDE DEF a
<1>3. /\ realsize \in Nat /\ realsize >= size + HeaderSize /\ realsize >= HeaderSize
      /\ realsize >= a
  <2>1. HeaderSize + size \in Nat \ {0}
    BY DEF HeaderSize
  <2>2. RoundUp(HeaderSize + size, a) \in Nat /\ RoundUp(HeaderSize + size, a) >= HeaderSize + size
        /\ RoundUp(HeaderSize + size, a) >= a
    BY <1>2, <2>1, RoundUpLemma
  <2>3. QED BY <2>1, <2>2 DEF RealSize, HeaderSize
<1> HIDE DEF realsize
<1>4. /\ Changed(h, grown, {}, {}) /\ c \in Chunks(grown) \ Used(grown)
      /\ grown.chunk[c].size >= Adjust(c, a) + realsize
  <2>1. CASE found = {}
    <3>1. grown = Grow(h, realsize, a) /\ c = h.top
      BY <2>1
    <3> HIDE DEF grown, c, found
    <3>2. QED BY <3>1, <1>1, <1>2, <1>3, GrowLemma
  <2>2. CASE found # {}
    <3>1. found \subseteq Nat /\ grown = h /\ c = Min(found)
      BY <2>2 DEF Usable, Tiled
    <3>2. c \in found
      BY <3>1, <2>2, MinLemma
    <3> HIDE DEF grown
    <3>3. /\ c \in Chunks(h) /\ CanUseChunk(c, h.chunk[c], realsize, a)
      BY <3>2 DEF Usable
    <3> HIDE DEF c, found
    <3>4. c \in Nat /\ h.chunk[c].size \in Nat
      BY <3>3 DEF Tiled
    <3>5. h.chunk[c].size >= Adjust(c, a) + realsize
      <4>1. Adjust(c, a) \in Nat
        BY <3>4, <1>2, AdjustLemma
      <4>2. /\ h.chunk[c].size >= realsize
            /\ Adjust(c, a) = 0 \/ h.chunk[c].size >= Adjust(c, a) + realsize
        BY <3>3 DEF CanUseChunk
      <4>3. QED BY <4>1, <4>2, <1>3
    <3>6. c \notin Used(h)
      BY <3>3 DEF CanUseChunk, Used
    <3>7. Changed(h, h, {}, {})
      BY DEF Changed
    <3>8. QED BY <3>1, <3>3, <3>5, <3>6, <3>7
  <2>3. QED BY <2>1, <2>2
<1> HIDE DEF grown, c
<1>5. Tiled(grown) /\ Used(grown) = Used(h) /\ \A d \in Used(h) : grown.chunk[d] = h.chunk[d]
  BY <1>4 DEF Changed
<1>6. c \in Nat /\ Adjust(c, a) \in Nat
  <2>1. c \in Nat
    BY <1>4, <1>5 DEF Tiled
  <2>2. QED BY <2>1, <1>2, AdjustLemma
<1>7. /\ r.ptr \in Nat /\ r.ptr - HeaderSize \in Nat
      /\ r.ptr - HeaderSize = c + Adjust(c, a)
  BY <1>1, <1>6 DEF HeaderSize
<1>8. /\ Changed(grown, r.heap, {}, {c + Adjust(c, a)})
      /\ r.heap.chunk[c + Adjust(c, a)].size >= realsize
  BY <1>1, <1>2, <1>3, <1>4, <1>5, TakeLemma
<1>9. Changed(h, r.heap, {}, {c + Adjust(c, a)})
  BY <1>5, <1>8 DEF Changed
<1>10. r.heap.chunk[c + Adjust(c, a)].size >= size + HeaderSize
  <2>1. r.heap.chunk[c + Adjust(c, a)].size \in Nat
    BY <1>9 DEF Changed, Tiled, Used
  <2>2. QED BY <2>1, <1>3, <1>8 DEF HeaderSize
<1>11. r.ptr % a = 0
  BY <1>1, <1>2, <1>6, AdjustLemma
<1>12. QED BY <1>7, <1>9, <1>10, <1>11 DEF a

\* A request that returns no block changes nothing, and was for no bytes.
LEMMA MallocNull ==
  ASSUME NEW h, Tiled(h), Running(h), NEW size \in Nat,
         NEW asked \in Alignments \cup {kMaxAlignment},
         NEW r, r = Malloc(h, size, asked), Running(r.heap), r.ptr = NullPtr
  PROVE  r.heap = h /\ size = 0
<1> DEFINE a == Max({asked, kMaxAlignment})
           realsize == RealSize(size, a)
           found == Usable(h, realsize, a)
           grown == IF found = {} THEN Grow(h, realsize, a) ELSE h
           c == IF found = {} THEN h.top ELSE Min(found)
<1>1. SUFFICES ASSUME size # 0 PROVE FALSE
  BY DEF Malloc
<1>2. ~\E d \in Chunks(h) : h.chunk[d].size = 0 /\ d < c
  <2>1. SUFFICES ASSUME \E d \in Chunks(h) : h.chunk[d].size = 0 /\ d < c PROVE FALSE
    OBVIOUS
  <2>2. r.heap = Failed(h, "Corrupted chunk")
    BY <2>1, <1>1 DEF Malloc
  <2>3. QED BY <2>2, FailedLemma
<1>3. Running(grown)
  BY <1>1, <1>2 DEF Malloc
<1>4. r.ptr = c + Adjust(c, a) + HeaderSize
  BY <1>1, <1>2, <1>3 DEF Malloc
<1>5. a \in Nat \ {0}
  BY AlignmentLemma
<1> HIDE DEF a, realsize
<1>6. c \in Nat
  <2>1. found \subseteq Nat /\ h.top \in Nat
    BY DEF Usable, Tiled
  <2>2. QED BY <2>1, MinLemma
<1> HIDE DEF c
<1>7. Adjust(c, a) \in Nat
  BY <1>5, <1>6, AdjustLemma
<1>8. QED BY <1>4, <1>6, <1>7 DEF HeaderSize, NullPtr

\* Free gives up one chunk, which swallows the free ones after it.
LEMMA FreeLemma ==
  ASSUME NEW h, Tiled(h), Running(h), NEW c \in Used(h),
         NEW n, n = Free(h, c + HeaderSize), Running(n)
  PROVE  Changed(h, n, {c}, {})
<1> DEFINE end == MergeEnd(h, c)
           kept == {d \in Chunks(h) : d <= c \/ d >= end}
<1>1. /\ c \in Chunks(h) /\ c \in Nat /\ (c + HeaderSize) - HeaderSize = c
      /\ c + HeaderSize # NullPtr
  BY DEF Used, Tiled, HeaderSize, NullPtr
<1>2. /\ n.chunk = [d \in kept |-> IF d = c THEN Header(end - c, FALSE) ELSE h.chunk[d]]
      /\ n.top = h.top
  <2>1. ~(h.used < h.chunk[c].size)
    <3>1. SUFFICES ASSUME h.used < h.chunk[c].size PROVE FALSE
      OBVIOUS
    <3>2. n = Failed(h, "Attempting to free more memory than was recorded")
      BY <3>1, <1>1 DEF Free
    <3>3. QED BY <3>2, FailedLemma
  <2>2. QED BY <2>1, <1>1 DEF Free
<1>3. /\ end \in {d \in Chunks(h) : d > c /\ h.chunk[d].used} \cup {h.top}
      /\ \A d \in Used(h) : d > c => end <= d
  <2> DEFINE S == {d \in Chunks(h) : d > c /\ h.chunk[d].used} \cup {h.top}
  <2>1. S \subseteq Nat /\ S # {}
    BY DEF Tiled
  <2>2. end = Min(S)
    BY DEF MergeEnd
  <2> HIDE DEF S, end
  <2>3. end \in S /\ \A y \in S : end <= y
    BY <2>1, <2>2, MinLemma
  <2>4. QED BY <2>3 DEF S, Used
<1> HIDE DEF end
<1>4. /\ end \in Nat /\ end > c /\ end <= h.top /\ After(h, c) <= end
      /\ After(h, c) \in Nat /\ end \in Chunks(h) \cup {h.top}
  <2>1. After(h, c) \in Nat /\ c < After(h, c) /\ After(h, c) <= h.top /\ h.top \in Nat
    BY <1>1, AfterLemma DEF Tiled
  <2>2. CASE end = h.top
    BY <2>1, <2>2, <1>1
  <2>3. CASE end \in Chunks(h) /\ end > c
    BY <2>1, <2>3, <1>1 DEF Tiled
  <2>4. QED BY <1>3, <2>2, <2>3
<1>5. Chunks(n) = kept /\ c \in kept
  BY <1>1, <1>2 DEF Chunks
<1>6. /\ n.chunk[c].size = end - c /\ ~n.chunk[c].used /\ After(n, c) = end
      /\ \A d \in kept \ {c} : n.chunk[d] = h.chunk[d]
  <2>1. n.chunk[c] = Header(end - c, FALSE)
    BY <1>2, <1>5
  <2>2. \A d \in kept \ {c} : n.chunk[d] = h.chunk[d]
    BY <1>2
  <2>3. QED BY <2>1, <2>2, <1>1, <1>4 DEF Header, After
<1> HIDE DEF kept
<1>7. \A d \in kept : d \in Chunks(h) /\ (d <= c \/ d >= end)
  BY DEF kept
<1>8. \A d \in Chunks(h) : d <= c \/ d >= end => d \in kept
  BY DEF kept
<1>9. Tiled(n)
  <2>1. /\ Chunks(n) \subseteq Nat /\ n.top \in Nat /\ n.top <= heap_end
        /\ heap_start \in Chunks(n)
    BY <1>1, <1>2, <1>5, <1>7, <1>8 DEF Tiled
  <2>2. /\ n.chunk[c].size \in Nat /\ n.chunk[c].size >= HeaderSize
        /\ heap_start <= c /\ c < n.top
        /\ After(n, c) \in Chunks(n) \cup {n.top}
        /\ \A d \in Chunks(n) : d > c => d >= After(n, c)
    <3>1. heap_start <= c /\ c < n.top
      BY <1>1, <1>2 DEF Tiled
    <3>2. h.chunk[c].size \in Nat /\ h.chunk[c].size >= 4 /\ After(h, c) = c + h.chunk[c].size
      BY <1>1 DEF Tiled, After, HeaderSize
    <3>3. end - c \in Nat /\ end - c >= HeaderSize
      BY <3>2, <1>1, <1>4 DEF HeaderSize
    <3>4. After(n, c) \in Chunks(n) \cup {n.top}
      BY <1>2, <1>4, <1>5, <1>6, <1>8
    <3>5. \A d \in Chunks(n) : d > c => d >= After(n, c)
      <4>1. \A d \in Chunks(n) : d \in Nat
        BY <2>1
      <4>2. QED BY <4>1, <1>1, <1>4, <1>5, <1>6, <1>7
    <3>6. QED BY <3>1, <3>3, <3>4, <3>5, <1>6
  <2>3. ASSUME NEW d \in Chunks(n), d # c
        PROVE  /\ n.chunk[d].size \in Nat /\ n.chunk[d].size >= HeaderSize
               /\ heap_start <= d /\ d < n.top
               /\ After(n, d) \in Chunks(n) \cup {n.top}
               /\ \A e \in Chunks(n) : e > d => e >= After(n, d)
    <3>1. /\ d \in Chunks(h) /\ n.chunk[d] = h.chunk[d] /\ d \in Nat
          /\ d <= c \/ d >= end
      BY <2>1, <2>3, <1>5, <1>6, <1>7
    <3>2. /\ n.chunk[d].size \in Nat /\ n.chunk[d].size >= HeaderSize
          /\ heap_start <= d /\ d < n.top /\ After(n, d) = After(h, d)
          /\ \A e \in Chunks(n) : e > d => e >= After(n, d)
      BY <3>1, <1>2, <1>5, <1>7 DEF Tiled, After
    <3>3. /\ After(h, d) \in Chunks(h) \cup {h.top} /\ After(h, d) \in Nat
          /\ d < After(h, d)
      BY <3>1, AfterLemma DEF Tiled
    <3>4. After(h, d) <= c \/ After(h, d) >= end
      <4>1. CASE d < c
        BY <4>1, <3>1, <1>1 DEF Tiled
      <4>2. CASE d >= end
        BY <4>2, <3>1, <3>3, <1>4
      <4>3. QED BY <4>1, <4>2, <3>1, <2>3, <1>1
    <3>5. After(n, d) \in Chunks(n) \cup {n.top}
      BY <3>2, <3>3, <3>4, <1>2, <1>5, <1>8
    <3>6. QED BY <3>2, <3>5
  <2>4. QED BY <2>1, <2>2, <2>3 DEF Tiled
<1>10. \A d \in Used(h) \ {c} : d \in kept
  <2> TAKE d \in Used(h) \ {c}
  <2>1. d \in Nat /\ d \in Chunks(h)
    BY DEF Used, Tiled
  <2>2. d <= c \/ d >= end
    BY <2>1, <1>1, <1>3, <1>4
  <2>3. QED BY <2>1, <2>2, <1>8
<1>11. Used(n) = Used(h) \ {c}
  <2>1. ASSUME NEW d \in kept PROVE d \in Used(n) <=> d \in Used(h) \ {c}
    <3>1. CASE d = c
      BY <3>1, <1>6 DEF Used
    <3>2. CASE d # c
      BY <3>2, <1>5, <1>6, <1>7 DEF Used
    <3>3. QED BY <3>1, <3>2
  <2>2. Used(n) \subseteq kept
    BY <1>5 DEF Used
  <2>3. QED BY <2>1, <2>2, <1>10
<1>12. \A d \in Used(h) \ {c} : n.chunk[d] = h.chunk[d]
  BY <1>6, <1>10
<1>13. QED BY <1>9, <1>11, <1>12 DEF Changed

\* In n the chunk c of h is cut after realsize bytes.
Shrunk(h, n, c, realsize) ==
  /\ n.top = h.top
  /\ n.chunk = [d \in Chunks(h) \cup {c + realsize} |->
                  IF d = c THEN Header(realsize, TRUE)
                  ELSE IF d = c + realsize
                       THEN Header(h.chunk[c].size - realsize, FALSE)
                  ELSE h.chunk[d]]

\* Shortening a chunk in place cuts its end off as a free chunk.
LEMMA ShrinkLemma ==
  ASSUME NEW h, Tiled(h), NEW c \in Used(h),
         NEW realsize \in Nat, realsize >= HeaderSize,
         h.chunk[c].size > realsize + HeaderSize,
         NEW n, Shrunk(h, n, c, realsize)
  PROVE  Changed(h, n, {c}, {c}) /\ n.chunk[c].size = realsize
<1> DEFINE next == c + realsize
           old == h.chunk[c].size
           A == {c, next}
<1>1. /\ c \in Chunks(h) /\ c \in Nat /\ old \in Nat /\ HeaderSize = 4
  BY DEF Used, Tiled, HeaderSize
<1>2. /\ next \in Nat /\ c < next /\ next < After(h, c)
      /\ next + (old - realsize) = After(h, c) /\ old - realsize \in Nat
      /\ old - realsize >= 4 /\ After(h, c) \in Nat
  BY <1>1 DEF After
<1>3. Chunks(n) = Chunks(h) \cup A /\ n.top = h.top
  BY <1>1 DEF Shrunk, Chunks
<1>4. n.chunk[c].size = realsize /\ n.chunk[c].used
  <2>1. n.chunk[c] = Header(realsize, TRUE)
    BY <1>1 DEF Shrunk
  <2>2. QED BY <2>1 DEF Header
<1>5. n.chunk[next].size = old - realsize /\ ~n.chunk[next].used
  <2>1. next # c /\ next \in Chunks(h) \cup {c + realsize}
    BY <1>1, <1>2
  <2>2. n.chunk[next] = Header(old - realsize, FALSE)
    BY <2>1 DEF Shrunk
  <2>3. QED BY <2>2 DEF Header
<1>6. ASSUME NEW d \in Chunks(h) \ {c}
      PROVE  d # next /\ n.chunk[d] = h.chunk[d]
  <2>1. d \in Nat /\ (d < c \/ d >= After(h, c))
    BY <1>1 DEF Tiled
  <2>2. d # next
    BY <2>1, <1>1, <1>2
  <2>3. QED BY <2>2 DEF Shrunk
<1>7. After(n, c) = next
  BY <1>4 DEF After
<1> HIDE DEF next, old
<1>8. After(n, next) = After(h, c)
  BY <1>2, <1>5 DEF After
<1>9. A \subseteq Nat /\ c \in A /\ next \in A /\ \A x \in A : x = c \/ x = next
  BY <1>1, <1>2
<1> HIDE DEF A
<1>10. Pieces(h, n, c, A)
  <2>1. /\ n.chunk[c].size \in Nat /\ n.chunk[c].size >= HeaderSize
        /\ c <= c /\ c < After(h, c) /\ After(n, c) \in A \cup {After(h, c)}
        /\ \A b \in A : b > c => b >= After(n, c)
    <3>1. ASSUME NEW b \in A, b > c PROVE b >= next
      <4>1. b = next
        BY <3>1, <1>1, <1>9
      <4>2. QED BY <4>1, <1>2
    <3>2. c < After(h, c)
      BY <1>1, <1>2
    <3>3. QED BY <3>1, <3>2, <1>1, <1>4, <1>7, <1>9
  <2>2. /\ n.chunk[next].size \in Nat /\ n.chunk[next].size >= HeaderSize
        /\ c <= next /\ next < After(h, c)
        /\ After(n, next) \in A \cup {After(h, c)}
        /\ \A b \in A : b > next => b >= After(n, next)
    <3>1. \A b \in A : ~(b > next)
      BY <1>1, <1>2, <1>9
    <3>2. c <= next
      BY <1>1, <1>2
    <3>3. QED BY <3>1, <3>2, <1>1, <1>2, <1>5, <1>8
  <2>3. QED BY <2>1, <2>2, <1>9 DEF Pieces
<1>11. Tiled(n)
  BY <1>1, <1>3, <1>6, <1>10, CutTiled
<1>12. Used(n) = Used(h)
  <2>1. ASSUME NEW d \in Chunks(n) PROVE d \in Used(n) <=> d \in Used(h)
    <3>1. CASE d \in Chunks(h) \ {c}
      BY <3>1, <1>6 DEF Used
    <3>2. CASE d = c
      BY <3>2, <1>4 DEF Used
    <3>3. CASE d = next /\ d \notin Chunks(h)
      BY <3>3, <1>5 DEF Used
    <3>4. QED BY <3>1, <3>2, <3>3, <1>3, <1>9
  <2>2. QED BY <2>1, <1>3 DEF Used
<1>13. \A d \in Used(h) \ {c} : n.chunk[d] = h.chunk[d]
  BY <1>6 DEF Used
<1>14. QED BY <1>4, <1>11, <1>12, <1>13 DEF Changed

\* SlowRealloc is an allocation, then the release of the old block.
LEMMA SlowReallocLemma ==
  ASSUME NEW h, NEW q, NEW size, NEW new, new = Malloc(h, size, kMaxAlignment),
         NEW r, r = SlowRealloc(h, q, size), Running(r.heap)
  PROVE  r.ptr = new.ptr /\ r.heap = Free(new.heap, q)
<1>1. CASE new.ptr = q
  <2> DEFINE assertion == "Somehow returned the same pointer"
             f == Failed(h, assertion)
  <2>1. r = [heap |-> f, ptr |-> new.ptr]
    BY <1>1 DEF SlowRealloc
  <2>2. ~Running(f)
    BY FailedLemma
  <2> HIDE DEF f
  <2>3. r.heap = f
    BY <2>1
  <2>4. QED BY <2>2, <2>3
<1>2. CASE new.ptr # q
  <2>1. r = [heap |-> Free(new.heap, q), ptr |-> new.ptr]
    BY <1>2 DEF SlowRealloc
  <2>2. QED BY <2>1
<1>3. QED BY <1>1, <1>2

\* A realloc that succeeds exchanges the old chunk for one, maybe the same, with
\* room for what was asked.
LEMMA ReallocLemma ==
  ASSUME NEW h, Tiled(h), Running(h), NEW c \in Used(h),
         (c + HeaderSize) % kMaxAlignment = 0, NEW size \in Nat,
         NEW r, r = Realloc(h, c + HeaderSize, size),
         Running(r.heap), r.ptr # NullPtr
  PROVE  /\ r.ptr \in Nat /\ r.ptr - HeaderSize \in Nat
         /\ Changed(h, r.heap, {c}, {r.ptr - HeaderSize})
         /\ r.heap.chunk[r.ptr - HeaderSize].size >= size + HeaderSize
         /\ r.ptr % kMaxAlignment = 0
<1> DEFINE old == h.chunk[c].size
           realsize == RealSize(size, kMaxAlignment)
           ptr == c + HeaderSize
<1>1. c \in Nat /\ old \in Nat /\ ptr \in Nat /\ ptr - HeaderSize = c
  BY DEF Used, Tiled, HeaderSize
<1>2. realsize \in Nat /\ realsize >= size + HeaderSize /\ realsize >= HeaderSize
  <2>1. HeaderSize + size \in Nat \ {0} /\ kMaxAlignment \in Nat \ {0}
    BY DEF HeaderSize, kMaxAlignment
  <2>2. RoundUp(HeaderSize + size, kMaxAlignment) \in Nat
        /\ RoundUp(HeaderSize + size, kMaxAlignment) >= HeaderSize + size
    BY <2>1, RoundUpLemma
  <2>3. QED BY <2>1, <2>2 DEF RealSize, HeaderSize
<1>3. size # 0
  BY DEF Realloc
<1>4. CASE old = realsize
  <2>1. r = [heap |-> h, ptr |-> ptr]
    BY <1>1, <1>3, <1>4 DEF Realloc
  <2>2. Changed(h, h, {c}, {c})
    BY DEF Changed
  <2>3. r.heap = h /\ r.ptr = ptr
    BY <2>1
  <2>4. QED BY <2>2, <2>3, <1>1, <1>2, <1>4
<1>5. CASE old # realsize /\ old > realsize + HeaderSize
  <2>1. r.ptr = ptr /\ Shrunk(h, r.heap, c, realsize)
    BY <1>1, <1>3, <1>5 DEF Realloc, Shrunk
  <2> HIDE DEF realsize
  <2>2. Changed(h, r.heap, {c}, {c}) /\ r.heap.chunk[c].size = realsize
    BY <2>1, <1>2, <1>5, ShrinkLemma
  <2>3. QED BY <2>1, <2>2, <1>1, <1>2
<1>6. CASE old # realsize /\ ~(old > realsize + HeaderSize)
  <2> DEFINE new == Malloc(h, size, kMaxAlignment)
  <2>1. r = SlowRealloc(h, ptr, size)
    BY <1>1, <1>3, <1>6 DEF Realloc
  <2>2. r.ptr = new.ptr /\ r.heap = Free(new.heap, ptr)
    BY <2>1, SlowReallocLemma
  <2>4. Running(new.heap)
    BY <2>2 DEF Free
  <2>5. new = Malloc(h, size, kMaxAlignment)
    OBVIOUS
  <2> HIDE DEF new
  <2>6. /\ new.ptr \in Nat /\ new.ptr - HeaderSize \in Nat
        /\ Changed(h, new.heap, {}, {new.ptr - HeaderSize})
        /\ new.heap.chunk[new.ptr - HeaderSize].size >= size + HeaderSize
        /\ new.ptr % Max({kMaxAlignment, kMaxAlignment}) = 0
    BY <2>2, <2>4, <2>5, MallocLemma
  <2> DEFINE x == new.ptr - HeaderSize
  <2>7. /\ Tiled(new.heap) /\ c \in Used(new.heap) /\ x \in Used(new.heap) /\ x # c
        /\ Used(new.heap) = Used(h) \cup {x} /\ x \notin Used(h)
        /\ \A d \in Used(h) : new.heap.chunk[d] = h.chunk[d]
    BY <2>6 DEF Changed
  <2> HIDE DEF x
  <2>8. Changed(new.heap, r.heap, {c}, {})
    BY <2>2, <2>4, <2>7, FreeLemma
  <2>9. Changed(h, r.heap, {c}, {x}) /\ r.heap.chunk[x] = new.heap.chunk[x]
    BY <2>7, <2>8 DEF Changed
  <2>10. Max({kMaxAlignment, kMaxAlignment}) = kMaxAlignment
    BY DEF Max, kMaxAlignment
  <2>11. QED BY <2>2, <2>6, <2>9, <2>10 DEF x
<1>7. QED BY <1>4, <1>5, <1>6

\* A realloc that returns no block while the machine runs changes nothing.
LEMMA ReallocNull ==
  ASSUME NEW h, Tiled(h), Running(h), NEW ptr, NEW size \in Nat,
         NEW r, r = Realloc(h, ptr, size), Running(r.heap), r.ptr = NullPtr,
         ptr # NullPtr
  PROVE  r.heap = h
<1>1. CASE size = 0
  BY <1>1 DEF Realloc
<1>2. CASE size # 0
  <2> DEFINE new == Malloc(h, size, kMaxAlignment)
  <2>1. r = SlowRealloc(h, ptr, size)
    BY <1>2 DEF Realloc
  <2>2. new.ptr = NullPtr /\ r.heap = Free(new.heap, ptr)
    BY <2>1, SlowReallocLemma
  <2>3. Running(new.heap)
    BY <2>2 DEF Free
  <2>4. new = Malloc(h, size, kMaxAlignment)
    OBVIOUS
  <2> HIDE DEF new
  <2>5. size = 0
    BY <2>2, <2>3, <2>4, MallocNull
  <2>6. QED BY <2>5, <1>2
<1>3. QED BY <1>1, <1>2
-----------------------------------------------------------------------------
(* The blocks *)

\* The blocks held are the payloads of the chunks in use, with room for what was
\* asked.
Held(h, L) ==
  /\ DOMAIN L \subseteq Nat
  /\ \A p \in DOMAIN L :
       /\ p - HeaderSize \in Used(h) /\ L[p].size \in Nat
       /\ h.chunk[p - HeaderSize].size >= L[p].size + HeaderSize
       /\ p % kMaxAlignment = 0
  /\ \A c \in Used(h) : c + HeaderSize \in DOMAIN L

\* The blocks of L, with block b at p in the place of those of gone.
Exchanged(L, gone, p, b) ==
  [x \in (DOMAIN L \ gone) \cup {p} |-> IF x = p THEN b ELSE L[x]]

\* The chunks of the blocks in S.
Headers(S) == {q - HeaderSize : q \in S}

\* The chunks of the blocks in gone are exchanged for one that has room for b.
Replaced(h, n, gone, p, b) ==
  /\ p \in Nat /\ p - HeaderSize \in Nat /\ b.size \in Nat
  /\ Changed(h, n, Headers(gone), {p - HeaderSize})
  /\ n.chunk[p - HeaderSize].size >= b.size + HeaderSize
  /\ p % kMaxAlignment = 0

\* Exchanging chunks for one with room for b keeps blocks and chunks together.
LEMMA HeldLemma ==
  ASSUME NEW h, NEW L, Held(h, L), Chunks(h) \subseteq Nat,
         NEW gone, gone \subseteq DOMAIN L, NEW n, NEW p, NEW b,
         Replaced(h, n, gone, p, b)
  PROVE  Held(n, Exchanged(L, gone, p, b)) /\ p \notin DOMAIN L \ gone
<1> DEFINE out == Headers(gone)
           M == Exchanged(L, gone, p, b)
<1>0. /\ p \in Nat /\ p - HeaderSize \in Nat /\ b.size \in Nat
      /\ Changed(h, n, out, {p - HeaderSize})
      /\ n.chunk[p - HeaderSize].size >= b.size + HeaderSize
      /\ p % kMaxAlignment = 0
  BY DEF Replaced
<1>1. /\ DOMAIN M = (DOMAIN L \ gone) \cup {p} /\ M[p] = b
      /\ \A x \in (DOMAIN L \ gone) \ {p} : M[x] = L[x]
  BY DEF Exchanged
<1> HIDE DEF M
<1>2. ASSUME NEW x \in DOMAIN L \ gone
      PROVE  /\ x \in Nat /\ x - HeaderSize \in Used(h) \ out /\ L[x].size \in Nat
             /\ h.chunk[x - HeaderSize].size >= L[x].size + HeaderSize
             /\ x % kMaxAlignment = 0
  <2>1. x \in Nat /\ gone \subseteq Nat
    BY DEF Held
  <2>2. x - HeaderSize \notin out
    BY <2>1 DEF HeaderSize, Headers, out
  <2>3. QED BY <2>1, <2>2 DEF Held
<1>3. /\ Used(n) = (Used(h) \ out) \cup {p - HeaderSize}
      /\ p - HeaderSize \notin Used(h) \ out
      /\ \A c \in Used(h) \ out : n.chunk[c] = h.chunk[c]
  BY <1>0 DEF Changed
<1> HIDE DEF out
<1>4. p \notin DOMAIN L \ gone
  BY <1>2, <1>3
<1>5. ASSUME NEW x \in DOMAIN M
      PROVE  /\ x \in Nat /\ x - HeaderSize \in Used(n) /\ M[x].size \in Nat
             /\ n.chunk[x - HeaderSize].size >= M[x].size + HeaderSize
             /\ x % kMaxAlignment = 0
  <2>1. CASE x = p
    BY <2>1, <1>0, <1>1, <1>3
  <2>2. CASE x # p
    <3>1. x \in DOMAIN L \ gone /\ M[x] = L[x]
      BY <2>2, <1>1
    <3>2. n.chunk[x - HeaderSize] = h.chunk[x - HeaderSize]
      BY <3>1, <1>2, <1>3
    <3>3. QED BY <3>1, <3>2, <1>2, <1>3
  <2>3. QED BY <2>1, <2>2
<1>6. ASSUME NEW c \in Used(n) PROVE c + HeaderSize \in DOMAIN M
  <2>1. CASE c = p - HeaderSize
    BY <2>1, <1>0, <1>1 DEF HeaderSize
  <2>2. CASE c \in Used(h) \ out
    <3>1. c \in Nat /\ c + HeaderSize \in DOMAIN L
      BY <2>2 DEF Held, Used
    <3>2. (c + HeaderSize) - HeaderSize = c
      BY <3>1 DEF HeaderSize
    <3>3. c + HeaderSize \notin gone
      BY <2>2, <3>2 DEF Headers, out
    <3>4. QED BY <3>1, <3>3, <1>1
  <2>3. QED BY <2>1, <2>2, <1>3
<1>7. QED BY <1>4, <1>5, <1>6 DEF Held, M

\* A release keeps blocks and chunks together.
LEMMA FreeHeld ==
  ASSUME NEW h, NEW n, NEW L, Held(h, L), Chunks(h) \subseteq Nat,
         NEW p \in DOMAIN L, Changed(h, n, {p - HeaderSize}, {}),
         NEW M, M = [x \in DOMAIN L \ {p} |-> L[x]]
  PROVE  Held(n, M)
<1>1. /\ DOMAIN M = DOMAIN L \ {p} /\ \A x \in DOMAIN L \ {p} : M[x] = L[x]
  OBVIOUS
<1>2. /\ Used(n) = Used(h) \ {p - HeaderSize}
      /\ \A c \in Used(h) \ {p - HeaderSize} : n.chunk[c] = h.chunk[c]
  BY DEF Changed
<1>3. ASSUME NEW x \in DOMAIN M
      PROVE  /\ x \in Nat /\ x - HeaderSize \in Used(n) /\ M[x].size \in Nat
             /\ n.chunk[x - HeaderSize].size >= M[x].size + HeaderSize
             /\ x % kMaxAlignment = 0
  <2>1. x \in Nat /\ p \in Nat /\ x # p /\ x \in DOMAIN L /\ M[x] = L[x]
    BY <1>1 DEF Held
  <2>2. x - HeaderSize # p - HeaderSize
    BY <2>1 DEF HeaderSize
  <2>3. x - HeaderSize \in Used(h) \ {p - HeaderSize}
    BY <2>1, <2>2 DEF Held
  <2>4. n.chunk[x - HeaderSize] = h.chunk[x - HeaderSize]
    BY <2>3, <1>2
  <2>5. QED BY <2>1, <2>3, <2>4, <1>2 DEF Held
<1>4. ASSUME NEW c \in Used(n) PROVE c + HeaderSize \in DOMAIN M
  <2>1. c \in Nat /\ c + HeaderSize \in DOMAIN L /\ c # p - HeaderSize
    BY <1>2 DEF Held, Used
  <2>2. c + HeaderSize # p
    BY <2>1 DEF HeaderSize
  <2>3. QED BY <2>1, <2>2, <1>1
<1>5. QED BY <1>3, <1>4 DEF Held

\* The payload of a chunk in use is in the heap and apart from every other one.
LEMMA FreshLemma ==
  ASSUME NEW n, Tiled(n), NEW M, Held(n, M), NEW p \in DOMAIN M,
         NEW b, b = M[p], p % b.align = 0,
         NEW K, DOMAIN K \subseteq DOMAIN M \ {p}, \A q \in DOMAIN K : K[q] = M[q]
  PROVE  Blocks!Fresh(p, b, K)
<1>1. ASSUME NEW q \in DOMAIN M
      PROVE  /\ q \in Nat /\ q - HeaderSize \in Chunks(n) /\ q - HeaderSize \in Nat
             /\ M[q].size \in Nat
             /\ After(n, q - HeaderSize) \in Nat
             /\ q + M[q].size <= After(n, q - HeaderSize)
             /\ After(n, q - HeaderSize) <= heap_end
             /\ heap_start <= q - HeaderSize
  <2>1. /\ q \in Nat /\ q - HeaderSize \in Chunks(n) /\ M[q].size \in Nat
        /\ n.chunk[q - HeaderSize].size >= M[q].size + HeaderSize
    BY DEF Held, Used
  <2>2. /\ q - HeaderSize \in Nat /\ n.chunk[q - HeaderSize].size \in Nat
        /\ n.top \in Nat /\ n.top <= heap_end /\ heap_start <= q - HeaderSize
    BY <2>1 DEF Tiled
  <2>3. /\ After(n, q - HeaderSize) \in Nat /\ After(n, q - HeaderSize) <= n.top
    BY <2>1, AfterLemma
  <2>4. q + M[q].size <= After(n, q - HeaderSize)
    BY <2>1, <2>2 DEF After, HeaderSize
  <2>5. heap_end \in Nat
    BY HeapAssumption
  <2>6. QED BY <2>1, <2>2, <2>3, <2>4, <2>5
<1>2. heap_start \in Nat /\ heap_end \in Nat
  BY HeapAssumption
<1>3. p >= heap_start /\ p + b.size <= heap_end
  BY <1>1, <1>2 DEF HeaderSize
<1>4. ASSUME NEW q \in DOMAIN K PROVE Blocks!Apart(p, b.size, q, K[q].size)
  <2>1. q \in DOMAIN M /\ q # p /\ K[q] = M[q]
    OBVIOUS
  <2>2. CASE p < q
    <3>1. q - HeaderSize > p - HeaderSize
      BY <2>1, <2>2, <1>1 DEF HeaderSize
    <3>2. q - HeaderSize >= After(n, p - HeaderSize)
      BY <3>1, <2>1, <1>1 DEF Tiled
    <3>3. p + b.size <= q
      BY <3>2, <2>1, <1>1 DEF HeaderSize
    <3>4. QED BY <3>3 DEF Blocks!Apart
  <2>3. CASE q < p
    <3>1. p - HeaderSize > q - HeaderSize
      BY <2>1, <2>3, <1>1 DEF HeaderSize
    <3>2. p - HeaderSize >= After(n, q - HeaderSize)
      BY <3>1, <2>1, <1>1 DEF Tiled
    <3>3. q + K[q].size <= p
      BY <3>2, <2>1, <1>1 DEF HeaderSize
    <3>4. QED BY <3>3 DEF Blocks!Apart
  <2>4. QED BY <2>1, <2>2, <2>3, <1>1
<1>5. QED BY <1>3, <1>4 DEF Blocks!Fresh

-----------------------------------------------------------------------------
(* The steps *)

\* Until an assertion fails, the heap is tiled and the blocks are its chunks in
\* use.
Inv ==
  /\ live = [p \in DOMAIN live |-> live[p]]
  /\ Running(heap) => Tiled(heap) /\ Held(heap, live)

\* The first page is one free chunk.
LEMMA InitLemma ==
  ASSUME Init
  PROVE  Inv /\ Blocks!Init
<1>1. /\ heap_start \in Nat /\ heap_end \in Nat /\ kPage \in Nat /\ kPage > 0
      /\ heap_start + kPage <= heap_end /\ kPage % 4 = 0
  BY HeapAssumption DEF HeaderSize
<1>2. kPage >= 4
  BY <1>1
<1>3. Increase(1) = kPage
  <2>1. 1 % kPage = 1
    BY <1>1, <1>2
  <2>2. QED BY <2>1, <1>1 DEF Increase, RoundUp
<1>4. /\ heap.chunk = [c \in {heap_start} |-> Header(kPage, FALSE)]
      /\ heap.top = heap_start + kPage
  BY <1>3 DEF Init
<1>5. /\ Chunks(heap) = {heap_start} /\ heap.chunk[heap_start].size = kPage
      /\ heap.chunk[heap_start].used = FALSE
  BY <1>4 DEF Chunks, Header
<1>6. Tiled(heap)
  <2>1. After(heap, heap_start) = heap.top
    BY <1>4, <1>5 DEF After
  <2>2. heap.top \in Nat /\ heap.top <= heap_end /\ heap_start < heap.top
    BY <1>1, <1>4
  <2>3. kPage >= HeaderSize
    BY <1>2 DEF HeaderSize
  <2>4. \A d \in {heap_start} : ~(d > heap_start)
    BY <1>1
  <2>5. QED BY <2>1, <2>2, <2>3, <2>4, <1>1, <1>5 DEF Tiled
<1>7. Used(heap) = {}
  BY <1>5 DEF Used
<1>8. DOMAIN live = {} /\ live = [p \in {} |-> {}]
  BY DEF Init
<1>9. live = [p \in DOMAIN live |-> live[p]]
  BY <1>8
<1>10. Held(heap, live)
  BY <1>7, <1>8 DEF Held
<1>11. QED BY <1>6, <1>8, <1>9, <1>10 DEF Inv, Blocks!Init

\* An allocation gives a fresh block, or changes nothing.
LEMMA MallocStep ==
  ASSUME Inv, Running(heap), NEW size \in Nat,
         NEW asked \in Alignments \cup {kMaxAlignment},
         Hold(Malloc(heap, size, asked), {}, Block(size, asked))
  PROVE  Inv' /\ [Blocks!Next]_live
<1> DEFINE r == Malloc(heap, size, asked)
           b == Block(size, asked)
<1>1. heap' = r.heap
  BY DEF Hold
<1>2. Tiled(heap) /\ Held(heap, live)
  BY DEF Inv
<1>3. CASE ~Running(r.heap)
  <2>1. live' = live
    BY <1>3 DEF Hold
  <2>2. QED BY <2>1, <1>1, <1>3 DEF Inv
<1>4. CASE Running(r.heap) /\ r.ptr = NullPtr
  <2>1. live' = live
    BY <1>4 DEF Hold
  <2>2. r.heap = heap
    BY <1>2, <1>4, MallocNull
  <2>3. QED BY <2>1, <2>2, <1>1 DEF Inv
<1>5. CASE Running(r.heap) /\ r.ptr # NullPtr
  <2>1. live' = Exchanged(live, {}, r.ptr, b)
    BY <1>5 DEF Hold, Exchanged
  <2>2. /\ r.ptr \in Nat /\ r.ptr - HeaderSize \in Nat
        /\ Changed(heap, r.heap, {}, {r.ptr - HeaderSize})
        /\ r.heap.chunk[r.ptr - HeaderSize].size >= size + HeaderSize
        /\ r.ptr % Max({asked, kMaxAlignment}) = 0
    BY <1>2, <1>5, MallocLemma
  <2> HIDE DEF r
  <2>3. b.size = size /\ b.align = Max({asked, kMaxAlignment})
    BY DEF Block
  <2> HIDE DEF b
  <2>4. r.ptr % kMaxAlignment = 0
    <3>1. kMaxAlignment \in Nat \ {0}
      BY DEF kMaxAlignment
    <3>2. QED BY <2>2, <3>1, AlignmentLemma, MultiplesLemma
  <2>5. Held(r.heap, live') /\ r.ptr \notin DOMAIN live
    <3>1. {} = Headers({}) /\ {} \subseteq DOMAIN live
      BY DEF Headers
    <3>2. Chunks(heap) \subseteq Nat
      BY <1>2 DEF Tiled
    <3>3. Replaced(heap, r.heap, {}, r.ptr, b)
      BY <3>1, <2>2, <2>3, <2>4 DEF Replaced
    <3>4. Held(r.heap, live') /\ r.ptr \notin DOMAIN live \ {}
      BY <3>1, <3>2, <3>3, <2>1, <1>2, HeldLemma
    <3>5. QED BY <3>4
  <2>6. Tiled(r.heap)
    BY <2>2 DEF Changed
  <2>7. /\ DOMAIN live' = DOMAIN live \cup {r.ptr} /\ live'[r.ptr] = b
        /\ \A q \in DOMAIN live \ {r.ptr} : live'[q] = live[q]
        /\ live' = [q \in DOMAIN live \cup {r.ptr} |-> IF q = r.ptr THEN b ELSE live[q]]
    BY <2>1 DEF Exchanged
  <2>8. Blocks!Fresh(r.ptr, b, live)
    <3>1. r.ptr \in DOMAIN live' /\ b = live'[r.ptr] /\ r.ptr % b.align = 0
      BY <2>2, <2>3, <2>7
    <3>2. DOMAIN live \subseteq DOMAIN live' \ {r.ptr}
      BY <2>5, <2>7
    <3>3. \A q \in DOMAIN live : live[q] = live'[q]
      BY <2>5, <2>7
    <3>4. QED BY <3>1, <3>2, <3>3, <2>5, <2>6, FreshLemma
  <2>9. Blocks!Allocate(r.ptr, live'[r.ptr])
    BY <2>7, <2>8 DEF Blocks!Allocate, Blocks!With
  <2>10. Blocks!Next
    BY <2>7, <2>9 DEF Blocks!Next
  <2>11. live' = [q \in DOMAIN live' |-> live'[q]]
    BY <2>7
  <2>12. QED BY <2>5, <2>6, <2>10, <2>11, <1>1 DEF Inv
<1>6. QED BY <1>3, <1>4, <1>5

\* A realloc gives a block that is fresh but for the one it replaces, or changes
\* nothing.
LEMMA ReallocStep ==
  ASSUME Inv, Running(heap), NEW p \in DOMAIN live, NEW size \in Nat, realloc(p, size)
  PROVE  Inv' /\ [Blocks!Next]_live
<1> DEFINE r == Realloc(heap, p, size)
           b == Block(size, kMaxAlignment)
           c == p - HeaderSize
<1>1. heap' = r.heap
  BY DEF realloc, Hold
<1>2. Tiled(heap) /\ Held(heap, live)
  BY DEF Inv
<1>3. /\ p \in Nat /\ p # NullPtr /\ c \in Used(heap) /\ c + HeaderSize = p
      /\ p % kMaxAlignment = 0
  BY <1>2 DEF Held, NullPtr, HeaderSize
<1>4. CASE ~Running(r.heap)
  <2>1. live' = live
    BY <1>4 DEF realloc, Hold
  <2>2. QED BY <2>1, <1>1, <1>4 DEF Inv
<1>5. CASE Running(r.heap) /\ r.ptr = NullPtr
  <2>1. live' = live
    BY <1>5 DEF realloc, Hold
  <2>2. r.heap = heap
    BY <1>2, <1>3, <1>5, ReallocNull
  <2>3. QED BY <2>1, <2>2, <1>1 DEF Inv
<1>6. CASE Running(r.heap) /\ r.ptr # NullPtr
  <2>1. live' = Exchanged(live, {p}, r.ptr, b)
    BY <1>6 DEF realloc, Hold, Exchanged
  <2>2. r = Realloc(heap, c + HeaderSize, size) /\ (c + HeaderSize) % kMaxAlignment = 0
    BY <1>3
  <2> HIDE DEF r, c
  <2>3. /\ r.ptr \in Nat /\ r.ptr - HeaderSize \in Nat
        /\ Changed(heap, r.heap, {c}, {r.ptr - HeaderSize})
        /\ r.heap.chunk[r.ptr - HeaderSize].size >= size + HeaderSize
        /\ r.ptr % kMaxAlignment = 0
    BY <1>2, <1>3, <1>6, <2>2, ReallocLemma
  <2>4. b.size = size /\ b.align = kMaxAlignment
    BY DEF Block, Max, kMaxAlignment
  <2> HIDE DEF b
  <2>5. Held(r.heap, live') /\ r.ptr \notin DOMAIN live \ {p}
    <3>1. {c} = Headers({p}) /\ {p} \subseteq DOMAIN live
      BY DEF c, Headers
    <3>2. Chunks(heap) \subseteq Nat
      BY <1>2 DEF Tiled
    <3>3. Replaced(heap, r.heap, {p}, r.ptr, b)
      BY <3>1, <2>3, <2>4 DEF Replaced
    <3>4. QED BY <3>1, <3>2, <3>3, <2>1, <1>2, HeldLemma
  <2>6. Tiled(r.heap)
    BY <2>3 DEF Changed
  <2> DEFINE K == Blocks!Without(p)
  <2>7. DOMAIN K = DOMAIN live \ {p} /\ \A q \in DOMAIN live \ {p} : K[q] = live[q]
    BY DEF Blocks!Without
  <2> HIDE DEF K
  <2>8. /\ DOMAIN live' = (DOMAIN live \ {p}) \cup {r.ptr} /\ live'[r.ptr] = b
        /\ \A q \in (DOMAIN live \ {p}) \ {r.ptr} : live'[q] = live[q]
        /\ live' = [q \in (DOMAIN live \ {p}) \cup {r.ptr} |->
                      IF q = r.ptr THEN b ELSE live[q]]
    BY <2>1 DEF Exchanged
  <2>9. Blocks!Fresh(r.ptr, b, K)
    <3>1. r.ptr \in DOMAIN live' /\ b = live'[r.ptr] /\ r.ptr % b.align = 0
      BY <2>3, <2>4, <2>8
    <3>2. DOMAIN K \subseteq DOMAIN live' \ {r.ptr}
      BY <2>5, <2>7, <2>8
    <3>3. \A q \in DOMAIN K : K[q] = live'[q]
      BY <2>5, <2>7, <2>8
    <3>4. QED BY <3>1, <3>2, <3>3, <2>5, <2>6, FreshLemma
  <2>10. live' = Blocks!With(K, r.ptr, b)
    BY <2>7, <2>8 DEF Blocks!With
  <2>11. Blocks!Resize(p, r.ptr, live'[r.ptr])
    BY <2>8, <2>9, <2>10 DEF Blocks!Resize, K
  <2>12. Blocks!Next
    BY <2>8, <2>11 DEF Blocks!Next
  <2>13. live' = [q \in DOMAIN live' |-> live'[q]]
    BY <2>8
  <2>14. QED BY <2>5, <2>6, <2>12, <2>13, <1>1 DEF Inv
<1>7. QED BY <1>4, <1>5, <1>6

\* A release ends one block and leaves the others.
LEMMA FreeStep ==
  ASSUME Inv, Running(heap), NEW p \in DOMAIN live, free(p)
  PROVE  Inv' /\ [Blocks!Next]_live
<1> DEFINE c == p - HeaderSize
<1>1. Tiled(heap) /\ Held(heap, live)
  BY DEF Inv
<1>2. p \in Nat /\ c \in Used(heap) /\ c + HeaderSize = p /\ Chunks(heap) \subseteq Nat
  BY <1>1 DEF Held, HeaderSize, Tiled
<1>3. heap' = Free(heap, c + HeaderSize) /\ live' = [x \in DOMAIN live \ {p} |-> live[x]]
  BY <1>2 DEF free
<1> HIDE DEF c
<1>4. Running(heap') => Tiled(heap') /\ Held(heap', live')
  <2>1. SUFFICES ASSUME Running(heap') PROVE Tiled(heap') /\ Held(heap', live')
    OBVIOUS
  <2>2. Changed(heap, heap', {c}, {})
    BY <2>1, <1>1, <1>2, <1>3, FreeLemma
  <2>3. Changed(heap, heap', {p - HeaderSize}, {})
    BY <2>2 DEF c
  <2>4. Held(heap', live')
    BY <2>3, <1>1, <1>2, <1>3, FreeHeld
  <2>5. QED BY <2>2, <2>4 DEF Changed
<1>5. Blocks!Next
  BY <1>3 DEF Blocks!Next, Blocks!Release, Blocks!Without
<1>6. live' = [q \in DOMAIN live' |-> live'[q]]
  BY <1>3
<1>7. QED BY <1>4, <1>5, <1>6 DEF Inv

\* Every step keeps the invariant and is one the promise allows.
LEMMA StepLemma ==
  ASSUME Inv, [Next]_vars
  PROVE  Inv' /\ [Blocks!Next]_live
<1>1. CASE UNCHANGED vars
  BY <1>1 DEF vars, Inv
<1>2. ASSUME Running(heap), NEW size \in Sizes, NEW alignment \in Alignments,
             malloc(size, alignment)
      PROVE  Inv' /\ [Blocks!Next]_live
  BY <1>2, MallocStep, HeapAssumption DEF malloc
<1>3. ASSUME Running(heap), NEW num \in {2}, NEW size \in Sizes, calloc(num, size)
      PROVE  Inv' /\ [Blocks!Next]_live
  <2>1. num * size \in Nat
    BY HeapAssumption
  <2>2. QED BY <1>3, <2>1, MallocStep DEF calloc
<1>4. ASSUME Running(heap), NEW p \in DOMAIN live, free(p)
      PROVE  Inv' /\ [Blocks!Next]_live
  BY <1>4, FreeStep
<1>5. ASSUME Running(heap), NEW p \in DOMAIN live, NEW size \in Sizes, realloc(p, size)
      PROVE  Inv' /\ [Blocks!Next]_live
  BY <1>5, ReallocStep, HeapAssumption
<1>6. ASSUME Running(heap), free(NullPtr)
      PROVE  Inv' /\ [Blocks!Next]_live
  <2>1. heap' = heap
    BY <1>6 DEF free, Free
  <2>2. NullPtr \notin DOMAIN live
    BY <1>6 DEF Inv, Held, NullPtr
  <2>3. live' = [p \in DOMAIN live |-> live[p]]
    BY <2>2, <1>6 DEF free
  <2>4. live' = live
    BY <2>3 DEF Inv
  <2>5. QED BY <2>1, <2>4 DEF Inv
<1>7. QED BY <1>1, <1>2, <1>3, <1>4, <1>5, <1>6 DEF Next, Stopped

\* The invariant says what ChunksExact does, while the machine runs.
LEMMA InvImplies ==
  ASSUME Inv, Running(heap)
  PROVE  ChunksExact
<1>1. Tiled(heap) /\ Held(heap, live)
  BY DEF Inv
<1>2. ASSUME NEW c \in Chunks(heap)
      PROVE  /\ heap.chunk[c].size >= HeaderSize
             /\ c + heap.chunk[c].size \in Chunks(heap) \cup {heap.top}
             /\ \A d \in Chunks(heap) : d > c => d >= c + heap.chunk[c].size
  BY <1>1 DEF Tiled, After
<1>3. Used(heap) = {p - HeaderSize : p \in DOMAIN live}
  <2>1. ASSUME NEW c \in Used(heap) PROVE c \in {p - HeaderSize : p \in DOMAIN live}
    <3>1. c \in Nat /\ c + HeaderSize \in DOMAIN live
      BY <1>1 DEF Held, Tiled, Used
    <3>2. c = (c + HeaderSize) - HeaderSize
      BY <3>1 DEF HeaderSize
    <3>3. QED BY <3>1, <3>2
  <2>2. \A p \in DOMAIN live : p - HeaderSize \in Used(heap)
    BY <1>1 DEF Held
  <2>3. QED BY <2>1, <2>2
<1>4. \A p \in DOMAIN live : heap.chunk[p - HeaderSize].size >= live[p].size + HeaderSize
  BY <1>1 DEF Held
<1>5. heap_start \in Chunks(heap)
  BY <1>1 DEF Tiled
<1>6. QED BY <1>2, <1>3, <1>4, <1>5 DEF ChunksExact, Used

\* Through every mix of allocation, splitting, merging and reallocation the
\* headers tile the heap and the chunks in use are the blocks held, with room for
\* what was asked, until an assertion fails.
THEOREM ChunksStayExact == Spec => [](Running(heap) => ChunksExact)
<1>1. Init => Inv
  BY InitLemma
<1>2. Inv /\ [Next]_vars => Inv'
  BY StepLemma
<1>3. Inv => (Running(heap) => ChunksExact)
  BY InvImplies
<1>4. QED BY <1>1, <1>2, <1>3, PTL DEF Spec

\* utils/allocator.cpp keeps its promise: every block it hands out is aligned, in
\* the heap and apart from every block held, and only its own free or realloc
\* ends it.
THEOREM HeapIsImplemented == Spec => ImplementsHeap
<1>1. Init => Inv /\ Blocks!Init
  BY InitLemma
<1>2. Inv /\ [Next]_vars => Inv' /\ [Blocks!Next]_live
  BY StepLemma
<1>3. QED BY <1>1, <1>2, PTL DEF Spec, ImplementsHeap, Blocks!Spec
=============================================================================
