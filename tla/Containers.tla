----------------------------- MODULE Containers -----------------------------
(***************************************************************************)
(* std::vector, std::string (libcxx/include) and utils::BitVector, with    *)
(* the C string routines they use (libc/string.cpp), as one object in its  *)
(* heap block: obj.data are the cells of the block, what malloc leaves in  *)
(* them is Junk.  seq is the sequence the object stands for, kept beside   *)
(* it.  The constants replace the sizes in the code.                       *)
(***************************************************************************)
EXTENDS Integers, Sequences, FiniteSets, SequencesExt

CONSTANTS
  InitCapacity,       \* of a vector: 8
  kDefaultCapacity,   \* of a string: 8
  kDefaultSize,       \* the bits a BitVector holds without a heap block: 32
  CHAR_BIT,           \* 8
  Chars,              \* characters, and values of the items of a vector
  MaxLen,             \* bound on the length of vectors and strings
  MaxBits             \* bound on the length of BitVectors

ASSUME CapacityAssumption ==
  /\ InitCapacity \in Nat \ {0} /\ kDefaultCapacity \in Nat \ {0}
  /\ CHAR_BIT \in Nat \ {0} /\ kDefaultSize % CHAR_BIT = 0 /\ kDefaultSize > 0
  /\ Chars \subseteq Nat \ {0}

VARIABLES obj, seq, misused

cvars == <<obj, seq, misused>>

Junk == -1
NoObject == [kind |-> "none"]
max(a, b) == IF a > b THEN a ELSE b
min(a, b) == IF a < b THEN a ELSE b

-----------------------------------------------------------------------------
\* Blocks of memory and the routines of string.cpp on them.

malloc(n) == [i \in 0 .. n - 1 |-> Junk]
calloc(n) == [i \in 0 .. n - 1 |-> 0]
realloc(data, n) == [i \in 0 .. n - 1 |-> IF i \in DOMAIN data THEN data[i] ELSE Junk]

memset(data, at, value, n) ==
  [i \in DOMAIN data |-> IF i \in at .. at + n - 1 THEN value ELSE data[i]]

memcpy(data, at, src, from, n) ==
  [i \in DOMAIN data |-> IF i \in at .. at + n - 1 THEN src[from + i - at] ELSE data[i]]

\* Through a temporary copy.
memmove(data, at, from, n) == memcpy(data, at, data, from, n)

\* The length up to the first null character from at on; past the block when
\* there is none.
strlen(data, at) ==
  LET ends == {i \in DOMAIN data : i >= at /\ data[i] = 0}
  IN  (CHOOSE i \in ends \cup {Cardinality(DOMAIN data)} :
         \A j \in ends : i <= j) - at

\* The characters of a C string, and a C string for them.
c_str(data, at) == [k \in 1 .. strlen(data, at) |-> data[at + k - 1]]
Literal(s) == [i \in 0 .. Len(s) |-> IF i = Len(s) THEN 0 ELSE s[i + 1]]

\* strcmp(s1, s2) = 0: the first place where they differ or end.
strcmpEqual(a, b) ==
  LET stop == CHOOSE i \in DOMAIN a :
                /\ (a[i] = 0 \/ a[i] # b[i])
                /\ \A j \in 0 .. i - 1 : a[j] # 0 /\ a[j] = b[j]
  IN  a[stop] = b[stop]

-----------------------------------------------------------------------------
\* std::vector.

Vector(size, capacity, data) ==
  [kind |-> "vector", size |-> size, capacity |-> capacity, data |-> data]

\* The constructors from a range, an initializer list and another vector; the
\* first of them with an empty range is the default constructor.
VectorOf(items) ==
  LET capacity == max(InitCapacity, Len(items))
  IN  Vector(Len(items), capacity,
             memcpy(malloc(capacity), 0, [i \in 0 .. Len(items) - 1 |-> items[i + 1]],
                    0, Len(items)))

IncrementSize(v) ==
  LET grows == v.size + 1 > v.capacity
  IN  [v EXCEPT !.size = @ + 1,
                !.capacity = IF grows THEN 2 * @ ELSE @,
                !.data = IF grows THEN realloc(@, 2 * v.capacity) ELSE @]

Stored(v, i, x) == [v EXCEPT !.data = [j \in DOMAIN @ |-> IF j = i THEN x ELSE @[j]]]

VectorPushBack(v, x) == Stored(IncrementSize(v), v.size, x)

\* resize only grows, and constructs nothing in the new cells.
VectorResize(v, n) == FoldLeft(LAMBDA w, k : IncrementSize(w), v, [k \in 1 .. n - v.size |-> k])

\* What vfs::File::Write does with its vector: the size follows, and the bytes
\* are copied over what was there.
WriteItems(v, items) ==
  LET w == VectorResize(v, Len(items))
  IN  [w EXCEPT !.data = memcpy(@, 0, Literal(items), 0, Len(items))]

VectorFind(v, x) ==
  CHOOSE i \in 0 .. v.size :
    (i < v.size => v.data[i] = x) /\ \A j \in 0 .. i - 1 : v.data[j] # x

\* Mutant: the last item is not moved.
VectorEraseShort(v, i) ==
  IF i = v.size THEN v
  ELSE [v EXCEPT !.size = @ - 1, !.data = memmove(@, i, i + 1, v.size - (i + 2))]

\* Erasing end() does nothing.
VectorErase(v, i) ==
  IF i = v.size THEN v
  ELSE [v EXCEPT !.size = @ - 1, !.data = memmove(@, i, i + 1, v.size - (i + 1))]

Cells(o) == [k \in 1 .. o.size |-> o.data[k - 1]]

vector_push_back(x) ==
  /\ obj.kind = "vector" /\ Len(seq) < MaxLen
  /\ obj' = Stored(IncrementSize(obj), obj.size, x)
  /\ seq' = Append(seq, x)

vector_write(items) ==
  /\ obj.kind = "vector"
  /\ obj' = WriteItems(obj, items)
  /\ seq' = items \o SubSeq(seq, Len(items) + 1, Len(seq))

\* As in Task::RemoveChildTask, where the item may be missing here.
vector_erase(x) ==
  /\ obj.kind = "vector"
  /\ obj' = VectorErase(obj, VectorFind(obj, x))
  /\ seq' = RemoveFirst(seq, x)

vector_copy ==
  /\ obj.kind = "vector"
  /\ obj' = VectorOf(Cells(obj))
  /\ UNCHANGED seq

VectorNext ==
  /\ UNCHANGED misused
  /\ \/ \E x \in Chars : vector_push_back(x) \/ vector_erase(x)
     \/ \E items \in BoundedSeq(Chars, 2) : vector_write(items)
     \/ vector_copy

-----------------------------------------------------------------------------
\* std::string.  tail says that characters of an erased part may be left behind
\* the end.

\* The constructors.
StringOf(s) ==
  LET capacity == max(kDefaultCapacity, Len(s) + 1)
  IN  [kind |-> "string", size |-> Len(s), capacity |-> capacity, tail |-> FALSE,
       data |-> memcpy(calloc(capacity), 0, Literal(s), 0, Len(s))]

\* string(s, n) takes no more than n characters and no more than there are.
StringOfPrefix(data, at, n) ==
  StringOf(SubSeq(c_str(data, at), 1, min(n, strlen(data, at))))

StringPushBack(o, c) ==
  LET grows == o.size + 1 >= o.capacity
      block == IF grows THEN memset(realloc(o.data, 2 * o.capacity), o.size + 1, 0,
                                    2 * o.capacity - (o.size + 1))
               ELSE o.data
  IN  Stored([o EXCEPT !.size = @ + 1, !.capacity = IF grows THEN 2 * @ ELSE @,
                       !.data = block], o.size, c)

\* Mutant: no null character is written behind what remains.
StringEraseOpen(o, first, last) ==
  LET stop == min(last, o.size)
      remaining == o.size - stop
  IN  [o EXCEPT !.data = memmove(@, first, stop, remaining),
                !.size = @ - (stop - first), !.tail = TRUE]

\* erase(first, last) with first before the end; last may be past it.
StringErase(o, first, last) ==
  LET stop == min(last, o.size)
      remaining == o.size - stop
      moved == memmove(o.data, first, stop, remaining)
  IN  [o EXCEPT !.data = memset(moved, first + remaining, 0, 1),
                !.size = @ - (stop - first), !.tail = TRUE]

string_append(s) ==
  /\ obj.kind = "string" /\ Len(seq) + Len(s) <= MaxLen
  /\ obj' = FoldLeft(StringPushBack, obj, s)
  /\ seq' = seq \o s
  /\ misused' = obj.tail

string_erase(first, last) ==
  /\ obj.kind = "string" /\ first < obj.size /\ first < last
  /\ obj' = StringErase(obj, first, last)
  /\ seq' = SubSeq(seq, 1, first) \o SubSeq(seq, last + 1, Len(seq))
  /\ UNCHANGED misused

\* The copy constructor reads a C string, the one from iterators at most as
\* many characters as lie between them.
string_copy(first, last) ==
  /\ obj.kind = "string" /\ first <= obj.size /\ first <= last
  /\ obj' = StringOfPrefix(obj.data, first, last - first)
  /\ seq' = SubSeq(seq, first + 1, min(last, Len(seq)))
  /\ UNCHANGED misused

StringNext ==
  \/ \E s \in BoundedSeq(Chars, 2) \ {<<>>} : string_append(s)
  \/ \E first, last \in 0 .. MaxLen + 1 : string_erase(first, last) \/ string_copy(first, last)

-----------------------------------------------------------------------------
\* utils::BitVector.  Its cells are bits, those of buffer_ or of the heap block
\* buffer_ points to; capacity is in bytes.

Bytes == kDefaultSize \div CHAR_BIT
BytesNeeded(bits) == (bits \div CHAR_BIT) + (IF bits % CHAR_BIT = 0 THEN 0 ELSE 1)

IsPowerOf2(x) == \E k \in 0 .. x : 2 ^ k = x

\* By shifting x down to its highest bit, and that up again by one more.
NextPowOf2(x) ==
  IF x = 0 \/ IsPowerOf2(x) THEN x
  ELSE 2 * (CHOOSE p \in 1 .. x : IsPowerOf2(p) /\ x < 2 * p)

getCapacity(bits) ==
  IF BytesNeeded(bits) <= Bytes THEN Bytes ELSE 2 * NextPowOf2(BytesNeeded(bits))

onHeap(v) == v.capacity > Bytes

\* A block of n bytes from malloc or realloc, with old in its first bits.
BitBlock(n, old, junk) ==
  [i \in 0 .. n * CHAR_BIT - 1 |-> IF i \in DOMAIN old THEN old[i] ELSE junk]

\* BitVector(bits): a heap block comes as it is.
BitVectorOf(bits, junk) ==
  LET capacity == getCapacity(bits)
  IN  [kind |-> "bits", size |-> bits, capacity |-> capacity,
       data |-> BitBlock(capacity, <<>>, IF capacity > Bytes THEN junk ELSE 0)]

\* Mutant: the bits held in buffer_ do not move to the new block.
IncrementBitsDropped(v, junk) ==
  LET grows == BytesNeeded(v.size + 1) > v.capacity
  IN  [v EXCEPT !.size = @ + 1,
                !.capacity = IF grows THEN 2 * @ ELSE @,
                !.data = IF grows
                         THEN BitBlock(2 * v.capacity, IF onHeap(v) THEN @ ELSE <<>>, junk)
                         ELSE @]

IncrementBits(v, junk) ==
  LET grows == BytesNeeded(v.size + 1) > v.capacity
  IN  [v EXCEPT !.size = @ + 1,
                !.capacity = IF grows THEN 2 * @ ELSE @,
                !.data = IF grows THEN BitBlock(2 * v.capacity, @, junk) ELSE @]

\* In a heap block the bit becomes val.  In buffer_ it is or'ed with val: what
\* is masked out before is val itself.
BitSet(v, bit, val) ==
  Stored(v, bit, IF onHeap(v) THEN val ELSE max(v.data[bit], val))

\* A bit of buffer_ that is 1 and is to become 0.
ClearsInline(v, bit, val) == ~onHeap(v) /\ v.data[bit] = 1 /\ val = 0

get(v, bit) == v.data[bit]

\* getAs of a block: bit by bit up to size, the rest 0.
getAs(v) == {bit \in 0 .. v.size - 1 : v.data[bit] = 1}

bits_push_back(x, junk) ==
  /\ obj.kind = "bits" /\ Len(seq) < MaxBits
  /\ LET v == IncrementBits(obj, junk)
     IN  /\ obj' = BitSet(v, v.size - 1, x)
         /\ misused' = ClearsInline(v, v.size - 1, x)
  /\ seq' = Append(seq, x)

bits_pop_back ==
  /\ obj.kind = "bits" /\ obj.size > 0
  /\ obj' = [obj EXCEPT !.size = @ - 1]
  /\ seq' = Front(seq)
  /\ UNCHANGED misused

bits_set(bit, val) ==
  /\ obj.kind = "bits" /\ bit < obj.size
  /\ obj' = BitSet(obj, bit, val)
  /\ seq' = [seq EXCEPT ![bit + 1] = val]
  /\ misused' = ClearsInline(obj, bit, val)

BitsNext ==
  \/ \E x \in 0 .. 1, junk \in 0 .. 1 : bits_push_back(x, junk)
  \/ bits_pop_back
  \/ \E bit \in 0 .. MaxBits - 1, val \in 0 .. 1 : bits_set(bit, val)

-----------------------------------------------------------------------------
ContainersInit ==
  /\ misused = FALSE
  /\ \/ \E items \in BoundedSeq(Chars, InitCapacity + 1) :
          obj = VectorOf(items) /\ seq = items
     \/ \E s \in BoundedSeq(Chars, kDefaultCapacity) :
          obj = StringOf(s) /\ seq = s
     \/ \E bits \in 0 .. MaxBits, junk \in 0 .. 1 :
          obj = BitVectorOf(bits, junk) /\ seq = [k \in 1 .. bits |-> obj.data[k - 1]]

\* Once an object was used in a way the code does not support, nothing is said
\* of it.  Node::Dump (utils/vfs.cpp) uses its BitVector so.
ContainersNext == ~misused /\ (VectorNext \/ StringNext \/ BitsNext)

ContainersDone == misused \/ obj = NoObject

-----------------------------------------------------------------------------
\* A vector holds the items of the sequence in order after any mixture of
\* push_back with and without growth, File::Write (which never shortens it),
\* erase(find(x)) as RemoveChildTask does it, and copies.
VectorIsSequence == obj.kind = "vector" => Cells(obj) = seq

\* A string holds the characters of the sequence, and its C string, which is
\* what operator==, the copy constructor and printing read, ends where they end,
\* although push_back writes no null character; unless characters were appended
\* after an erase, which leaves old ones behind the end.
StringIsSequence ==
  obj.kind = "string" /\ ~misused =>
    /\ Cells(obj) = seq
    /\ c_str(obj.data, 0) = seq
    /\ \A s \in BoundedSeq(Chars, 2) : strcmpEqual(obj.data, Literal(s)) <=> (s = seq)

\* Every bit reads back as it was last set or pushed, across the move of the
\* bits from buffer_ to the heap, the growth of the block and pops; unless a 1 in
\* buffer_ was to become 0.
BitsAreSequence ==
  obj.kind = "bits" /\ ~misused =>
    /\ \A bit \in 0 .. obj.size - 1 : get(obj, bit) = seq[bit + 1]
    /\ onHeap(obj) => getAs(obj) = {bit \in 0 .. obj.size - 1 : seq[bit + 1] = 1}
=============================================================================
