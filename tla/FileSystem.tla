----------------------------- MODULE FileSystem -----------------------------
(***************************************************************************)
(* The file system of the user programs (utils/vfs.cpp, vfs.h): a tree of  *)
(* nodes built from a USTAR archive, looked up by path, and listed by      *)
(* opendir and readdir (libc/opendir.cpp).                                 *)
(*                                                                         *)
(* A path is a sequence of tokens: "/", ".", a space, or a name, which     *)
(* stands for a run of other characters.  The tree is a sequence of nodes  *)
(* in the order of their creation; a pointer to a node is its index, and   *)
(* the null pointer is 0.  A failed assertion ends the program.            *)
(*                                                                         *)
(* tar writes the prefix of a header only when a path is too long for its  *)
(* name; the paths considered are not, so every prefix is empty.           *)
(***************************************************************************)
EXTENDS Naturals, FiniteSets, SequencesExt

CONSTANTS
  kTarBlockSize,  \* bytes in a block of the archive (512 in the code)
  kSizeDigits,    \* octal digits of a size in a header (11 in the code)
  Archives,       \* the archives considered, as sequences of members
  NewDirs,        \* paths programs make directories at
  NewFiles,       \* paths programs make files at
  Writes,         \* what programs write to a file
  kMaxNodes       \* how many nodes there may be before programs stop adding

ASSUME BlockAssumption == kTarBlockSize \in Nat \ {0} /\ kSizeDigits \in Nat \ {0}

Null == 0
Root == 1

-----------------------------------------------------------------------------
(* Paths *)

\* InplaceLStrip and InplaceRStrip.
Strip(s) ==
  LET I == {i \in DOMAIN s : s[i] # " "}
  IN  IF I = {} THEN <<>> ELSE SubSeq(s, Min(I), Max(I))

\* The position of the first separator, one past the end if there is none.
find(s) == Min({i \in DOMAIN s : s[i] = "/"} \cup {Len(s) + 1})

DropFirst(s, n) == SubSeq(s, n + 1, Len(s))

\* Without the "./" it starts with.
DropDot(s) == IF Len(s) >= 2 /\ s[1] = "." /\ s[2] = "/" THEN DropFirst(s, 2) ELSE s

\* Without the separator it ends with, if that is the only one and not all of it.
DropEnd(s) == IF s # <<"/">> /\ s # <<>> /\ find(s) = Len(s) THEN Front(s) ELSE s

\* Mutant: the separator at the end of a directory's name is kept.
SimplifyKeepEnd(path) == DropDot(Strip(path))

SimplifyName(path) == DropEnd(DropDot(Strip(path)))

\* The uppermost directory of a path, and the rest.
SplitHead(path) ==
  IF path[1] = "/" THEN [head |-> <<"/">>, tail |-> Tail(path)]
  ELSE [head |-> SubSeq(path, 1, find(path) - 1), tail |-> DropFirst(path, find(path))]

-----------------------------------------------------------------------------
(* Look-up *)

NewNode(kind, name, parent) ==
  [kind |-> kind, name |-> name, parent |-> parent, nodes |-> <<>>, contents |-> <<>>]

RECURSIVE GetRootDir(_, _), GetNodeImpl(_, _, _), GetBelow(_, _, _)

GetRootDir(fs, node) ==
  IF fs[node].parent = Null THEN node ELSE GetRootDir(fs, fs[node].parent)

\* The first node of that name in the directory.
Named(fs, dir, name) ==
  LET nodes == fs[dir].nodes
      I == {i \in DOMAIN nodes : SimplifyName(fs[nodes[i]].name) = name}
  IN  IF I = {} THEN Null ELSE nodes[Min(I)]

\* A node if it is of that kind: rtti::dyn_cast_or_null.
dyn_cast(fs, node, kind) ==
  IF node # Null /\ fs[node].kind = kind THEN node ELSE Null

\* The node at a path that is split at its uppermost directory.
GetSplit(fs, dir, split) ==
  IF split.head = <<"/">> THEN GetNodeImpl(fs, GetRootDir(fs, dir), split.tail)
  ELSE IF split.tail = <<>> THEN Named(fs, dir, split.head)
  ELSE GetBelow(fs, dyn_cast(fs, GetNodeImpl(fs, dir, split.head), "dir"), split.tail)

GetSimplified(fs, dir, name) ==
  CASE name = <<>>    -> Null
    [] name = <<".">> -> dir
    [] name = <<"/">> -> GetRootDir(fs, dir)
    [] OTHER          -> GetSplit(fs, dir, SplitHead(name))

GetNodeImpl(fs, dir, path) == GetSimplified(fs, dir, SimplifyName(path))

\* The rest of a path, from the directory at its head if there is one.
GetBelow(fs, dir, tail) == IF dir = Null THEN Null ELSE GetNodeImpl(fs, dir, tail)

getDir(fs, dir, path) == dyn_cast(fs, GetNodeImpl(fs, dir, path), "dir")
getFile(fs, dir, path) == dyn_cast(fs, GetNodeImpl(fs, dir, path), "file")

-----------------------------------------------------------------------------
(* Making nodes.  An operation under way has the tree, the directory it has  *)
(* come to, what is left of the path and whether an assertion failed.        *)

\* node becomes the last one of directory dir.
PushBack(r, dir, node) ==
  [r EXCEPT !.fs = Append([@ EXCEPT ![dir].nodes = Append(@, Len(r.fs) + 1)], node),
            !.at = Len(r.fs) + 1]

\* Mutant: a directory that is there already is made again.
mkdir_always(r, path) ==
  PushBack(r, r.at, NewNode("dir", SimplifyName(path), r.at))

\* node is what is at the simple name, if anything is.
EnterOrMake(r, name, node) ==
  IF node = Null THEN PushBack(r, r.at, NewNode("dir", name, r.at))
  ELSE IF r.fs[node].kind # "dir" THEN [r EXCEPT !.failed = TRUE]
  ELSE [r EXCEPT !.at = node]

mkdir_once(r, path) ==
  IF r.failed THEN r
  ELSE EnterOrMake(r, SimplifyName(path), GetNodeImpl(r.fs, r.at, SimplifyName(path)))

RECURSIVE Descend(_, _)

\* The loop of mkdir and mkfile over the directories of path, which leaves the
\* rest of it.
Descend(r, path) ==
  IF find(path) > Len(path) THEN [r EXCEPT !.rest = path]
  ELSE Descend(mkdir_once(r, SubSeq(path, 1, find(path))), DropFirst(path, find(path)))

Start(fs, dir) == [fs |-> fs, at |-> dir, rest |-> <<>>, failed |-> FALSE]

MakeLast(r) == IF r.rest = <<>> THEN r ELSE mkdir_once(r, r.rest)

mkdir(fs, dir, path) == MakeLast(Descend(Start(fs, dir), SimplifyName(path)))

\* The file's parent is the directory mkfile was called on, wherever it goes.
MakeFileAt(r, dir) ==
  IF r.rest = <<>> \/ r.failed THEN [r EXCEPT !.failed = TRUE]
  ELSE PushBack(r, r.at, NewNode("file", r.rest, dir))

\* A path that is empty or starts at the root fails an assertion.
mkfile(fs, dir, path) ==
  IF SimplifyName(path) = <<>> \/ SimplifyName(path)[1] = "/"
  THEN [Start(fs, dir) EXCEPT !.failed = TRUE]
  ELSE MakeFileAt(Descend(Start(fs, dir), SimplifyName(path)), dir)

\* The data goes to the start of the file, which never gets shorter.
Write(fs, file, data) ==
  [fs EXCEPT ![file].contents = data \o DropFirst(@, Len(data))]

-----------------------------------------------------------------------------
(* The archive, as tar lays it out: for each member a header and its data in *)
(* whole blocks, then two blocks of zeros.                                   *)

Zeros(n) == [i \in 1..n |-> 0]

Octal(n) == [i \in 1..kSizeDigits |-> (n \div 8^(kSizeDigits - i)) % 8]

Chunks(data) ==
  LET n      == (Len(data) + kTarBlockSize - 1) \div kTarBlockSize
      padded == data \o Zeros(n * kTarBlockSize - Len(data))
  IN  [i \in 1..n |->
         [data |-> SubSeq(padded, (i - 1) * kTarBlockSize + 1, i * kTarBlockSize)]]

\* No blocks follow a directory's header, whatever its size says.
Blocks(m) ==
  <<[type |-> m.type, prefix |-> <<>>, name |-> m.name, size |-> Octal(Len(m.data))]>>
    \o IF m.type = "dir" THEN <<>> ELSE Chunks(m.data)

Tar(members) ==
  FlattenSeq([i \in DOMAIN members |-> Blocks(members[i])])
    \o <<[data |-> Zeros(kTarBlockSize)], [data |-> Zeros(kTarBlockSize)]>>

IsHeader(block) == "type" \in DOMAIN block

getFullPath(header) == header.prefix \o header.name

oct2bin(digits) == FoldLeft(LAMBDA n, c : n * 8 + c, 0, digits)

IsZeroPage(block) == ~IsHeader(block) /\ block.data = Zeros(kTarBlockSize)

\* Mutant: one block too many for data that fills its last one.
num_chunks_over(filesize) == filesize \div kTarBlockSize + 1

num_chunks(filesize) ==
  IF filesize % kTarBlockSize # 0 THEN filesize \div kTarBlockSize + 1
  ELSE filesize \div kTarBlockSize

\* The bytes from the start of a block on.
BytesAt(archive, tar, size) ==
  [k \in 1..size |-> archive[tar + (k - 1) \div kTarBlockSize].data[((k - 1) % kTarBlockSize) + 1]]

-----------------------------------------------------------------------------
(* A program: it parses the archive, then makes and lists directories.       *)

VARIABLES
  archive,  \* the blocks of the archive
  tar,      \* the block IterateUSTAR has come to
  fs,       \* the tree
  phase,    \* "parsing", "running", or "failed" for good
  dirp,     \* the open DIR: its dirname and entry_num
  listed,   \* what readdir returned for it so far (history)
  made      \* what the tree should hold: kind and contents by path (history)

fsvars == <<archive, tar, fs, phase, dirp, listed, made>>

FileSystemInit ==
  /\ \E members \in Archives : archive = Tar(members)
  /\ tar = 1
  /\ fs = <<NewNode("dir", <<"/">>, Null)>>
  /\ phase = "parsing"
  /\ dirp = [dirname |-> <<>>, entry_num |-> 0]
  /\ listed = <<>>
  /\ made = (<<>> :> [kind |-> "dir", contents |-> <<>>])

\* No program that uses the file system runs.
NoFileSystem ==
  /\ archive = <<>> /\ tar = 0
  /\ fs = <<NewNode("dir", <<"/">>, Null)>>
  /\ phase = "none"
  /\ dirp = [dirname |-> <<>>, entry_num |-> 0]
  /\ listed = <<>>
  /\ made = (<<>> :> [kind |-> "dir", contents |-> <<>>])

\* The names of a path, which tell what node it is about.
Names(path) == SelectSeq(path, LAMBDA x : x \notin {"/", ".", " "})

\* The node at path, and every directory above it that is not there yet.
Making(path, kind, contents) ==
  LET names == Names(path)
      above == {SubSeq(names, 1, n) : n \in 0..(Len(names) - 1)}
  IN  made @@ (names :> [kind |-> kind, contents |-> contents])
           @@ [p \in above |-> [kind |-> "dir", contents |-> <<>>]]

\* r is the outcome of an operation that is to make a node at path.
Outcome(r, path, kind, contents) ==
  IF r.failed THEN phase' = "failed" /\ UNCHANGED <<fs, made>>
  ELSE /\ fs' = IF kind = "file" THEN Write(r.fs, r.at, contents) ELSE r.fs
       /\ made' = Making(path, kind, contents)
       /\ UNCHANGED phase

\* IterateUSTAR at a directory's header.
OnDir ==
  /\ phase = "parsing" /\ IsHeader(archive[tar]) /\ archive[tar].type = "dir"
  /\ oct2bin(archive[tar].size) = 0
  /\ LET path == getFullPath(archive[tar])
     IN  Outcome(mkdir(fs, Root, path), path, "dir", <<>>)
  /\ tar' = tar + 1
  /\ UNCHANGED <<archive, dirp, listed>>

\* IterateUSTAR at a file's header.
OnFile ==
  /\ phase = "parsing" /\ IsHeader(archive[tar]) /\ archive[tar].type = "file"
  /\ oct2bin(archive[tar].size) > 0
  /\ LET path     == getFullPath(archive[tar])
         filesize == oct2bin(archive[tar].size)
     IN  /\ Outcome(mkfile(fs, Root, path), path, "file", BytesAt(archive, tar + 1, filesize))
         /\ tar' = tar + 1 + num_chunks(filesize)
  /\ UNCHANGED <<archive, dirp, listed>>

AtEnd == IsZeroPage(archive[tar]) /\ IsZeroPage(archive[tar + 1])

\* A header whose size IterateUSTAR does not accept: a directory's that is not
\* zero, or an empty file's.
BadSize(header) == (header.type = "dir") # (oct2bin(header.size) = 0)

\* The assertions of IterateUSTAR: no header where one is due, a bad size.
BadBlock ==
  /\ phase = "parsing"
  /\ \/ ~IsHeader(archive[tar]) /\ ~AtEnd
     \/ IsHeader(archive[tar]) /\ BadSize(archive[tar])
  /\ phase' = "failed"
  /\ UNCHANGED <<archive, tar, fs, dirp, listed, made>>

ParsingDone ==
  /\ phase = "parsing" /\ ~IsHeader(archive[tar]) /\ AtEnd
  /\ phase' = "running"
  /\ UNCHANGED <<archive, tar, fs, dirp, listed, made>>

\* A program makes a directory, which may be there already.  Nothing is made
\* during a listing: the tree opendir lists is const to the program.
MakeDir(path) ==
  /\ phase = "running" /\ Len(fs) < kMaxNodes /\ dirp.dirname = <<>>
  /\ Outcome(mkdir(fs, Root, path), path, "dir", <<>>)
  /\ UNCHANGED <<archive, tar, dirp, listed>>

\* A program makes a file where there is nothing, as mkfile does not look.
MakeFile(path) ==
  /\ phase = "running" /\ Len(fs) < kMaxNodes /\ dirp.dirname = <<>>
  /\ Names(path) \notin DOMAIN made
  /\ Outcome(mkfile(fs, Root, path), path, "file", <<>>)
  /\ UNCHANGED <<archive, tar, dirp, listed>>

\* A program writes to a file.
WriteFile(path, data) ==
  /\ phase = "running" /\ dirp.dirname = <<>> /\ getFile(fs, Root, path) # Null
  /\ fs' = Write(fs, getFile(fs, Root, path), data)
  /\ made' = [made EXCEPT ![Names(path)].contents = data \o DropFirst(@, Len(data))]
  /\ UNCHANGED <<archive, tar, phase, dirp, listed>>

opendir(dirname) ==
  /\ phase = "running" /\ dirp.dirname = <<>>
  /\ getDir(fs, Root, dirname) # Null
  /\ dirp' = [dirname |-> dirname, entry_num |-> 0]
  /\ listed' = <<>>
  /\ UNCHANGED <<archive, tar, fs, phase, made>>

\* Mutant: the entry after the one that is due.
EntryAfter(nodes, entry_num) == nodes[IF entry_num + 2 > Len(nodes) THEN 1 ELSE entry_num + 2]

Entry(nodes, entry_num) == nodes[entry_num + 1]

\* readdir, while it has something to return.
readdir ==
  /\ phase = "running" /\ dirp.dirname # <<>>
  /\ LET nodes == fs[getDir(fs, Root, dirp.dirname)].nodes
     IN  /\ dirp.entry_num < Len(nodes)
         /\ listed' = Append(listed, fs[Entry(nodes, dirp.entry_num)].name)
  /\ dirp' = [dirp EXCEPT !.entry_num = @ + 1]
  /\ UNCHANGED <<archive, tar, fs, phase, made>>

\* ls closes the directory once readdir has returned null.
closedir ==
  /\ phase = "running" /\ dirp.dirname # <<>>
  /\ dirp.entry_num >= Len(fs[getDir(fs, Root, dirp.dirname)].nodes)
  /\ dirp' = [dirname |-> <<>>, entry_num |-> 0]
  /\ listed' = <<>>
  /\ UNCHANGED <<archive, tar, fs, phase, made>>

FileSystemNext ==
  \/ OnDir \/ OnFile \/ BadBlock \/ ParsingDone
  \/ \E path \in NewDirs : MakeDir(path) \/ opendir(path)
  \/ \E path \in NewFiles : MakeFile(path) \/ \E data \in Writes : WriteFile(path, data)
  \/ readdir \/ closedir

\* No program runs, or it has ended with a message.
FileSystemDone == phase \in {"none", "failed"}

-----------------------------------------------------------------------------
(* Properties *)

InUse == phase # "none"

Dirs == {n \in DOMAIN fs : fs[n].kind = "dir"}

RECURSIVE PathOf(_)

\* The names on the way from the root to a node, along the directories that hold
\* it.
PathOf(n) ==
  IF n = Root THEN <<>>
  ELSE PathOf(CHOOSE d \in Dirs : n \in Range(fs[d].nodes)) \o fs[n].name

\* Every node but the root is in exactly one directory, once; a directory's
\* parent is the one that holds it, so GetRootDir finds the root from everywhere.
IsTree ==
  /\ \A n \in DOMAIN fs \ {Root} :
       Cardinality({e \in Dirs \X (1..Len(fs)) :
                      e[2] \in DOMAIN fs[e[1]].nodes /\ fs[e[1]].nodes[e[2]] = n}) = 1
  /\ \A d \in Dirs \ {Root} : d \in Range(fs[fs[d].parent].nodes)
  /\ \A d \in Dirs : GetRootDir(fs, d) = Root

\* However the members of the archive are ordered and whatever programs add, the
\* nodes form a tree with the root above all, and it has one node for each path
\* that was made and for each directory above it, of the right kind and with the
\* right bytes, and no other node.
TreeIsWhatWasMade ==
  InUse =>
    /\ IsTree
    /\ Cardinality(DOMAIN made) = Len(fs)
    /\ \A n \in DOMAIN fs :
         PathOf(n) \in DOMAIN made /\ made[PathOf(n)] = [kind |-> fs[n].kind, contents |-> fs[n].contents]

\* Ways to write the path with these names, from the root.
Spellings(names, kind) ==
  LET plain == FlattenSeq([i \in DOMAIN names |-> IF i = 1 THEN <<names[i]>> ELSE <<"/", names[i]>>])
  IN  {plain, <<"/">> \o plain, <<".", "/">> \o plain, <<" ">> \o plain \o <<" ">>}
        \cup (IF kind = "dir" THEN {plain \o <<"/">>, <<"/">> \o plain \o <<"/", " ">>} ELSE {})

\* getNode finds a node by every spelling of its path, and by its own name from
\* the directory it is in; it finds nothing at a path that was not made.
LookupIsExact ==
  InUse =>
    /\ \A n \in DOMAIN fs \ {Root} :
         /\ \A path \in Spellings(PathOf(n), fs[n].kind) : GetNodeImpl(fs, Root, path) = n
         /\ \A d \in Dirs : n \in Range(fs[d].nodes) => GetNodeImpl(fs, d, fs[n].name) = n
    /\ \A path \in NewDirs \cup NewFiles :
         Names(path) \notin DOMAIN made => GetNodeImpl(fs, Root, path) = Null

\* While it parses, IterateUSTAR is at a member's header or at the end marker,
\* never in a file's data, even if the data is all zeros; and it fails only on an
\* archive with an empty file or with a directory that is given a size.
ParsesMembers ==
  /\ phase = "parsing" => IsHeader(archive[tar]) \/ (tar = Len(archive) - 1 /\ AtEnd)
  /\ phase = "failed" =>
       \E i \in DOMAIN archive :
         IsHeader(archive[i]) /\ (archive[i].type = "file") = (archive[i].size = Zeros(kSizeDigits))

\* A listing has returned the first entry_num names of the directory, each once,
\* in the order they were made.
ListingIsExact ==
  dirp.dirname # <<>> =>
    LET nodes == fs[getDir(fs, Root, dirp.dirname)].nodes
    IN  listed = [i \in 1..dirp.entry_num |-> fs[nodes[i]].name]
=============================================================================
