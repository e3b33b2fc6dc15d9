------------------------------- MODULE Loader -------------------------------
(***************************************************************************)
(* system(cmd) of libc/system.cpp: the command line is split into words,   *)
(* LoadElfProgram (libc/elf.cpp) lays the file of that name out in memory  *)
(* and starts it with the words packed into one buffer, and pre-main.cpp   *)
(* of the new program unpacks them.  Memory is in words; a file is what    *)
(* the linker made of a program.  What the system calls do is in Programs. *)
(***************************************************************************)
EXTENDS Integers, Sequences, SequencesExt, FiniteSetsExt

CONSTANTS
  USER_START,   \* where a program begins, above every address in a file
  ARG_MAX,      \* entries of an argv array
  Linked,       \* what was linked: [pie, text, data, refs, pad, bss, gap]
  Commands      \* command lines, as sequences of characters

Space == 32
Letter == 97          \* the name of the one program in the file system
NUL == 0

ASSUME LoaderAssumption ==
  /\ USER_START \in Nat /\ ARG_MAX \in Nat
  /\ \A c \in Commands : \A k \in 1 .. Len(c) : c[k] \in Nat \ {NUL}

VARIABLE job

NoJob == [at |-> "none"]

-----------------------------------------------------------------------------
\* The linker.  A file has three loadable segments: the headers with the
\* relocations, the text, and the data followed by .bss, which takes no room in
\* the file.  In memory gap words lie between segments, and pad ones before .bss.

Code(i) == 2000 + i
Plain(i) == 3000 + i
Header == 4000
Other == 5000        \* what follows the data in the file: symbols, names
R_386_RELATIVE(at) == 6000 + at

base(p) == IF p.pie THEN 0 ELSE USER_START
relocs(p) == IF p.pie THEN SetToSortSeq(p.refs, <) ELSE <<>>
TextAt(p) == base(p) + 1 + Len(relocs(p)) + p.gap
DataAt(p) == TextAt(p) + p.text + p.gap
BssAt(p) == DataAt(p) + p.data + p.pad

\* A word of the data that refers to the text holds its link-time address.
DataWord(p, i) == IF i \in p.refs THEN TextAt(p) ELSE Plain(i)

Elf32_Phdr(type, offset, vaddr, memsz) ==
  [p_type |-> type, p_offset |-> offset, p_vaddr |-> vaddr, p_memsz |-> memsz]

Elf32_Shdr(name, addr, size) == [name |-> name, sh_addr |-> addr, sh_size |-> size]

\* An ELF file; a dynamic section only in a position independent program, with
\* DT_REL and DT_RELSZ only if there are relocations.
Link(p) ==
  LET rels == relocs(p)
      words == <<Header>> \o [k \in 1 .. Len(rels) |-> R_386_RELATIVE(DataAt(p) + rels[k])]
               \o [i \in 1 .. p.text |-> Code(i)]
               \o [i \in 1 .. p.data |-> DataWord(p, i - 1)]
      load(offset, vaddr, memsz) == Elf32_Phdr("PT_LOAD", offset, vaddr, memsz)
  IN  [magic |-> TRUE, words |-> words, e_entry |-> TextAt(p),
       phdr |-> <<Elf32_Phdr("PT_PHDR", 0, base(p), 1),
                  load(0, base(p), 1 + Len(rels)),
                  load(1 + Len(rels), TextAt(p), p.text),
                  load(1 + Len(rels) + p.text, DataAt(p), p.data + p.pad + p.bss)>>
                \o IF p.pie THEN <<Elf32_Phdr("PT_DYNAMIC", 0, base(p), 0)>> ELSE <<>>,
       DT_REL |-> IF rels = <<>> THEN 0 ELSE base(p) + 1, DT_RELSZ |-> Len(rels),
       shdr |-> IF p.bss = 0 THEN <<>>
                ELSE <<Elf32_Shdr(".bss", BssAt(p), p.bss)>>]

NotElf == [magic |-> FALSE]

WordAt(file, offset) ==
  IF offset < Len(file.words) THEN file.words[offset + 1] ELSE Other

-----------------------------------------------------------------------------
\* Words of a command line.

isspace(c) == c = Space

\* Mutant: parsing_arg stays set after the space that ends an argument.
NextCharOpen(s, c) ==
  IF isspace(c)
  THEN [s EXCEPT !.argv_buffer = IF s.parsing_arg THEN Append(@, NUL) ELSE @]
  ELSE [s EXCEPT !.argv = IF s.parsing_arg THEN @ ELSE Append(@, Len(s.argv_buffer)),
                 !.argv_buffer = Append(@, c), !.parsing_arg = TRUE]

\* One turn of the loop of ArgvFromArgString.
NextChar(s, c) ==
  IF isspace(c)
  THEN [s EXCEPT !.argv_buffer = IF s.parsing_arg THEN Append(@, NUL) ELSE @,
                 !.parsing_arg = FALSE]
  ELSE [s EXCEPT !.argv = IF s.parsing_arg THEN @ ELSE Append(@, Len(s.argv_buffer)),
                 !.argv_buffer = Append(@, c), !.parsing_arg = TRUE]

\* argv has the offset of each argument in argv_buffer, which has what is written.
ArgvFromArgString(argstr) ==
  LET s == FoldLeft(NextChar, [argv_buffer |-> <<>>, argv |-> <<>>, parsing_arg |-> FALSE],
                    argstr)
  IN  [argv |-> s.argv, argv_buffer |-> Append(s.argv_buffer, NUL)]

\* The C string at an offset of a buffer.
StringAt(buffer, offset) ==
  LET end == Min({k \in offset .. Len(buffer) - 1 : buffer[k + 1] = NUL} \cup {Len(buffer)})
  IN  SubSeq(buffer, offset + 1, end)

Arguments(s) == [k \in 1 .. Len(s.argv) |-> StringAt(s.argv_buffer, s.argv[k])]

PackArgv(args) == FoldLeft(LAMBDA packed, arg : packed \o arg \o <<NUL>>, <<>>, args)

packed_argv_size(args) == FoldLeft(LAMBDA n, arg : n + Len(arg) + 1, 0, args)

UnpackArgv(size, packed) ==
  LET from[i \in 0 .. size] ==
        IF i >= size THEN <<>>
        ELSE LET arg == StringAt(packed, i) IN <<arg>> \o from[i + Len(arg) + 1]
  IN  from[0]

-----------------------------------------------------------------------------
\* LoadElfProgram.

Loadable(file) == {i \in DOMAIN file.phdr : file.phdr[i].p_type = "PT_LOAD"}
first_loadable_segment(file) == file.phdr[Min(Loadable(file))]
last_loadable_segment(file) == file.phdr[Max(Loadable(file))]

\* The assertions before anything is allocated.
FileIsAccepted(file) ==
  /\ file.magic
  /\ LET first == first_loadable_segment(file)
         last == last_loadable_segment(file)
     IN  /\ last.p_vaddr >= first.p_vaddr
         /\ first.p_vaddr <= file.e_entry /\ file.e_entry < last.p_vaddr + last.p_memsz

loadable_segment_span(file) ==
  last_loadable_segment(file).p_vaddr + last_loadable_segment(file).p_memsz
    - first_loadable_segment(file).p_vaddr

\* Where the file has the word of a virtual address.
get_offset_bias(file, vaddr) ==
  LET has == {i \in DOMAIN file.phdr : /\ file.phdr[i].p_vaddr <= vaddr
                                       /\ vaddr < file.phdr[i].p_vaddr + file.phdr[i].p_memsz}
      segment == file.phdr[Min(has)]
  IN  segment.p_offset + (vaddr - segment.p_vaddr)

\* memcpy of p_memsz words, those behind the end of the segment in the file
\* included.
CopySegment(file, image, segment) ==
  LET to == segment.p_vaddr - first_loadable_segment(file).p_vaddr
  IN  [a \in DOMAIN image |->
         IF a \in to .. to + segment.p_memsz - 1
         THEN WordAt(file, segment.p_offset + a - to) ELSE image[a]]

IsRelative(word) == word \in 6000 .. 6999
r_offset(word) == word - 6000

\* The relocations of one type the loader knows; others are reported and left.
Relocate(file, image) ==
  LET table == get_offset_bias(file, file.DT_REL)
      words == {WordAt(file, table + i) : i \in 0 .. file.DT_RELSZ - 1}
      places == {r_offset(w) : w \in {v \in words : IsRelative(v)}}
  IN  [a \in DOMAIN image |-> IF a \in places THEN image[a] + USER_START ELSE image[a]]

\* Mutant: .bss begins where the file ends, whatever its section header says.
ClearBssAtEnd(file, image) ==
  LET last == last_loadable_segment(file)
      from == last.p_vaddr - first_loadable_segment(file).p_vaddr
              + Len(file.words) - last.p_offset
      size == IF file.shdr = <<>> THEN 0 ELSE file.shdr[1].sh_size
  IN  [a \in DOMAIN image |-> IF a \in from .. from + size - 1 THEN 0 ELSE image[a]]

ClearBss(file, image) ==
  LET bss == {i \in DOMAIN file.shdr : file.shdr[i].name = ".bss"}
  IN  IF bss = {} THEN image
      ELSE LET hdr == file.shdr[Min(bss)]
               from == hdr.sh_addr - first_loadable_segment(file).p_vaddr
           IN  [a \in DOMAIN image |->
                  IF a \in from .. from + hdr.sh_size - 1 THEN 0 ELSE image[a]]

-----------------------------------------------------------------------------
\* The steps of system.  job.at is the place in the code, or how it ended.

Aborts == job' = [job EXCEPT !.at = "aborted"]

\* Splitting asserts that a byte nobody has written yet is not 0.
system ==
  /\ job.at = "system"
  /\ LET s == ArgvFromArgString(job.cmd)
         args == Arguments(s)
     IN  \/ /\ job' = [job EXCEPT !.at = IF args = <<>> THEN "returned 0"
                                        ELSE IF args[1] # <<Letter>> THEN "returned -1"
                                        ELSE "found",
                                  !.argv = args, !.buffer = s.argv_buffer]
         \/ args # <<>> /\ job' = [job EXCEPT !.at = "unwritten"]

AllocateAndCopy ==
  /\ job.at = "found"
  /\ IF FileIsAccepted(job.file)
     THEN LET zeros == [a \in 0 .. loadable_segment_span(job.file) - 1 |-> 0]
              parts == SelectSeq(job.file.phdr, LAMBDA h : h.p_type = "PT_LOAD")
              copy(image, segment) == CopySegment(job.file, image, segment)
          IN  job' = [job EXCEPT !.at = "copied", !.image = FoldLeft(copy, zeros, parts)]
     ELSE Aborts

ApplyRelocations ==
  /\ job.at = "copied"
  /\ LET dynamic == \E i \in DOMAIN job.file.phdr : job.file.phdr[i].p_type = "PT_DYNAMIC"
     IN  IF dynamic /\ (job.file.DT_REL = 0 \/ job.file.DT_RELSZ = 0) THEN Aborts
         ELSE job' = [job EXCEPT !.at = "relocated",
                                 !.image = IF dynamic THEN Relocate(job.file, @) ELSE @]

InitializeBss ==
  /\ job.at = "relocated"
  /\ job' = [job EXCEPT !.at = "laid out", !.image = ClearBss(job.file, @)]

\* The arguments are packed, and the image goes to USER_START of a new task.
CreateTask ==
  /\ job.at = "laid out"
  /\ job' = [job EXCEPT
       !.at = "started",
       !.packed = PackArgv(job.argv),
       !.entry = USER_START + job.file.e_entry - first_loadable_segment(job.file).p_vaddr]

\* In the new task.
pre_main ==
  /\ job.at = "started"
  /\ job' = [job EXCEPT !.at = "main",
                        !.child_argv = UnpackArgv(packed_argv_size(job.argv), job.packed)]

\* The program ends, DestroyTask returns.
DestroyTask ==
  /\ job.at = "main"
  /\ job' = [job EXCEPT !.at = "returned 0"]

LoaderInit ==
  \E cmd \in Commands, elf \in BOOLEAN :
    \E p \in IF cmd = <<Letter>> THEN Linked ELSE {CHOOSE q \in Linked : q.refs # {}} :
      job = [at |-> "system", cmd |-> cmd, prog |-> p,
             file |-> IF elf THEN Link(p) ELSE NotElf,
             argv |-> <<>>, buffer |-> <<>>, image |-> <<>>, packed |-> <<>>,
             entry |-> 0, child_argv |-> <<>>]

LoaderNext ==
  \/ system \/ AllocateAndCopy \/ ApplyRelocations \/ InitializeBss
  \/ CreateTask \/ pre_main \/ DestroyTask

LoaderDone ==
  job.at \in {"none", "returned 0", "returned -1", "aborted", "unwritten"}

-----------------------------------------------------------------------------
\* The words of a command line: its longest stretches without a space.
Words(cmd) ==
  LET begins == {i \in DOMAIN cmd : ~isspace(cmd[i]) /\ (i = 1 \/ isspace(cmd[i - 1]))}
      end(i) == Max({j \in i .. Len(cmd) : \A k \in i .. j : ~isspace(cmd[k])})
      starts == SetToSortSeq(begins, <)
  IN  [k \in DOMAIN starts |-> SubSeq(cmd, starts[k], end(starts[k]))]

Running == job.at \in {"started", "main"}

\* When LoadElfProgram has started a program, every word of every section is in
\* its place from USER_START on: the text, the data with each reference to the
\* text pointing to where the text now is, and .bss all zero although the copy of
\* the last segment ran on into the rest of the file; and it starts at its entry.
\* The only files it gives up on are those that are no ELF files and position
\* independent programs without any relocation.
ProgramIsLoaded ==
  /\ Running =>
       LET p == job.prog
           mem(vaddr) == job.image[vaddr - base(p)]
           moved == TextAt(p) - base(p) + USER_START
       IN  /\ \A i \in 1 .. p.text : mem(TextAt(p) + i - 1) = Code(i)
           /\ \A i \in 0 .. p.data - 1 :
                mem(DataAt(p) + i) = IF i \in p.refs THEN moved ELSE Plain(i)
           /\ \A i \in 0 .. p.bss - 1 : mem(BssAt(p) + i) = 0
           /\ job.entry = moved
  /\ job.at = "aborted" => job.file = NotElf \/ (job.prog.pie /\ job.prog.refs = {})

\* main of the new program gets the words of the command line, in order, after
\* splitting (ArgvFromArgString), packing (PackArgv) and unpacking (UnpackArgv).
\* On the way, splitting writes no more than the strlen(cmd) + 1 bytes of
\* argv_buffer, and packing exactly the packed_argv_size bytes that the new
\* program copies and scans.
ArgumentsArrive ==
  /\ job.at = "main" => job.child_argv = Words(job.cmd)
  /\ job.at # "none" => Len(job.buffer) <= Len(job.cmd) + 1 /\ Len(job.argv) < ARG_MAX
  /\ Running => Len(job.packed) = packed_argv_size(job.argv)
=============================================================================
