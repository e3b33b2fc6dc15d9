----------------------------- MODULE MCLibrary -----------------------------
(***************************************************************************)
(* One use of the user library at a time: of a container, of the file      *)
(* system, a calculation, or the loading of a program.                     *)
(***************************************************************************)
EXTENDS Containers, Numbers, Loader, FileSystem

\* Link inputs: the shapes that differ in relocations, padding and .bss.
MCLinked ==
  {p \in [pie : BOOLEAN, text : {1, 2}, data : {0, 2}, refs : SUBSET {0, 1},
          pad : {0, 1}, bss : {0, 2}, gap : {0, 1}] :
     p.data = 0 => p.refs = {}}

MCCommands == BoundedSeq({Space, Letter, Letter + 1}, 5)

(* Archives of up to three members of one directory tree, in any order, with  *)
(* files of one whole block, all zeros, and longer than a block.              *)

Dir(name, size) == [type |-> "dir", name |-> name, data |-> Zeros(size)]
File(name, n, byte) == [type |-> "file", name |-> name, data |-> [i \in 1..n |-> byte]]

Members ==
  {Dir(<<".", "/">>, 0), Dir(<<".", "/", "a", "/">>, 0), Dir(<<".", "/", "a", "/", "b", "/">>, 0),
   Dir(<<".", "/", "d", "/">>, 1),
   File(<<".", "/", "a", "/", "b", "/", "c">>, 9, 1),
   File(<<".", "/", "c">>, 8, 0), File(<<".", "/", "c">>, 9, 1), File(<<".", "/", "e">>, 0, 0)}

MCArchives ==
  {ms \in SeqOf(Members, 3) : \A i, j \in DOMAIN ms : i # j => ms[i].name # ms[j].name}

MCNewDirs == {<<"/">>, <<" ", "/", "a", "/", "b", "/", " ">>}
MCNewFiles == {<<"a", "/", "c">>}
MCWrites == {<<1, 1>>}

vars == <<cvars, calc, job, fsvars>>

NoContainer == obj = NoObject /\ seq = <<>> /\ misused = FALSE

Init ==
  \/ ContainersInit /\ calc = Idle /\ job = NoJob /\ NoFileSystem
  \/ NumbersInit /\ NoContainer /\ job = NoJob /\ NoFileSystem
  \/ LoaderInit /\ NoContainer /\ calc = Idle /\ NoFileSystem
  \/ FileSystemInit /\ NoContainer /\ calc = Idle /\ job = NoJob

Done ==
  /\ ContainersDone /\ NumbersDone /\ LoaderDone /\ FileSystemDone
  /\ UNCHANGED vars

Next ==
  \/ ContainersNext /\ UNCHANGED <<calc, job, fsvars>>
  \/ NumbersNext /\ UNCHANGED <<cvars, job, fsvars>>
  \/ LoaderNext /\ UNCHANGED <<cvars, calc, fsvars>>
  \/ FileSystemNext /\ UNCHANGED <<cvars, calc, job>>
  \/ Done

Spec == Init /\ [][Next]_vars
=============================================================================
