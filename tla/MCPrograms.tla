----------------------------- MODULE MCPrograms -----------------------------
(* Programs with the commands and argument lists of the shell. *)
EXTENDS Programs

MCCommands == {"ls", "shell"}

MCArgvs == {<<"ls">>, <<"ls", "dir">>}
=============================================================================
