------------------------------ MODULE MCToyShell ------------------------------
(***************************************************************************)
(* A few programs, and command lines for every way through the shell.      *)
(***************************************************************************)
EXTENDS ToyShell

(* "yes" ends only when it writes to a pipe nobody reads.                  *)
SomePrograms ==
  [ ls |-> [reads |-> "nothing", writes |-> 2],
    yes |-> [reads |-> "nothing", writes |-> Forever],
    head |-> [reads |-> "one", writes |-> 1],
    sort |-> [reads |-> "all", writes |-> 1] ]

Commands == { <<"ls", "&">>, <<"exit">> }

(* The last line is longer than MaxTokens allows: its "&" is not read.     *)
Redirections ==
  { <<"sort", "<", "f", ">", "g">>,
    <<"sort", ">", "g", "<", "f", "&">> }

Pipelines ==
  { <<"ls", "|", "sort">>,
    <<"yes", "|", "head">>,
    <<"yes", "|", "sort", "<", "f">>,
    <<"|", "none", "&">> }

AllLines == Commands \cup Redirections \cup Pipelines
=============================================================================
