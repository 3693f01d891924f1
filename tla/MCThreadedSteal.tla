--------------------------- MODULE MCThreadedSteal ---------------------------
(***************************************************************************)
(* Command lines for two workers: jobs that do not interfere, one of them  *)
(* without a source and one without a writable destination; two sources of *)
(* one name.                                                               *)
(***************************************************************************)
EXTENDS ThreadedSteal, TLC

TwoThreads == 1 .. 2

Disk ==
     <<"src", "a">>   :> <<"a1", "a2">>
  @@ <<"src", "b">>   :> <<"b1">>
  @@ <<"src", "c">>   :> <<"c1">>
  @@ <<"other", "a">> :> <<"x1", "x2">>
  @@ <<"dst", "b">>   :> <<"old", "old">>

ApartArgv ==
  << <<"src", "a">>, <<"src", "missing">>, <<"src", "b">>, <<"src", "c">> >>

SameNameArgv == << <<"src", "a">>, <<"other", "a">> >>

ReadOnly == {<<"dst", "c">>}

AllFaults == {"open", "read", "write", "thread"}

ASSUME Apart == Argv = ApartArgv => TargetsApart
=============================================================================
