------------------------------- MODULE MCSteal -------------------------------
(***************************************************************************)
(* A command line with two sources of one name, a shorter file over a      *)
(* longer one and a destination that cannot be written.                    *)
(***************************************************************************)
EXTENDS Steal, TLC

OneThread == {Me}

Disk ==
     <<"src", "a">>   :> <<"a1", "a2">>
  @@ <<"src", "b">>   :> <<"b1">>
  @@ <<"src", "c">>   :> <<"c1">>
  @@ <<"other", "a">> :> <<"x1">>
  @@ <<"dst", "b">>   :> <<"old", "old">>

MixedArgv ==
  << <<"src", "a">>, <<"src", "b">>, <<"other", "a">>, <<"src", "c">> >>

ReadOnly == {<<"dst", "c">>}

IOFaults == {"open", "read", "write"}
=============================================================================
