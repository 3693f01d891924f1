-------------------------------- MODULE MCChat --------------------------------
(***************************************************************************)
(* Two clients: one says enough to fill the buffers, the other so much as  *)
(* to notice the first one.                                                *)
(***************************************************************************)
EXTENDS Chat

TwoClients == {"c1", "c2"}

TalkativeAndShy == [c \in TwoClients |-> IF c = "c1" THEN 4 ELSE 1]
=============================================================================
