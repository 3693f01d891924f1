-------------------------------- MODULE KVMap --------------------------------
(***************************************************************************)
(* The store as its user knows it: a dictionary that outlives the shell.   *)
(* A command names a key; it then stores a value under it if there is      *)
(* none, forgets it, or shows what is stored.  Asked for a key that is not *)
(* there, the store shows the value of the answer before it under the new  *)
(* key: README.md:9, "Retrieve the value associated with a key", promises  *)
(* better, and the code does no better.  Nothing is promised any more once *)
(* something has spoiled the store.                                        *)
(***************************************************************************)
CONSTANTS
  Keys, Values,
  Nothing     (* what is shown before any answer                           *)

VARIABLES
  map,       (* the dictionary                                             *)
  asked,     (* the key of the current command                             *)
  got,       (* the key and the value shown last                           *)
  spoiled

MapInit ==
  /\ map = [k \in {} |-> k]
  /\ asked \in Keys
  /\ got = [key |-> Nothing, value |-> Nothing]
  /\ spoiled = FALSE

Ask == asked' \in Keys /\ UNCHANGED <<map, got, spoiled>>

Store(v) ==
  /\ asked \notin DOMAIN map
  /\ map' = [k \in DOMAIN map \cup {asked} |-> IF k = asked THEN v ELSE map[k]]
  /\ UNCHANGED <<asked, got, spoiled>>

Forget ==
  /\ asked \in DOMAIN map
  /\ map' = [k \in DOMAIN map \ {asked} |-> map[k]]
  /\ UNCHANGED <<asked, got, spoiled>>

Show ==
  /\ asked \in DOMAIN map
  /\ got' = [key |-> asked, value |-> map[asked]]
  /\ UNCHANGED <<map, asked, spoiled>>

Miss ==
  /\ asked \notin DOMAIN map
  /\ got' = [got EXCEPT !.key = asked]
  /\ UNCHANGED <<map, asked, spoiled>>

(* The shell ends and is started again: the dictionary is still there.     *)
Return ==
  /\ got' = [got EXCEPT !.value = Nothing]
  /\ UNCHANGED <<map, asked, spoiled>>

MapNext ==
  \/ spoiled'
  \/ Ask
  \/ \E v \in Values : Store(v)
  \/ Forget
  \/ Show
  \/ Miss
  \/ Return

MapSpec == MapInit /\ [][MapNext]_<<map, asked, got, spoiled>>
=============================================================================
