------------------------------ MODULE MCKVStore ------------------------------
(***************************************************************************)
(* What is typed: plain words, and words with '=' in them or as long as    *)
(* the buffer of handle_get.                                               *)
(***************************************************************************)
EXTENDS KVStore

a == <<"a">>
ab == <<"ab">>
x == <<"x">>
y == <<"y">>
None == <<"">>

Typed(ops, keys, values) == [op : ops, key : keys, value : values]

(* Keys a and ab, which a full disk may cut to a; the key "a=b" with a     *)
(* value, "e", whose line the buffer holds, but not the newline after it.  *)
MixedCommands ==
  Typed({"PUT"}, {a, ab}, {x})
    \cup Typed({"UPDATE"}, {a}, {y})
    \cup Typed({"PUT"}, {<<"a", "b">>}, {<<"e">>})
    \cup Typed({"GET"}, {a, ab}, {None})
    \cup Typed({"DELETE", "LIST"}, {a}, {None})

WriteCommands ==
  Typed({"PUT"}, {a, ab}, {x}) \cup Typed({"DELETE"}, {a, ab}, {None})

(* The line may end in "e", or go on with a key where the newline is lost. *)
ExactCut ==
  [p \in {"e", "ea", "eab"} |->
     <<"e", CASE p = "e" -> "" [] p = "ea" -> "a" [] p = "eab" -> "ab">>]

OneShell == {"s"}
=============================================================================
