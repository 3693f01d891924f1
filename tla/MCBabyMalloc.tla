---------------------------- MODULE MCBabyMalloc ----------------------------
(***************************************************************************)
(* A pool of 128 bytes under the 24-byte header of the x86-64 build, with  *)
(* an 8-bit size_t.  Five empty blocks fill it, so that splits, exact fits *)
(* and refusals all happen after merges.                                   *)
(***************************************************************************)
EXTENDS BabyMalloc

(* Nothing, exact multiples of 8 and sizes that are rounded up.            *)
OrdinaryRequests == {0, 12, 40, 104}
=============================================================================
