-------------------------------- MODULE Heap --------------------------------
(***************************************************************************)
(* What a client of an allocator relies on: every allocation it holds is a *)
(* range of bytes of its own, inside the pool, until the client frees it.  *)
(* Nothing is said of headers, of the free list or of the placement.       *)
(* This is the specification BabyMalloc implements.                        *)
(***************************************************************************)
EXTENDS Integers

CONSTANTS
  Bytes,     (* number of bytes of the pool                   *)
  Requests   (* sizes a client may ask for                    *)

VARIABLE regions   (* pointer of every live allocation -> bytes requested *)

(* The bytes asked for at p and those of the live allocation q do not meet, *)
(* and two allocations never have the same address, not even empty ones.    *)
Apart(p, n, q) ==
  /\ p # q
  /\ p + n <= q \/ q + regions[q] <= p

HeapInit == regions = [p \in {} |-> 0]

(* A request that succeeds takes any free range large enough. *)
Allocate(n) ==
  \E p \in 0 .. Bytes :
    /\ p + n <= Bytes
    /\ \A q \in DOMAIN regions : Apart(p, n, q)
    /\ regions' = [q \in DOMAIN regions \cup {p} |->
                     IF q = p THEN n ELSE regions[q]]

Release(p) == regions' = [q \in DOMAIN regions \ {p} |-> regions[q]]

HeapNext ==
  \/ \E n \in Requests : Allocate(n)
  \/ \E p \in DOMAIN regions : Release(p)

HeapSpec == HeapInit /\ [][HeapNext]_regions
=============================================================================
