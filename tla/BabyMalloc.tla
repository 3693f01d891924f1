----------------------------- MODULE BabyMalloc -----------------------------
(***************************************************************************)
(* baby_malloc/bby_malloc.c: a first-fit allocator over a static pool.     *)
(*                                                                         *)
(* An address is an offset into memory_pool.  The header of a block sits   *)
(* at the block's offset and its payload META bytes further.  hdr maps the *)
(* offsets of the headers on the list that starts at free_list (offset 0)  *)
(* to their fields; bytes that are not such a header are payload.          *)
(*                                                                         *)
(* The program has one thread.  The walk along the list is one step per    *)
(* block, so that the loop's own invariant and its end can be stated.      *)
(***************************************************************************)
EXTENDS Integers, Functions

CONSTANTS
  POOL_SIZE,   (* bytes of memory_pool                                  *)
  META,        (* sizeof(block_meta)                                    *)
  WORD,        (* one more than the largest size_t                      *)
  Requests     (* sizes the client passes to bby_malloc                 *)

ALIGN == 8

ASSUME SizesAssumption ==
  /\ POOL_SIZE \in Nat /\ META \in Nat /\ WORD \in Nat
  /\ POOL_SIZE % ALIGN = 0 /\ META % ALIGN = 0 /\ WORD % ALIGN = 0
  /\ 0 < META /\ META < POOL_SIZE /\ POOL_SIZE < WORD
  /\ Requests \subseteq 0 .. (WORD - 1)

NULL == -1

Offsets == 0 .. (POOL_SIZE - 1)

Header == [size : 0 .. POOL_SIZE, free : BOOLEAN, next : Offsets \cup {NULL}]

VARIABLES
  isInitialized,
  hdr,      (* the headers on the list, by offset                           *)
  curr,     (* where the walk of internal_allocation stands                 *)
  size,     (* its argument after rounding                                  *)
  out,      (* what the last call of bby_malloc stored in *out              *)
  pc,       (* "idle", or "scan" inside the while loop                      *)
  want,     (* the size the client asked for in the current call            *)
  live      (* the client's allocations: pointer -> bytes it asked for      *)

vars == <<isInitialized, hdr, curr, size, out, pc, want, live>>

-----------------------------------------------------------------------------
(* Reading the list.                                                       *)

End(a) == a + META + hdr[a].size

Payload(a) == a + META

(* size = (size + 7) & ~7 in size_t arithmetic, which wraps at WORD.       *)
AlignUp(n) == (((n + (ALIGN - 1)) % WORD) \div ALIGN) * ALIGN

(* The test of the loop: curr->free && curr->size >= size.                 *)
(* Faulty variants: the use flag is ignored; an exact fit is refused.      *)
FitsIgnoringUse(a) == hdr[a].size >= size
FitsStrictly(a) == hdr[a].free /\ hdr[a].size > size
Fits(a) == hdr[a].free /\ hdr[a].size >= size

(* The list after init_allocator: one free block over the whole pool.      *)
OneFreeBlock ==
  [a \in {0} |-> [size |-> POOL_SIZE - META, free |-> TRUE, next |-> NULL]]

(* Before it, free_list points at the zeroed bytes of a static array.      *)
ZeroedPool == [a \in {0} |-> [size |-> 0, free |-> FALSE, next |-> NULL]]

-----------------------------------------------------------------------------
Init ==
  /\ isInitialized = FALSE
  /\ hdr = ZeroedPool
  /\ curr = NULL /\ size = 0 /\ out = NULL /\ want = 0
  /\ pc = "idle"
  /\ live = [p \in {} |-> 0]

(* bby_malloc(&out, n) enters internal_allocation and reaches the loop.    *)
Malloc(n) ==
  /\ pc = "idle"
  /\ isInitialized' = TRUE
  /\ hdr' = IF isInitialized THEN hdr ELSE OneFreeBlock
  /\ curr' = 0
  /\ size' = AlignUp(n)
  /\ want' = n
  /\ pc' = "scan"
  /\ UNCHANGED <<out, live>>

(* curr does not fit: curr = curr->next.                                   *)
(* Faulty variant: the walk starts over instead of moving on.              *)
SkipToStart ==
  /\ pc = "scan"
  /\ curr # NULL
  /\ ~ Fits(curr)
  /\ curr' = 0
  /\ UNCHANGED <<isInitialized, hdr, size, out, pc, want, live>>
Skip ==
  /\ pc = "scan"
  /\ curr # NULL
  /\ ~ Fits(curr)
  /\ curr' = hdr[curr].next
  /\ UNCHANGED <<isInitialized, hdr, size, out, pc, want, live>>

(* The walk fell off the list: NULL goes to *out, and 0 is returned.       *)
NotFound ==
  /\ pc = "scan"
  /\ curr = NULL
  /\ out' = NULL
  /\ pc' = "idle"
  /\ UNCHANGED <<isInitialized, hdr, curr, size, want, live>>

(* The client receives the payload of the block the walk stopped at.       *)
Return ==
  /\ out' = Payload(curr)
  /\ live' = [p \in DOMAIN live \cup {Payload(curr)} |->
                IF p = Payload(curr) THEN want ELSE live[p]]
  /\ pc' = "idle"
  /\ UNCHANGED <<isInitialized, curr, size, want>>

(* Faulty variant: a block that leaves room for a bare header is split.    *)
SplitsOffEmpty(a) == hdr[a].size >= size + META
Splits(a) == hdr[a].size > size + META

(* The block is too small to be split: it is handed out as it is.          *)
(* Faulty variant: it stays marked free.                                   *)
TakeWholeUnmarked ==
  /\ pc = "scan"
  /\ curr # NULL
  /\ Fits(curr)
  /\ ~ Splits(curr)
  /\ hdr' = hdr
  /\ Return
TakeWhole ==
  /\ pc = "scan"
  /\ curr # NULL
  /\ Fits(curr)
  /\ ~ Splits(curr)
  /\ hdr' = [hdr EXCEPT ![curr].free = FALSE]
  /\ Return

(* The tail of the block becomes a free block of its own.                  *)
TakeSplit ==
  /\ pc = "scan"
  /\ curr # NULL
  /\ Fits(curr)
  /\ Splits(curr)
  /\ LET next == Payload(curr) + size
         rest == [size |-> hdr[curr].size - size - META,
                  free |-> TRUE,
                  next |-> hdr[curr].next]
         used == [size |-> size, free |-> FALSE, next |-> next]
     IN  hdr' = [a \in DOMAIN hdr \cup {next} |->
                   IF a = curr THEN used ELSE IF a = next THEN rest ELSE hdr[a]]
  /\ Return

MergesWithNext(a) == hdr[a].next # NULL /\ hdr[hdr[a].next].free

(* bby_free(p) when the block that follows is in use, or there is none.    *)
FreeAlone(p) ==
  /\ pc = "idle"
  /\ ~ MergesWithNext(p - META)
  /\ hdr' = [hdr EXCEPT ![p - META].free = TRUE]
  /\ live' = Restrict(live, DOMAIN live \ {p})
  /\ UNCHANGED <<isInitialized, curr, size, out, pc, want>>

(* bby_free(p) when the block that follows is free: p's block absorbs it.  *)
(* The block before p is not looked at.                                    *)
(* Faulty variant: the bytes of the absorbed header are lost.              *)
FreeMergingPayloadOnly(p) ==
  /\ pc = "idle"
  /\ MergesWithNext(p - META)
  /\ LET block  == p - META
         next   == hdr[block].next
         merged == [size |-> hdr[block].size + hdr[next].size,
                    free |-> TRUE,
                    next |-> hdr[next].next]
     IN  hdr' = [a \in DOMAIN hdr \ {next} |->
                   IF a = block THEN merged ELSE hdr[a]]
  /\ live' = Restrict(live, DOMAIN live \ {p})
  /\ UNCHANGED <<isInitialized, curr, size, out, pc, want>>
FreeMerging(p) ==
  /\ pc = "idle"
  /\ MergesWithNext(p - META)
  /\ LET block  == p - META
         next   == hdr[block].next
         merged == [size |-> hdr[block].size + META + hdr[next].size,
                    free |-> TRUE,
                    next |-> hdr[next].next]
     IN  hdr' = [a \in DOMAIN hdr \ {next} |->
                   IF a = block THEN merged ELSE hdr[a]]
  /\ live' = Restrict(live, DOMAIN live \ {p})
  /\ UNCHANGED <<isInitialized, curr, size, out, pc, want>>

Scan == Skip \/ NotFound \/ TakeWhole \/ TakeSplit

(* The client frees only what it holds; bby_free(NULL) changes nothing.    *)
Next ==
  \/ \E n \in Requests : Malloc(n)
  \/ Scan
  \/ \E p \in DOMAIN live : FreeAlone(p) \/ FreeMerging(p)

Spec == Init /\ [][Next]_vars

(* The loop runs to its end once entered; the client owes nothing.         *)
FairSpec == Spec /\ WF_vars(Scan)

-----------------------------------------------------------------------------
(* Properties.                                                             *)

(* Every variable has a value the program's types allow; in particular the *)
(* pointer in *out addresses a byte of the pool, also for a request of 0.   *)
TypeOK ==
  /\ isInitialized \in BOOLEAN
  /\ hdr = [a \in DOMAIN hdr |-> hdr[a]]
  /\ DOMAIN hdr \subseteq Offsets
  /\ \A a \in DOMAIN hdr : hdr[a] \in Header
  /\ curr \in Offsets \cup {NULL}
  /\ size \in 0 .. (WORD - 1)
  /\ want \in 0 .. (WORD - 1)
  /\ out \in Offsets \cup {NULL}
  /\ pc \in {"idle", "scan"}
  /\ live = [p \in DOMAIN live |-> live[p]]
  /\ \A p \in DOMAIN live : live[p] \in Requests

(* Following next from offset 0 visits blocks that lie end to end and      *)
(* reach exactly the end of the pool.                                      *)
Chained ==
  /\ 0 \in DOMAIN hdr
  /\ \A a \in DOMAIN hdr :
       \/ hdr[a].next = NULL /\ End(a) = POOL_SIZE
       \/ hdr[a].next = End(a) /\ End(a) \in DOMAIN hdr

(* No block of the list reaches into another one.                          *)
Disjoint == \A a, b \in DOMAIN hdr : a < b => End(a) <= b

(* The list partitions the pool after any sequence of allocations and      *)
(* releases: no byte is lost by a split or a merge, and none is shared.    *)
(* The split of internal_allocation and the merge of bby_free must agree   *)
(* on the room a header takes.                                             *)
PoolTiled == isInitialized => Chained /\ Disjoint

(* A block is marked used exactly when the client holds its payload, so    *)
(* bby_free always meets the header internal_allocation wrote, whatever    *)
(* was split and merged in between, and no block stays used for ever.      *)
UsedIsHeld ==
  isInitialized =>
    DOMAIN live = {Payload(a) : a \in {b \in DOMAIN hdr : ~ hdr[b].free}}

(* Every payload the client holds is aligned, as the comment at the        *)
(* rounding asks: header and block sizes stay multiples of 8 through every *)
(* split and merge.                                                        *)
PayloadsAligned == \A p \in DOMAIN live : p % ALIGN = 0

(* A call that ends stores the payload of the lowest block that could hold *)
(* the request, and NULL only if no block of the list could.               *)
FirstFitStep ==
  pc = "scan" /\ pc' = "idle" =>
    LET usable == {a \in DOMAIN hdr : hdr[a].free /\ hdr[a].size >= AlignUp(want)}
    IN  \/ usable = {} /\ out' = NULL
        \/ \E a \in usable : /\ out' = Payload(a)
                             /\ \A b \in usable : a <= b
FirstFit == [][FirstFitStep]_vars

(* The walk along the list ends: bby_malloc returns.                       *)
ScanEnds == (pc = "scan") ~> (pc = "idle")

(* The allocator gives the client what Heap promises: ranges of the size   *)
(* it asked for, apart from each other and inside the pool.                *)
H == INSTANCE Heap WITH Bytes <- POOL_SIZE, regions <- live
ImplementsHeap == H!HeapSpec

(* A block handed out is at least as large as the request.  It fails for   *)
(* the last seven values of size_t, whose rounding wraps to 0.             *)
RequestFits == \A p \in DOMAIN live : hdr[p - META].size >= live[p]
=============================================================================
