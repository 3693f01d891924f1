-------------------------- MODULE BabyMalloc_proofs --------------------------
(***************************************************************************)
(* Proofs about BabyMalloc for every pool, header and word size.           *)
(***************************************************************************)
EXTENDS BabyMalloc, TLAPS

(* Before init_allocator there is one used block of size 0 at offset 0 and *)
(* the client holds nothing.                                               *)
NotYetInitialized ==
  ~ isInitialized => hdr = ZeroedPool /\ DOMAIN live = {} /\ pc = "idle"

(* Only the last block has no successor, and it is never empty.            *)
LastNotEmpty ==
  isInitialized =>
    \A a \in DOMAIN hdr : hdr[a].next = NULL => hdr[a].size > 0

Rounded ==
  isInitialized =>
    \A a \in DOMAIN hdr : a % ALIGN = 0 /\ hdr[a].size % ALIGN = 0

(* Loop invariant: no block the walk has passed fits.                      *)
PassedDoNotFit ==
  pc = "scan" =>
    /\ isInitialized
    /\ curr \in DOMAIN hdr \cup {NULL}
    /\ want \in Requests
    /\ size = AlignUp(want)
    /\ \A a \in DOMAIN hdr : curr = NULL \/ a < curr => ~ Fits(a)

IInv ==
  /\ TypeOK
  /\ NotYetInitialized
  /\ PoolTiled
  /\ LastNotEmpty
  /\ Rounded
  /\ UsedIsHeld
  /\ PassedDoNotFit

-----------------------------------------------------------------------------
(* The sizes as facts the solvers can use.                                 *)
LEMMA Sizes ==
  /\ POOL_SIZE \in Nat /\ META \in Nat /\ WORD \in Nat
  /\ POOL_SIZE % 8 = 0 /\ META % 8 = 0 /\ WORD % 8 = 0
  /\ 0 < META /\ META < POOL_SIZE /\ POOL_SIZE < WORD
  /\ \A n \in Requests : n \in 0 .. (WORD - 1)
BY SizesAssumption DEF ALIGN

(* Multiples of 8 are closed under addition and subtraction.               *)
LEMMA MultiplesOf8 ==
  ASSUME NEW a \in Int, NEW b \in Int, a % 8 = 0, b % 8 = 0
  PROVE  (a + b) % 8 = 0 /\ (a - b) % 8 = 0
<1>1. PICK i \in Int : a = 8 * i
  <2>1. a = 8 * (a \div 8)
    OBVIOUS
  <2> QED
    BY <2>1
<1>2. PICK j \in Int : b = 8 * j
  <2>1. b = 8 * (b \div 8)
    OBVIOUS
  <2> QED
    BY <2>1
<1>3. a + b = 8 * (i + j) /\ a - b = 8 * (i - j)
  BY <1>1, <1>2
<1>4. \A k \in Int : (8 * k) % 8 = 0
  OBVIOUS
<1> QED
  BY <1>3, <1>4

(* Rounding yields a multiple of 8 that fits a size_t.                     *)
LEMMA AlignUpType ==
  ASSUME NEW n \in 0 .. (WORD - 1)
  PROVE  AlignUp(n) \in 0 .. (WORD - 1) /\ AlignUp(n) % 8 = 0
<1> DEFINE m == (n + 7) % WORD
<1>1. m \in 0 .. (WORD - 1)
  BY Sizes
<1>2. AlignUp(n) = (m \div 8) * 8
  BY DEF AlignUp, ALIGN
<1> HIDE DEF m
<1>3. (m \div 8) * 8 \in 0 .. m /\ ((m \div 8) * 8) % 8 = 0
  BY <1>1, Sizes
<1> QED
  BY <1>1, <1>2, <1>3, Sizes

(* Unless size + 7 wraps, rounding does not lose a byte of the request.    *)
LEMMA AlignUpCovers ==
  ASSUME NEW n \in 0 .. (WORD - 8)
  PROVE  AlignUp(n) >= n
<1>1. (n + 7) % WORD = n + 7
  BY Sizes
<1>2. AlignUp(n) = ((n + 7) \div 8) * 8
  BY <1>1 DEF AlignUp, ALIGN
<1>3. ((n + 7) \div 8) * 8 >= n
  BY Sizes
<1> QED
  BY <1>2, <1>3

-----------------------------------------------------------------------------
LEMMA InitIInv == Init => IInv
<1> SUFFICES ASSUME Init PROVE IInv
  OBVIOUS
<1> USE Sizes DEF Init, ZeroedPool
<1>1. DOMAIN live = {} /\ live = [p \in DOMAIN live |-> live[p]]
  OBVIOUS
<1>2. TypeOK
  BY <1>1 DEF TypeOK, Offsets, Header, NULL
<1> QED
  BY <1>1, <1>2 DEF IInv, NotYetInitialized, PoolTiled, LastNotEmpty,
       Rounded, UsedIsHeld, PassedDoNotFit

(* Before the pool is initialized, the first call makes it one free block. *)
LEMMA MallocIInv ==
  ASSUME IInv, NEW n \in Requests, Malloc(n)
  PROVE  IInv'
<1> USE Sizes DEF Malloc, NULL
<1>1. AlignUp(n) \in 0 .. (WORD - 1) /\ 0 \in Offsets
  BY AlignUpType DEF Offsets
<1>2. CASE isInitialized
  <2>1. TypeOK'
    BY <1>1, <1>2 DEF IInv, TypeOK
  <2>2. 0 \in DOMAIN hdr /\ hdr' = hdr /\ \A a \in DOMAIN hdr : ~ (a < 0)
    BY <1>2 DEF IInv, PoolTiled, Chained, TypeOK, Offsets
  <2>3. PassedDoNotFit'
    BY <1>2, <2>2 DEF PassedDoNotFit, Offsets
  <2> QED
    BY <1>2, <2>1, <2>2, <2>3
    DEF IInv, NotYetInitialized, PoolTiled, LastNotEmpty, Rounded,
        UsedIsHeld, Chained, Disjoint, End, Payload
<1>3. CASE ~ isInitialized
  <2>1. hdr' = OneFreeBlock /\ DOMAIN live = {} /\ live' = live
    BY <1>3 DEF IInv, NotYetInitialized
  <2> USE DEF OneFreeBlock
  <2>2. TypeOK'
    BY <1>1, <1>3, <2>1 DEF IInv, TypeOK, Header, Offsets
  <2>3. PoolTiled' /\ LastNotEmpty' /\ Rounded'
    BY <1>3, <2>1
    DEF PoolTiled, Chained, Disjoint, End, LastNotEmpty, Rounded, ALIGN
  <2>4. UsedIsHeld'
    BY <1>3, <2>1 DEF UsedIsHeld
  <2>5. PassedDoNotFit' /\ NotYetInitialized'
    BY <1>3, <2>1 DEF PassedDoNotFit, NotYetInitialized
  <2> QED
    BY <2>2, <2>3, <2>4, <2>5 DEF IInv
<1> QED
  BY <1>2, <1>3

(* The walk moves to the block that starts where curr ends: no block lies  *)
(* between the two, so none is passed untested.                            *)
LEMMA SkipIInv ==
  ASSUME IInv, Skip
  PROVE  IInv'
<1> USE Sizes DEF Skip, NULL
<1>1. isInitialized /\ curr \in DOMAIN hdr
  BY DEF IInv, PassedDoNotFit
<1>2. hdr[curr].next \in DOMAIN hdr \cup {NULL}
  BY <1>1 DEF IInv, PoolTiled, Chained
<1>3. TypeOK'
  BY <1>2 DEF IInv, TypeOK
<1>4. ASSUME NEW a \in DOMAIN hdr, hdr[curr].next = NULL \/ a < hdr[curr].next
      PROVE  a = curr \/ a < curr
  <2>1. curr < a => End(curr) <= a
    BY <1>1 DEF IInv, PoolTiled, Disjoint
  <2>2. curr < a => End(curr) <= a /\ a < End(curr)
    <3>1. CASE hdr[curr].next = NULL /\ End(curr) = POOL_SIZE
      BY <2>1, <3>1 DEF IInv, TypeOK, Offsets
    <3>2. CASE hdr[curr].next = End(curr) /\ End(curr) \in DOMAIN hdr
      BY <1>1, <1>4, <2>1, <3>2 DEF IInv, TypeOK, Offsets
    <3> QED
      BY <1>1, <3>1, <3>2 DEF IInv, PoolTiled, Chained
  <2> QED
    BY <1>1, <2>2 DEF IInv, TypeOK, Offsets, Header, End
<1>5. PassedDoNotFit'
  BY <1>1, <1>2, <1>4 DEF IInv, PassedDoNotFit, Fits
<1> QED
  BY <1>1, <1>3, <1>5
  DEF IInv, NotYetInitialized, PoolTiled, LastNotEmpty, Rounded,
      UsedIsHeld, Chained, Disjoint, End, Payload

LEMMA NotFoundIInv ==
  ASSUME IInv, NotFound
  PROVE  IInv'
BY DEF NotFound, IInv, TypeOK, NotYetInitialized, PoolTiled, LastNotEmpty,
       Rounded, UsedIsHeld, PassedDoNotFit, Chained, Disjoint, End, Payload

(* Where the walk stops, the payload lies inside the pool.                 *)
LEMMA StopsInPool ==
  ASSUME IInv, pc = "scan", curr # NULL
  PROVE  /\ isInitialized
         /\ curr \in DOMAIN hdr
         /\ Payload(curr) \in Offsets
         /\ want \in Requests
<1> USE Sizes DEF Offsets
<1>1. isInitialized /\ curr \in DOMAIN hdr /\ want \in Requests
  BY DEF IInv, PassedDoNotFit
<1>2. curr \in Offsets /\ hdr[curr].size \in Nat
  BY <1>1 DEF IInv, TypeOK, Header
<1>3. \/ End(curr) = POOL_SIZE /\ hdr[curr].size > 0
      \/ End(curr) \in Offsets
  BY <1>1 DEF IInv, PoolTiled, Chained, LastNotEmpty, TypeOK
<1> QED
  BY <1>1, <1>2, <1>3 DEF End, Payload

LEMMA TakeWholeIInv ==
  ASSUME IInv, TakeWhole
  PROVE  IInv'
<1> USE Sizes DEF TakeWhole, Return, NULL
<1>1. /\ isInitialized /\ curr \in DOMAIN hdr /\ Payload(curr) \in Offsets
      /\ want \in Requests
  BY StopsInPool
<1>2. /\ DOMAIN hdr' = DOMAIN hdr
      /\ \A a \in DOMAIN hdr :
           /\ hdr'[a].size = hdr[a].size
           /\ hdr'[a].next = hdr[a].next
           /\ hdr'[a].free = (hdr[a].free /\ a # curr)
           /\ hdr'[a] \in Header
  BY <1>1 DEF IInv, TypeOK, Header
<1>3. TypeOK'
  BY <1>1, <1>2 DEF IInv, TypeOK
<1>4. PoolTiled' /\ LastNotEmpty' /\ Rounded'
  BY <1>1, <1>2
  DEF IInv, PoolTiled, Chained, Disjoint, End, LastNotEmpty, Rounded
<1>5. UsedIsHeld'
  BY <1>1, <1>2 DEF IInv, UsedIsHeld, Payload
<1> QED
  BY <1>1, <1>3, <1>4, <1>5
  DEF IInv, NotYetInitialized, PassedDoNotFit

(* The header written inside the block splits it in two that share its     *)
(* bytes; the offset it is written at was inside the payload of curr and   *)
(* so was no header.                                                       *)
LEMMA TakeSplitIInv ==
  ASSUME IInv, TakeSplit
  PROVE  IInv'
<1> USE Sizes DEF NULL
<1>1. /\ isInitialized /\ curr \in DOMAIN hdr /\ Payload(curr) \in Offsets
      /\ want \in Requests
  BY StopsInPool DEF TakeSplit
<1>2. PICK next : next = Payload(curr) + size
  OBVIOUS
<1> DEFINE rest == [size |-> hdr[curr].size - size - META,
                    free |-> TRUE,
                    next |-> hdr[curr].next]
           used == [size |-> size, free |-> FALSE, next |-> next]
<1>3. /\ hdr[curr].free /\ hdr[curr].size > size + META
      /\ hdr[curr] \in Header /\ curr \in Offsets /\ size \in Nat
      /\ hdr[curr].size \in Nat
  BY <1>1 DEF TakeSplit, Splits, Fits, IInv, TypeOK, Header
<1>4. /\ next = curr + META + size
      /\ curr < next
      /\ next + META < End(curr)
      /\ End(curr) \in 0 .. POOL_SIZE
      /\ next \in Offsets
  <2>1. End(curr) <= POOL_SIZE
    BY <1>1 DEF IInv, PoolTiled, Chained, TypeOK, Offsets
  <2> QED
    BY <1>1, <1>2, <1>3, <2>1 DEF Payload, End, Offsets
<1>5. next \notin DOMAIN hdr
  BY <1>1, <1>4, <1>3 DEF IInv, PoolTiled, Disjoint, Offsets
<1>6. used \in Header /\ rest \in Header
  BY <1>3, <1>4 DEF Header, Offsets, End
<1>7. /\ isInitialized' = isInitialized /\ curr' = curr /\ size' = size
      /\ want' = want /\ pc' = "idle" /\ out' = Payload(curr)
      /\ live' = [p \in DOMAIN live \cup {Payload(curr)} |->
                    IF p = Payload(curr) THEN want ELSE live[p]]
  BY DEF TakeSplit, Return
<1>hdr. hdr' = [a \in DOMAIN hdr \cup {next} |->
                IF a = curr THEN used ELSE IF a = next THEN rest ELSE hdr[a]]
  BY <1>2 DEF TakeSplit
<1>8. TypeOK'
  BY <1>1, <1>hdr, <1>4, <1>6, <1>7 DEF IInv, TypeOK
<1>9. /\ DOMAIN hdr' = DOMAIN hdr \cup {next}
      /\ hdr'[curr] = used /\ hdr'[next] = rest
      /\ \A a \in DOMAIN hdr \ {curr} : hdr'[a] = hdr[a] /\ a # next
  BY <1>1, <1>hdr, <1>4, <1>5, <1>3 DEF Offsets
<1>10. \A a \in DOMAIN hdr' :
         End(a)' = IF a = curr THEN next
                   ELSE IF a = next THEN End(curr) ELSE End(a)
  BY <1>1, <1>3, <1>4, <1>7, <1>9 DEF End, Offsets
<1>11. Chained'
  <2>1. 0 \in DOMAIN hdr'
    BY <1>1, <1>9 DEF IInv, PoolTiled, Chained
  <2> SUFFICES ASSUME NEW a \in DOMAIN hdr'
               PROVE  \/ hdr'[a].next = NULL /\ End(a)' = POOL_SIZE
                      \/ hdr'[a].next = End(a)' /\ End(a)' \in DOMAIN hdr'
    BY <2>1 DEF Chained
  <2>2. CASE a \in DOMAIN hdr \ {curr}
    BY <1>1, <1>9, <1>10, <2>2 DEF IInv, PoolTiled, Chained
  <2>3. CASE a = next
    BY <1>1, <1>4, <1>9, <1>10, <2>3 DEF IInv, PoolTiled, Chained
  <2>4. CASE a = curr
    BY <1>9, <1>10, <2>4
  <2> QED
    BY <1>9, <2>2, <2>3, <2>4
<1>12. Disjoint'
  <2> SUFFICES ASSUME NEW a \in DOMAIN hdr', NEW b \in DOMAIN hdr', a < b
               PROVE  End(a)' <= b
    BY DEF Disjoint
  <2>1. \A c, d \in DOMAIN hdr : c < d => End(c) <= d
    BY <1>1 DEF IInv, PoolTiled, Disjoint
  <2>2. /\ \A c \in DOMAIN hdr : c \in Int /\ End(c) \in Int /\ End(c) > c
        /\ next \in Int
    BY <1>4 DEF IInv, TypeOK, Offsets, Header, End
  <2>3. CASE a \in DOMAIN hdr \ {curr} /\ b \in DOMAIN hdr
    BY <1>9, <1>10, <2>1, <2>3
  <2>4. CASE a \in DOMAIN hdr \ {curr} /\ b = next
    <3>1. a < curr
      BY <1>1, <1>4, <2>1, <2>2, <2>4
    <3> QED
      BY <1>1, <1>4, <1>9, <1>10, <2>1, <2>2, <2>4, <3>1
  <2>5. CASE a = curr
    <3>1. End(a)' = next
      BY <1>10, <2>5
    <3>2. CASE b = next
      BY <1>4, <3>1, <3>2, <2>2
    <3>3. CASE b \in DOMAIN hdr
      BY <1>1, <1>4, <2>1, <2>2, <2>5, <3>1, <3>3
    <3> QED
      BY <1>9, <3>2, <3>3
  <2>6. CASE a = next
    <3>1. End(a)' = End(curr) /\ b \in DOMAIN hdr /\ curr < b
      BY <1>1, <1>4, <1>9, <1>10, <2>2, <2>6
    <3> QED
      BY <1>1, <2>1, <3>1
  <2> QED
    BY <1>9, <2>3, <2>4, <2>5, <2>6
<1>13. LastNotEmpty'
  BY <1>1, <1>3, <1>4, <1>7, <1>9 DEF IInv, LastNotEmpty, Offsets
<1>14. Rounded'
  <2>1. size % 8 = 0 /\ size = AlignUp(want)
    BY <1>1, AlignUpType DEF TakeSplit, IInv, PassedDoNotFit
  <2>2. curr % 8 = 0 /\ hdr[curr].size % 8 = 0
    BY <1>1 DEF IInv, Rounded, ALIGN
  <2>3. next % 8 = 0 /\ (hdr[curr].size - size - META) % 8 = 0
    <3>1. curr \in Int /\ size \in Int /\ META \in Int /\ META % 8 = 0
      BY <1>3 DEF Offsets
    <3>2. curr + META \in Int /\ (curr + META) % 8 = 0
      BY <2>2, <3>1, MultiplesOf8
    <3>3. (curr + META + size) % 8 = 0
      BY <2>1, <3>1, <3>2, MultiplesOf8
    <3>4. PICK h \in Int : h = hdr[curr].size
      BY <1>3
    <3>5. h - size \in Int /\ (h - size) % 8 = 0
      BY <2>1, <2>2, <3>1, <3>4, MultiplesOf8
    <3>6. (h - size - META) % 8 = 0
      BY <3>1, <3>5, MultiplesOf8
    <3> QED
      BY <1>4, <3>3, <3>4, <3>6
  <2> QED
    BY <1>1, <1>9, <2>1, <2>2, <2>3 DEF IInv, Rounded, ALIGN
<1>15. UsedIsHeld'
  BY <1>1, <1>3, <1>4, <1>7, <1>9 DEF IInv, UsedIsHeld, Payload
<1> QED
  BY <1>1, <1>7, <1>8, <1>11, <1>12, <1>13, <1>14, <1>15
  DEF IInv, NotYetInitialized, PoolTiled, PassedDoNotFit

(* A pointer the client holds follows the header of a used block.          *)
LEMMA HeldHasHeader ==
  ASSUME IInv, NEW p \in DOMAIN live
  PROVE  /\ isInitialized
         /\ p - META \in DOMAIN hdr
         /\ ~ hdr[p - META].free
         /\ p = Payload(p - META)
<1>1. isInitialized
  BY DEF IInv, NotYetInitialized
<1>2. PICK a \in DOMAIN hdr : ~ hdr[a].free /\ p = a + META
  BY <1>1 DEF IInv, UsedIsHeld, Payload
<1>3. a \in Int
  BY <1>2 DEF IInv, TypeOK, Offsets
<1>4. p - META = a
  BY <1>2, <1>3, Sizes
<1> QED
  BY <1>1, <1>2, <1>3, <1>4, Sizes DEF Payload

LEMMA FreeAloneIInv ==
  ASSUME IInv, NEW p \in DOMAIN live, FreeAlone(p)
  PROVE  IInv'
<1> USE Sizes DEF FreeAlone, Restrict, NULL
<1> DEFINE block == p - META
<1>1. isInitialized /\ block \in DOMAIN hdr /\ p = Payload(block)
  BY HeldHasHeader
<1> HIDE DEF block
<1>2. /\ DOMAIN hdr' = DOMAIN hdr
      /\ \A a \in DOMAIN hdr :
           /\ hdr'[a].size = hdr[a].size
           /\ hdr'[a].next = hdr[a].next
           /\ hdr'[a].free = (hdr[a].free \/ a = block)
           /\ hdr'[a] \in Header
  BY <1>1 DEF IInv, TypeOK, Header, block
<1>3. TypeOK'
  BY <1>1, <1>2, ZenonT(60) DEF IInv, TypeOK
<1>4. PoolTiled' /\ LastNotEmpty' /\ Rounded'
  BY <1>1, <1>2
  DEF IInv, PoolTiled, Chained, Disjoint, End, LastNotEmpty, Rounded
<1>5. UsedIsHeld'
  BY <1>1, <1>2 DEF IInv, UsedIsHeld, Payload, TypeOK, Offsets
<1> QED
  BY <1>1, <1>3, <1>4, <1>5
  DEF IInv, NotYetInitialized, PassedDoNotFit

(* The absorbed header is the one right after block; no other block has it *)
(* as its successor, so the chain closes again over it.                    *)
LEMMA FreeMergingIInv ==
  ASSUME IInv, NEW p \in DOMAIN live, FreeMerging(p)
  PROVE  IInv'
<1> USE Sizes DEF NULL
<1>1. PICK block : block = p - META
  OBVIOUS
<1>2. isInitialized /\ block \in DOMAIN hdr /\ p = Payload(block)
  BY <1>1, HeldHasHeader
<1>3. PICK next : next = hdr[block].next
  OBVIOUS
<1> DEFINE merged == [size |-> hdr[block].size + META + hdr[next].size,
                      free |-> TRUE,
                      next |-> hdr[next].next]
<1>4. /\ next # NULL /\ hdr[next].free
      /\ next \in DOMAIN hdr /\ next = End(block)
  BY <1>1, <1>2, <1>3 DEF FreeMerging, MergesWithNext, IInv, PoolTiled, Chained
<1>5. /\ hdr' = [a \in DOMAIN hdr \ {next} |->
                    IF a = block THEN merged ELSE hdr[a]]
      /\ live' = [q \in DOMAIN live \ {p} |-> live[q]]
      /\ isInitialized' = isInitialized /\ curr' = curr /\ size' = size
      /\ want' = want /\ out' = out /\ pc' = pc /\ pc = "idle"
  BY <1>1, <1>3 DEF FreeMerging, Restrict
<1>6. \A a \in DOMAIN hdr :
        /\ a \in Offsets /\ a \in Nat /\ End(a) \in Nat /\ End(a) > a
        /\ hdr[a] \in Header /\ hdr[a].size \in Nat
  BY DEF IInv, TypeOK, Offsets, Header, End
<1>7. block < next /\ End(next) = block + META + hdr[block].size + META
                                   + hdr[next].size
  BY <1>2, <1>4, <1>6 DEF End
<1>8. /\ DOMAIN hdr' = DOMAIN hdr \ {next}
      /\ block \in DOMAIN hdr' /\ hdr'[block] = merged
      /\ \A a \in DOMAIN hdr' \ {block} : hdr'[a] = hdr[a]
  BY <1>2, <1>4, <1>5, <1>6, <1>7
<1>9. \A a \in DOMAIN hdr' : End(a)' = IF a = block THEN End(next) ELSE End(a)
  BY <1>2, <1>4, <1>6, <1>7, <1>8 DEF End
<1>10. End(next) <= POOL_SIZE
  BY <1>2, <1>4, <1>6 DEF IInv, PoolTiled, Chained, Offsets
<1>11. TypeOK'
  <2>1. merged \in Header
    <3>1. hdr[next].next \in Offsets \cup {NULL}
      BY <1>4, <1>6 DEF Header
    <3>2. hdr[block].size + META + hdr[next].size \in 0 .. POOL_SIZE
      BY <1>2, <1>4, <1>6, <1>7, <1>10
    <3> QED
      BY <3>1, <3>2 DEF Header
  <2> QED
    BY <1>5, <1>8, <2>1 DEF IInv, TypeOK
<1>12. Chained'
  <2>1. 0 \in DOMAIN hdr'
    BY <1>2, <1>4, <1>6, <1>7, <1>8 DEF IInv, PoolTiled, Chained
  <2> SUFFICES ASSUME NEW a \in DOMAIN hdr'
               PROVE  \/ hdr'[a].next = NULL /\ End(a)' = POOL_SIZE
                      \/ hdr'[a].next = End(a)' /\ End(a)' \in DOMAIN hdr'
    BY <2>1 DEF Chained
  <2>2. CASE a = block
    BY <1>2, <1>4, <1>6, <1>8, <1>9, <2>2 DEF IInv, PoolTiled, Chained
  <2>3. CASE a # block
    <3>1. End(a) # next
      <4>1. a < block => End(a) <= block
        BY <1>2, <1>8 DEF IInv, PoolTiled, Disjoint
      <4>2. block < a => next <= a
        BY <1>2, <1>4, <1>8 DEF IInv, PoolTiled, Disjoint
      <4> QED
        BY <1>2, <1>4, <1>6, <1>7, <1>8, <2>3, <4>1, <4>2
    <3> QED
      BY <1>2, <1>8, <1>9, <2>3, <3>1 DEF IInv, PoolTiled, Chained
  <2> QED
    BY <2>2, <2>3
<1>13. Disjoint'
  <2> SUFFICES ASSUME NEW a \in DOMAIN hdr', NEW b \in DOMAIN hdr', a < b
               PROVE  End(a)' <= b
    BY DEF Disjoint
  <2>1. \A c, d \in DOMAIN hdr : c < d => End(c) <= d
    BY <1>2 DEF IInv, PoolTiled, Disjoint
  <2>2. CASE a # block
    BY <1>8, <1>9, <2>1, <2>2
  <2>3. CASE a = block
    <3>1. next < b
      BY <1>2, <1>4, <1>6, <1>8, <2>1, <2>3
    <3> QED
      BY <1>4, <1>8, <1>9, <2>1, <2>3, <3>1
  <2> QED
    BY <2>2, <2>3
<1>14. LastNotEmpty'
  BY <1>2, <1>4, <1>6, <1>8 DEF IInv, LastNotEmpty
<1>15. Rounded'
  <2>1. hdr[block].size % 8 = 0 /\ hdr[next].size % 8 = 0
    BY <1>2, <1>4 DEF IInv, Rounded, ALIGN
  <2>2. (hdr[block].size + META + hdr[next].size) % 8 = 0
    <3>1. PICK i \in Int, j \in Int : i = hdr[block].size /\ j = hdr[next].size
      BY <1>2, <1>4, <1>6
    <3>2. /\ i % 8 = 0 /\ j % 8 = 0
          /\ META \in Int /\ META % 8 = 0
      BY <2>1, <3>1
    <3>3. (i + META) % 8 = 0 /\ i + META \in Int
      BY <3>2, MultiplesOf8
    <3>4. (i + META + j) % 8 = 0
      BY <3>2, <3>3, MultiplesOf8
    <3> QED
      BY <3>1, <3>4
  <2> QED
    BY <1>2, <1>8, <2>2 DEF IInv, Rounded, ALIGN
<1>16. UsedIsHeld'
  <2>1. \A a \in DOMAIN hdr : Payload(a) = p <=> a = block
    BY <1>1, <1>2, <1>6 DEF Payload
  <2>2. DOMAIN live' = {Payload(a) : a \in {b \in DOMAIN hdr : ~ hdr[b].free}}
                        \ {p}
    BY <1>2, <1>5 DEF IInv, UsedIsHeld
  <2>3. {b \in DOMAIN hdr' : ~ hdr'[b].free}
          = {b \in DOMAIN hdr : ~ hdr[b].free} \ {block}
    BY <1>4, <1>8
  <2>4. DOMAIN live' = {Payload(a) : a \in {b \in DOMAIN hdr' : ~ hdr'[b].free}}
    BY <2>1, <2>2, <2>3
  <2> QED
    BY <2>4 DEF UsedIsHeld, Payload
<1> QED
  BY <1>2, <1>5, <1>11, <1>12, <1>13, <1>14, <1>15, <1>16
  DEF IInv, NotYetInitialized, PoolTiled, PassedDoNotFit

-----------------------------------------------------------------------------
(* Every step of the program keeps the invariant.                          *)
LEMMA NextIInv == IInv /\ [Next]_vars => IInv'
<1> SUFFICES ASSUME IInv, [Next]_vars PROVE IInv'
  OBVIOUS
<1>1. ASSUME NEW n \in Requests, Malloc(n) PROVE IInv'
  BY <1>1, MallocIInv
<1>2. CASE Scan
  BY <1>2, SkipIInv, NotFoundIInv, TakeWholeIInv, TakeSplitIInv DEF Scan
<1>3. ASSUME NEW p \in DOMAIN live, FreeAlone(p) \/ FreeMerging(p)
      PROVE  IInv'
  BY <1>3, FreeAloneIInv, FreeMergingIInv
<1>4. CASE UNCHANGED vars
  BY <1>4
  DEF vars, IInv, TypeOK, NotYetInitialized, PoolTiled, Chained, Disjoint,
      End, LastNotEmpty, Rounded, UsedIsHeld, Payload, PassedDoNotFit, Fits
<1> QED
  BY <1>1, <1>2, <1>3, <1>4 DEF Next

(* Between any two steps of a call the list, the cursor of the walk and the *)
(* client agree as IInv says.                                              *)
THEOREM Invariance == Spec => []IInv
BY InitIInv, NextIInv, PTL DEF Spec

(* Type correctness for every pool, header and word size.                  *)
THEOREM TypeCorrect == Spec => []TypeOK
<1>1. IInv => TypeOK
  BY DEF IInv
<1> QED
  BY <1>1, Invariance, PTL

(* The list always partitions the pool (internal_allocation, bby_free).    *)
THEOREM PoolAlwaysTiled == Spec => []PoolTiled
<1>1. IInv => PoolTiled
  BY DEF IInv
<1> QED
  BY <1>1, Invariance, PTL

(* The used blocks of the list are exactly the client's allocations.       *)
THEOREM UsedAlwaysHeld == Spec => []UsedIsHeld
<1>1. IInv => UsedIsHeld
  BY DEF IInv
<1> QED
  BY <1>1, Invariance, PTL

(* Every pointer the client holds is a multiple of 8.                      *)
THEOREM PayloadsAlwaysAligned == Spec => []PayloadsAligned
<1>1. IInv => PayloadsAligned
  <2> SUFFICES ASSUME IInv, NEW p \in DOMAIN live PROVE p % 8 = 0
    BY DEF PayloadsAligned, ALIGN
  <2>1. /\ isInitialized /\ p - META \in DOMAIN hdr
        /\ p = Payload(p - META)
    BY HeldHasHeader
  <2>2. (p - META) % 8 = 0 /\ p - META \in Nat
    BY <2>1 DEF IInv, Rounded, ALIGN, TypeOK, Offsets
  <2> QED
    BY <2>1, <2>2, Sizes, MultiplesOf8 DEF Payload
<1> QED
  BY <1>1, Invariance, PTL

(* A call returns the lowest block that can hold the request, and fails    *)
(* only when there is none: the loop invariant at the loop's two exits.    *)
THEOREM FirstFitHolds == Spec => FirstFit
<1>1. IInv /\ [Next]_vars => [FirstFitStep]_vars
  <2> SUFFICES ASSUME IInv, Next, pc = "scan", pc' = "idle"
               PROVE  FirstFitStep
    BY DEF FirstFitStep
  <2> DEFINE usable == {a \in DOMAIN hdr :
                          hdr[a].free /\ hdr[a].size >= AlignUp(want)}
  <2>1. \A a \in DOMAIN hdr : Fits(a) <=> a \in usable
    BY DEF IInv, PassedDoNotFit, Fits
  <2>2. \A a \in DOMAIN hdr : a \in Nat
    BY DEF IInv, TypeOK, Offsets
  <2>3. CASE NotFound
    BY <2>1, <2>3 DEF NotFound, IInv, PassedDoNotFit, FirstFitStep
  <2>4. CASE TakeWhole \/ TakeSplit
    <3>1. out' = Payload(curr) /\ curr \in DOMAIN hdr /\ Fits(curr) /\ curr # NULL
      BY <2>4 DEF TakeWhole, TakeSplit, Return, IInv, PassedDoNotFit
    <3>2. \A b \in usable : curr <= b
      BY <2>1, <2>2, <3>1 DEF IInv, PassedDoNotFit
    <3> QED
      BY <2>1, <3>1, <3>2 DEF FirstFitStep
  <2>5. CASE Skip
    BY <2>5 DEF Skip
  <2>6. CASE \E n \in Requests : Malloc(n)
    BY <2>6 DEF Malloc
  <2>7. CASE \E p \in DOMAIN live : FreeAlone(p) \/ FreeMerging(p)
    BY <2>7 DEF FreeAlone, FreeMerging
  <2> QED
    BY <2>3, <2>4, <2>5, <2>6, <2>7 DEF Next, Scan
<1> QED
  BY <1>1, Invariance, PTL DEF Spec, FirstFit

-----------------------------------------------------------------------------
(* BabyMalloc implements Heap as long as no request is so large that its   *)
(* rounding wraps.                                                         *)

NoWrap == \A n \in Requests : n + 7 < WORD

(* Without wrapping, every block is as large as the request it serves.     *)
LEMMA RequestFitsStep ==
  ASSUME NoWrap, IInv, RequestFits, [Next]_vars
  PROVE  RequestFits'
<1> USE Sizes
<1>1. ASSUME NEW n \in Requests, Malloc(n) PROVE RequestFits'
  <2>1. CASE isInitialized
    BY <1>1, <2>1 DEF Malloc, RequestFits
  <2>2. CASE ~ isInitialized
    BY <1>1, <2>2 DEF Malloc, RequestFits, IInv, NotYetInitialized
  <2> QED
    BY <2>1, <2>2
<1>2. CASE Skip \/ NotFound \/ UNCHANGED vars
  BY <1>2 DEF Skip, NotFound, vars, RequestFits
<1>3. CASE TakeWhole \/ TakeSplit
  <2>1. /\ curr \in DOMAIN hdr /\ curr \in Int /\ Payload(curr) - META = curr
        /\ hdr[curr].free /\ hdr[curr].size >= size
        /\ hdr[curr].size \in Nat /\ size \in Nat
        /\ size = AlignUp(want) /\ want \in Requests
        /\ isInitialized
    BY <1>3, StopsInPool
    DEF TakeWhole, TakeSplit, Fits, Payload, IInv, PassedDoNotFit, TypeOK,
        Header, Offsets
  <2>2. size >= want
    BY <2>1, AlignUpCovers DEF NoWrap
  <2>3. live' = [p \in DOMAIN live \cup {Payload(curr)} |->
                  IF p = Payload(curr) THEN want ELSE live[p]]
    BY <1>3 DEF TakeWhole, TakeSplit, Return
  <2>4. hdr'[curr].size = hdr[curr].size \/ hdr'[curr].size = size
    <3>1. CASE TakeWhole
      <4>1. hdr' = [hdr EXCEPT ![curr].free = FALSE]
        BY <3>1 DEF TakeWhole
      <4>2. hdr[curr] \in Header
        BY <2>1 DEF IInv, TypeOK
      <4> QED
        BY <2>1, <4>1, <4>2 DEF Header
    <3>2. CASE TakeSplit
      BY <2>1, <3>2 DEF TakeSplit
    <3> QED
      BY <1>3, <3>1, <3>2
  <2>5. ASSUME NEW p \in DOMAIN live, p # Payload(curr)
        PROVE  hdr'[p - META].size = hdr[p - META].size
    <3>1. /\ p - META \in DOMAIN hdr /\ ~ hdr[p - META].free
      BY HeldHasHeader
    <3>2. CASE TakeWhole
      BY <2>1, <3>1, <3>2 DEF TakeWhole, IInv, TypeOK
    <3>3. CASE TakeSplit
      <4>1. Payload(curr) + size \notin DOMAIN hdr
        BY <2>1, <3>3
        DEF TakeSplit, Splits, Payload, End, IInv, PoolTiled, Disjoint, TypeOK,
            Offsets
      <4> QED
        BY <2>1, <3>1, <3>3, <4>1 DEF TakeSplit
    <3> QED
      BY <1>3, <3>2, <3>3
  <2>6. ASSUME NEW p \in DOMAIN live', p # Payload(curr)
        PROVE  hdr'[p - META].size >= live'[p]
    BY <2>3, <2>5, <2>6 DEF RequestFits
  <2>7. hdr'[Payload(curr) - META].size >= live'[Payload(curr)]
    <3>1. hdr'[curr].size \in Nat /\ hdr'[curr].size >= size
      BY <2>1, <2>4
    <3>2. want \in Nat
      BY <2>1, Sizes
    <3>3. live'[Payload(curr)] = want
      BY <2>3
    <3> QED
      BY <2>1, <2>2, <3>1, <3>2, <3>3
  <2> QED
    BY <2>3, <2>6, <2>7 DEF RequestFits
<1>4. ASSUME NEW p \in DOMAIN live, FreeAlone(p) PROVE RequestFits'
  <2>1. p - META \in DOMAIN hdr
    BY HeldHasHeader
  <2>2. \A a \in DOMAIN hdr : hdr'[a].size = hdr[a].size
    BY <1>4, <2>1 DEF FreeAlone, IInv, TypeOK
  <2>3. \A q \in DOMAIN live : q - META \in DOMAIN hdr
    BY HeldHasHeader
  <2> QED
    BY <1>4, <2>2, <2>3 DEF FreeAlone, Restrict, RequestFits
<1>5. ASSUME NEW p \in DOMAIN live, FreeMerging(p) PROVE RequestFits'
  <2>1. p - META \in DOMAIN hdr /\ hdr[hdr[p - META].next].free
    BY <1>5, HeldHasHeader DEF FreeMerging, MergesWithNext
  <2>2. ASSUME NEW q \in DOMAIN live, q # p
        PROVE  hdr'[q - META] = hdr[q - META]
    <3>1. /\ q - META \in DOMAIN hdr /\ ~ hdr[q - META].free
          /\ q - META # p - META
      BY <2>2, HeldHasHeader DEF Payload
    <3> QED
      BY <1>5, <2>1, <3>1 DEF FreeMerging
  <2> QED
    BY <1>5, <2>2 DEF FreeMerging, Restrict, RequestFits
<1> QED
  BY <1>1, <1>2, <1>3, <1>4, <1>5 DEF Next, Scan

(* The block the walk stops at is a range of its own: what it gives out    *)
(* lies in the pool and apart from everything the client holds.            *)
LEMMA TakeIsAllocate ==
  ASSUME NoWrap, IInv, RequestFits, TakeWhole \/ TakeSplit
  PROVE  \E n \in Requests : H!Allocate(n)
<1> USE Sizes
<1>1. /\ isInitialized /\ curr \in DOMAIN hdr /\ curr \in Offsets
      /\ hdr[curr].free /\ hdr[curr].size >= size
      /\ hdr[curr].size \in Nat /\ want \in Requests /\ size = AlignUp(want)
      /\ Payload(curr) \in Offsets
  BY StopsInPool
  DEF TakeWhole, TakeSplit, Fits, IInv, PassedDoNotFit, TypeOK, Header
<1>2. size >= want /\ size \in Nat /\ want \in Nat
  BY <1>1, AlignUpCovers, AlignUpType DEF NoWrap
<1>3. End(curr) <= POOL_SIZE
  BY <1>1 DEF IInv, PoolTiled, Chained, End, TypeOK, Offsets
<1>4. Payload(curr) + want <= POOL_SIZE
  BY <1>1, <1>2, <1>3 DEF End, Payload, Offsets
<1>5. ASSUME NEW q \in DOMAIN live
      PROVE  H!Apart(Payload(curr), want, q)
  <2>1. PICK b : b = q - META
    OBVIOUS
  <2>2. /\ b \in DOMAIN hdr /\ ~ hdr[b].free /\ hdr[b].size >= live[q]
        /\ b \in Offsets /\ q = b + META /\ hdr[b].size \in Nat
        /\ live[q] \in Nat
    <3>1. b \in DOMAIN hdr /\ ~ hdr[b].free /\ q = Payload(b)
      BY <2>1, <1>1, HeldHasHeader DEF IInv, UsedIsHeld, Payload, TypeOK, Offsets
    <3>2. b \in Offsets /\ hdr[b].size \in Nat /\ live[q] \in Nat
      BY <3>1 DEF IInv, TypeOK, Header, Offsets
    <3> QED
      BY <2>1, <3>1, <3>2 DEF RequestFits, Payload
  <2>3. b # curr
    BY <1>1, <2>2
  <2>4. b < curr => b + META + hdr[b].size <= curr
    BY <1>1, <2>2 DEF IInv, PoolTiled, Disjoint, End
  <2>5. curr < b => curr + META + hdr[curr].size <= b
    BY <1>1, <2>2 DEF IInv, PoolTiled, Disjoint, End
  <2> QED
    BY <1>1, <1>2, <2>2, <2>3, <2>4, <2>5 DEF H!Apart, Payload, Offsets
<1>6. live' = [q \in DOMAIN live \cup {Payload(curr)} |->
                IF q = Payload(curr) THEN want ELSE live[q]]
  BY DEF TakeWhole, TakeSplit, Return
<1> QED
  BY <1>1, <1>4, <1>5, <1>6 DEF H!Allocate, Offsets

(* A client whose requests do not wrap cannot tell the allocator from      *)
(* Heap, whatever the pool: every step gives out a range of its own, takes *)
(* one back, or leaves the client's allocations as they are.               *)
THEOREM HeapImplemented == ASSUME NoWrap PROVE Spec => ImplementsHeap
<1>1. Init => H!HeapInit /\ RequestFits
  BY DEF Init, H!HeapInit, RequestFits
<1>2. IInv /\ RequestFits /\ [Next]_vars => [H!HeapNext]_live
  <2> SUFFICES ASSUME IInv, RequestFits, [Next]_vars
               PROVE  [H!HeapNext]_live
    OBVIOUS
  <2>1. CASE TakeWhole \/ TakeSplit
    BY <2>1, TakeIsAllocate DEF H!HeapNext
  <2>2. ASSUME NEW p \in DOMAIN live, FreeAlone(p) \/ FreeMerging(p)
        PROVE  H!HeapNext
    BY <2>2 DEF FreeAlone, FreeMerging, Restrict, H!HeapNext, H!Release
  <2>3. CASE Skip \/ NotFound \/ UNCHANGED vars
    BY <2>3 DEF Skip, NotFound, vars
  <2>4. CASE \E n \in Requests : Malloc(n)
    BY <2>4 DEF Malloc
  <2> QED
    BY <2>1, <2>2, <2>3, <2>4 DEF Next, Scan
<1>3. IInv /\ RequestFits /\ [Next]_vars => RequestFits'
  BY RequestFitsStep
<1> QED
  BY <1>1, <1>2, <1>3, Invariance, PTL DEF Spec, ImplementsHeap, H!HeapSpec

-----------------------------------------------------------------------------
(* The walk ends.                                                          *)

(* Bytes of the pool ahead of the walk.                                    *)
Ahead == IF curr = NULL THEN 0 ELSE POOL_SIZE - curr

WalkAdvancesStep ==
  /\ Ahead \in Nat
  /\ pc = "scan" => pc' = "idle" \/ Ahead' + META <= Ahead
WalkAdvances == [][WalkAdvancesStep]_vars

(* No list the program can make is a circle: each turn of the loop leaves  *)
(* at least a header behind, so that bby_malloc returns after at most      *)
(* POOL_SIZE \div META turns and one more.                                 *)
THEOREM WalkAlwaysAdvances == Spec => WalkAdvances
<1>1. IInv /\ [Next]_vars => [WalkAdvancesStep]_vars
  <2> SUFFICES ASSUME IInv, Next PROVE WalkAdvancesStep
    OBVIOUS
  <2> USE Sizes DEF NULL, Ahead
  <2>1. Ahead \in Nat
    BY DEF IInv, TypeOK, Offsets
  <2>2. CASE Skip
    <3>1. /\ curr \in DOMAIN hdr /\ curr \in Nat /\ hdr[curr].size \in Nat
          /\ curr # NULL /\ curr' = hdr[curr].next /\ isInitialized
      BY <2>2 DEF Skip, IInv, PassedDoNotFit, TypeOK, Offsets, Header
    <3>2. \/ hdr[curr].next = NULL /\ End(curr) = POOL_SIZE
          \/ hdr[curr].next = End(curr) /\ End(curr) \in Offsets
      BY <3>1 DEF IInv, PoolTiled, Chained, TypeOK
    <3> QED
      BY <2>1, <3>1, <3>2 DEF End, Offsets, WalkAdvancesStep
  <2>3. CASE NotFound \/ TakeWhole \/ TakeSplit
    BY <2>1, <2>3 DEF NotFound, TakeWhole, TakeSplit, Return, WalkAdvancesStep
  <2>4. CASE \E n \in Requests : Malloc(n)
    BY <2>1, <2>4 DEF Malloc, WalkAdvancesStep
  <2>5. CASE \E p \in DOMAIN live : FreeAlone(p) \/ FreeMerging(p)
    BY <2>1, <2>5 DEF FreeAlone, FreeMerging, WalkAdvancesStep
  <2> QED
    BY <2>2, <2>3, <2>4, <2>5 DEF Next, Scan
<1>2. WalkAdvances <=> [][WalkAdvancesStep]_vars
  BY DEF WalkAdvances
<1> QED
  BY <1>1, <1>2, Invariance, PTL DEF Spec
=============================================================================
