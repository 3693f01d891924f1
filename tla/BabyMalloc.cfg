CONSTANTS
  POOL_SIZE = 128
  META = 24
  WORD = 256
  Requests <- OrdinaryRequests
SPECIFICATION FairSpec
INVARIANTS TypeOK PoolTiled UsedIsHeld
PROPERTIES FirstFit ScanEnds ImplementsHeap
