CONSTANTS
  NUM_THREADS = 2
  Copiers <- TwoThreads
  Argv <- ApartArgv
  Destination = "dst"
  InitialFiles <- Disk
  Unwritable <- ReadOnly
  Faults <- AllFaults
  Damaged = Damaged
SPECIFICATION FairSpec
INVARIANTS TypeOK JobsClaimedOnce CopiesFaithful
PROPERTIES OnlyTargetsChange Terminates ImplementsBatch
