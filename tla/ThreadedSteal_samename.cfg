CONSTANTS
  NUM_THREADS = 2
  Copiers <- TwoThreads
  Argv <- SameNameArgv
  Destination = "dst"
  InitialFiles <- Disk
  Unwritable <- ReadOnly
  Faults = {}
  Damaged = Damaged
SPECIFICATION Spec
INVARIANT TargetsWhole
