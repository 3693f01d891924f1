CONSTANTS
  Copiers <- OneThread
  Argv <- MixedArgv
  Destination = "dst"
  InitialFiles <- Disk
  Unwritable <- ReadOnly
  Faults <- IOFaults
  Damaged = Damaged
SPECIFICATION Spec
INVARIANTS LastCopyStands
PROPERTIES ImplementsBatch
