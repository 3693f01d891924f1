CONSTANTS
  Shells <- OneShell
  Commands <- WriteCommands
  Cut <- ExactCut
  Faults = {"kill"}
  MaxLines = 2
  Junk = Junk
SPECIFICATION Spec
INVARIANT Durable
