CONSTANTS
  Shells <- OneShell
  Commands <- MixedCommands
  Cut <- ExactCut
  Faults = {"kill", "disk"}
  MaxLines = 2
  Junk = Junk
SPECIFICATION Spec
INVARIANTS TypeOK UniqueKeys GetFindsTokens
PROPERTIES OnlyTruncationDestroys ImplementsMap
