CONSTANTS
  Typed <- AllLines
  Programs <- SomePrograms
  Fails = {}
  MaxTokens = 6
  MaxChildren = 3
  PipeCapacity = 1
SPECIFICATION Spec
INVARIANTS OutputRedirected
CHECK_DEADLOCK FALSE
