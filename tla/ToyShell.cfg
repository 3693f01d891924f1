CONSTANTS
  Typed <- AllLines
  Programs <- SomePrograms
  Fails = {"fork", "pipe", "open", "interrupt"}
  MaxTokens = 6
  MaxChildren = 3
  PipeCapacity = 1
SPECIFICATION FairSpec
INVARIANTS TypeOK WaitsBalance PipelineWaitedFor StdioAsTyped
PROPERTIES PromptReturns
\* the shell stops when it is told to
CHECK_DEADLOCK FALSE
