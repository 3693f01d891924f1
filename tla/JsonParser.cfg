\* Two members or elements each, two containers below the root, one of the
\* three oddities in a text.
CONSTANTS
  Names <- MCNames
  Scalars <- MCScalars
  MaxDepth = 3
  MaxItems = 2
  MaxOdd = 1
  StackSize = 2
  BufferSize = 5
  FullKeySize = 8
  IndexSize = 3
  IntMax = 2147483647
  FloatExact = 8388608

SPECIFICATION FairSpec

\* The program ends with its file.
CHECK_DEADLOCK FALSE

INVARIANTS
  TypeOK
  
PROPERTIES
  ReadsToEnd
