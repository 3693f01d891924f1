\* Words of the address space, entries of a queue, the width of a row and the
\* size of an int are small; a vector grows twice.
CONSTANTS
  Files <- MCFiles
  IdentSize = 1
  HeaderSize = 2
  PhdrSize = 1
  Words = 16

  Vals = {1, 2}
  MaxPushes = 9

  Levels = {0, 1}
  MaxProcesses = 3

  Formats <- MCFormats
  Strings <- MCStrings
  Chars <- MCChars
  MaxInt = 127

  Dumped <- MCDumped
  Width = 2

  NSIG = 5
  Left = {2}
  Ignored = {4}
  Queued = {3, 4}
  MaxSent = 4

  Seconds = 2
  Ticks = 2
  MaxInterrupts = 3

SPECIFICATION Spec

\* The programs end.
CHECK_DEADLOCK FALSE

INVARIANTS
  ImageLoaded
  Released
  VectorHolds
  QueuesAreFifo
  SysoutPrints
  DumpShowsFile
  SignalsLogged
  SleepsItOut
