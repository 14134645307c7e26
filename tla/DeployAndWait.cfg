\* Every caller; waits around and below one interval, arguments around the widths of
\* their types, and two competing blocks.
CONSTANTS
  Blocks = {b1, b2}
  NoBlock = NoBlock
  Entries <- EveryEntry
  Arguments <- EveryArgument
  U32 = 16
  U64 = 64
  DUST_FACTOR = 10
  MILLIS = 3
  Now = 5
SPECIFICATION FairSpec
INVARIANTS
  WaitsAreBounded
  ArgumentsArrive
  IInv
PROPERTIES
  AlwaysEnds
CHECK_DEADLOCK FALSE
