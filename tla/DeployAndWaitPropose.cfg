\* The constants of DeployAndWait.cfg.
CONSTANTS
  Blocks = {b1, b2}
  NoBlock = NoBlock
  Entries <- EveryEntry
  Arguments <- EveryArgument
  U32 = 16
  U64 = 64
  DUST_FACTOR = 10
  MILLIS = 3
  Now = 5
SPECIFICATION Spec
INVARIANT ProposeIsBeforeTheWait
CHECK_DEADLOCK FALSE
