\* Up to two tests, three blocks on any branches, timeouts around one interval.
CONSTANTS
    Arguments <- EveryArgument
    U32 = 8
    U64 = 64
    DUST_FACTOR = 10
    MaxBlocks = 3
SPECIFICATION FairSpec
INVARIANTS IInv SuccessIsForever WaitsAreBounded
PROPERTIES FinalIsNotCalledOrphaned AlwaysEnds StepsRunOut
CHECK_DEADLOCK FALSE
