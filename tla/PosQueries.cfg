\* Two validators, a chain of up to three blocks, epochs of no, one and two blocks.
CONSTANTS
    Validator = {v1, v2}
    EpochLengths = {0, 1, 2}
    MaxBlocks = 3
SPECIFICATION Spec
INVARIANTS IInv UnderflowNeedsTwoBlocks
SYMMETRY Validators2
CHECK_DEADLOCK FALSE
