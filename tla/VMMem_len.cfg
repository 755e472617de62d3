SPECIFICATION Spec
CONSTANTS
    numheapwords = 16
    stacklen = 1
    VM_NUM_VAL_ROOTS = 1
    GcLenLimit = 3
    Immediates <- MC_OneImmediate
    UNINITIALIZED = 15
    BodyWords <- MC_BodyWords
    ClientRegs <- MC_RegsA
    MaxObjects = 4
    MaxWords = 3
    CdrPointers = FALSE
    ConsWhenFull = FALSE
INVARIANTS
    NoAssertFails
CHECK_DEADLOCK FALSE
