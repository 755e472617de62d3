SPECIFICATION Spec
CONSTANTS
    numheapwords = 7
    stacklen = 1
    VM_NUM_VAL_ROOTS = 1
    GcLenLimit = 30
    Immediates <- MC_OneImmediate
    UNINITIALIZED = 15
    BodyWords <- MC_BodyWords
    ClientRegs <- MC_RegsA
    MaxObjects = 3
    MaxWords = 2
    CdrPointers = TRUE
    ConsWhenFull = FALSE
INVARIANTS
    PointersOK
CHECK_DEADLOCK FALSE
