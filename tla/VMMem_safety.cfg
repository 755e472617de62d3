SPECIFICATION Spec
CONSTANTS
    numheapwords = 8
    stacklen = 1
    VM_NUM_VAL_ROOTS = 2
    GcLenLimit = 30
    Immediates <- MC_OneImmediate
    UNINITIALIZED = 15
    BodyWords <- MC_BodyWords
    ClientRegs <- MC_RegsA
    MaxObjects = 4
    MaxWords = 2
    CdrPointers = FALSE
    ConsWhenFull = FALSE
INVARIANTS
    TypeOK
    NoAssertFails
    HeapLayout
    PointersOK
    Forwarding
    IInv
CHECK_DEADLOCK FALSE
