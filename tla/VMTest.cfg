SPECIFICATION TestSpec
CONSTANTS
    stacklen = 24
    MaxSP = 65535
    FixRange = 8
    MaxInt = 64
    Scripts <- MC_Scripts
    Code <- MC_Code
    Reruns = FALSE
INVARIANTS
    LiveValues
    NothingUndefined
    TestsSucceed
PROPERTIES
    ArithmeticExact
    TestsComplete
CHECK_DEADLOCK FALSE
