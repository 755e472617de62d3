SPECIFICATION CallSpec
CONSTANTS
    stacklen = 13
    MaxSP = 65535
    FixRange = 8
    MaxInt = 64
    Code <- MC_Calls
    Reruns = FALSE
    Fib <- MC_Fib
INVARIANTS
    MInv
    CallInv
    EnoughStack
PROPERTIES
    CallReturnsFib
CHECK_DEADLOCK FALSE
