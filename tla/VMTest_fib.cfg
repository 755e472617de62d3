SPECIFICATION TestSpec
CONSTANTS
    stacklen = 24
    MaxSP = 65535
    FixRange = 8
    MaxInt = 64
    Scripts <- MC_RegisterOverFib
    Code <- MC_Code
    Reruns = FALSE
INVARIANT
    LiveValues
CHECK_DEADLOCK FALSE
