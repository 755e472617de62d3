SPECIFICATION Spec
CONSTANTS
    stacklen = 3
    MaxSP = 65535
    FixRange = 8
    MaxInt = 64
    Code <- MC_Frame
    Reruns = FALSE
INVARIANT
    NothingUndefined
CHECK_DEADLOCK FALSE
