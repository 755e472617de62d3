SPECIFICATION Spec
CONSTANTS
    stacklen = 2
    MaxSP = 3
    FixRange = 1
    MaxInt = 2
    Code <- MC_AnyCode
    Reruns = TRUE
INVARIANTS
    TypeOK
    LiveValues
    NothingUndefined
PROPERTIES
    ArithmeticExact
CHECK_DEADLOCK FALSE
