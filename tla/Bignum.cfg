SPECIFICATION Spec
CONSTANTS
    Base = 16
    MaxWords = 3
    Regs = {"x", "y"}
    Results = {"x"}
    Ints <- MC_Ints
INVARIANTS
    TypeOK
    AllCanonical
    IInv
    SumKept
    ComparisonOK
PROPERTIES
    ImplementsIntegers
CHECK_DEADLOCK FALSE
