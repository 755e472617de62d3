SPECIFICATION LilyvmSpec
CONSTANTS
    Paths <- MC_Paths
    Absent = Absent
    Program <- MC_Program
    Earlier <- MC_Earlier
    MaxFds = 2
    Argvs <- MC_Argvs
    atoi <- MC_atoi
INVARIANTS
    TypeOK
    MappingBacked
    Released
    AsAsked
    MainInv
PROPERTIES
    Durable
    Terminates
CHECK_DEADLOCK FALSE
