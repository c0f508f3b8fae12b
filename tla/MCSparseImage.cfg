SPECIFICATION Spec
CONSTANTS
    NumBlocks = 6
    Layouts <- FileSystems
    Formats = {"sparse", "gz", "flat"}
    WideLong = TRUE
    HalfBlocks = 3
    MaxMishaps = 1
INVARIANTS
    TypeOK
    InOrder
PROPERTIES
    Atomic
    Delivers
CHECK_DEADLOCK FALSE
