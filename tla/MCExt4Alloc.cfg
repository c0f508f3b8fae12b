SPECIFICATION Spec
CONSTANTS
    Shapes <- FileSystems
    Requests <- Wanted
    MaxInodes = 6
INVARIANTS
    TypeOK
    NoBlockTwice
    CountsRight
    WholeFiles
    InodesFindable
    HandsOver
PROPERTY
    Ends
CHECK_DEADLOCK FALSE
