SPECIFICATION Spec
CONSTANTS
    NumClusters = 6
    Copies = 2
    Slots = 3
    Cases <- Cards
    MaxMishaps = 1
INVARIANTS
    TypeOK
    OkMeansSound
    NothingPending
PROPERTIES
    InnocentKept
    ReadOnly
    Settles
