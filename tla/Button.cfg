SPECIFICATION Spec
CONSTANTS
    ShortDur = 1
    MediumDur = 3
    LongDur = 4
    LongLongDur = 5
    NoCounting = 99
    MaxEdges = 8
    MaxQueue = 3
INVARIANTS
    TypeOK
    CountsOnePress
    EdgeAwaitedIsPossible
PROPERTIES
    ReleaseReported
CHECK_DEADLOCK FALSE
