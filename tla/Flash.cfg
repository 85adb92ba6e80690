SPECIFICATION Spec
CONSTANTS
    NumWords = 2
    Values = {"a", "b"}
    QueueSize = 2
    MaxJobs = 3
INVARIANTS
    TypeOK
    PendingTracksDevice
    StatusIsOwn
    AloneWritesInOrder
PROPERTIES
    EveryCallReturns
CHECK_DEADLOCK FALSE
