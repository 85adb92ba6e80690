SPECIFICATION Safety
CONSTANTS
    NumWords = 2
    Values = {"a", "b"}
    QueueSize = 2
    MaxJobs = 3
INVARIANT NumberReturnedWasWritten
CHECK_DEADLOCK FALSE
