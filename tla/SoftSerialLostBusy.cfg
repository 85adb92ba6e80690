SPECIFICATION Safety
CONSTANTS
    Size = 2
    Elem = {0, 1}
    Zero = 0
    StopBitPos = 2
    MaxWrites = 5
    FastWrite = FALSE
INVARIANT ReleasedAfterStop
CHECK_DEADLOCK FALSE
