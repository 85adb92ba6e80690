SPECIFICATION Spec
CONSTANTS
    Size = 2
    Elem = {0, 1}
    Zero = 0
    StopBitPos = 2
    MaxWrites = 5
    FastWrite = TRUE
INVARIANTS
    TypeOK
    OnceInOrder
    BusyCoversSlot
    HandedOver
PROPERTIES
    PipeSpec
    Drains
CHECK_DEADLOCK FALSE
