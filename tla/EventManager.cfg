SPECIFICATION Spec
CONSTANTS
    Listeners = {l1, l2}
    Codes = {"press"}
    Tick = "tick"
    Foreign = "foreign"
    MaxListeners = 3
    QueueSize = 2
    MaxLevels = 2
    MaxEvents = 2
    MaxOps = 2
INVARIANTS
    TypeOK
    EveryListenerServed
    DispatchedOnceInOrder
    GoneStaysGone
PROPERTIES
    EventuallyDispatched
CHECK_DEADLOCK FALSE
