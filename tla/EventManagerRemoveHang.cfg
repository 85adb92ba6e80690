SPECIFICATION Spec
CONSTANTS
    Listeners = {l1, l2}
    Codes = {"press"}
    Tick = "tick"
    Foreign = "foreign"
    MaxListeners = 2
    QueueSize = 2
    MaxLevels = 2
    MaxEvents = 3
    MaxOps = 2
PROPERTY RemovalReturns
CHECK_DEADLOCK FALSE
