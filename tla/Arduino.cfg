CONSTANTS
    Literals <- MCLiterals
    Positions = {0, 3}
    MaxLength = 4
    LongRange = 1048576
    Numbers <- MCNumbers
    Bases = {0, 2, 10, 16}
    Thousandths <- MCThousandths
    FloatLimit = 1000000
    Formats <- MCFormats
    Bytes = {0, 97, 98, 45, 46, 49}
    Targets <- MCTargets
    Terminators <- MCTerminators
    SkipChar = 98
    MaxInput = 3
    BuffSize = 3
    FifoSize = 2
    MaxBytes = 4
    MaxSent = 2
    MaxBegins = 2
    RxSize = 3
    MaxPacket = 2
    MaxReceived = 5
    MaxLinks = 2
    MaxReads = 5
    AdcQueueSize = 1
    PwmValues = {1, 17, 254, 4000, 65533}
    Period = 3
    Half = 3
    Word = 6
    WaitTicks = 1
    Durations = {1, 3}
    MaxNow = 6
    QueueSize = 2
    MaxEdges = 4
    MaxRadio = 2
    UintRange = 1048576
    LongMax = 127
    ScaleValues <- MCScaleValues
    StackWords = 5
    HeapWords = 3
    WarnLevel = 3
    Frames = {1, 2}
    PinsCount = 7
    Data = 1
    Clk = 2
    ShiftBits = 3
    ShiftValues = {{0}, {1, 2}}
    PinModes = {"INPUT_PULLUP", "OUTPUT", "S0D1", "D0H1"}
    PulseTimeouts = {0, 1}
    PulseWord = 128
SPECIFICATION Spec
INVARIANTS
    
    
    StreamExact
    SerialInOrder
    
    AdcAnswers
    ValuesScale
    
    
    WatcherTells
    PinsExact
 
CHECK_DEADLOCK FALSE
