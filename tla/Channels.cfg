CONSTANTS
    NumChannels = 3
    NumSlots = 2
    NumPpi = 5
    TonePpi = 4
    Buttons = {1, 2}
    Outputs = {0, 3}
    MaxCount = 1
SPECIFICATION ChannelsSpec
INVARIANTS
    ChannelsTypeOK
    
    
CHECK_DEADLOCK FALSE
