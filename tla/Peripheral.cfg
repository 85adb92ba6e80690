SPECIFICATION Spec
CONSTANTS
    MaxEvents = 6
    MaxPresses = 3
    MaxQueue = 3
INVARIANTS
    TypeOK
    FlagsFollowLink
    OnlyRacesHalt
    
PROPERTIES
    AdvertisesAgain
CHECK_DEADLOCK FALSE
