SPECIFICATION SipSpec
CONSTANTS
    MaxRequests = 3
    LoopLimit = 3
    Ssrc = {s1, s2}
    NumberBits = 4
    MinFrames = 2
    MaxFrames = 3
    MaxPosition = 5
    Lag = 3
    Nothing = Nothing
INVARIANTS
    SipTypes
    FreedIsQuiet
    NoOrphanCall
    RegIsDriven
PROPERTIES
    ReleasedIsFreed
    RingingEnds
    BindingEnds
    PlayedInOrder
CHECK_DEADLOCK FALSE
