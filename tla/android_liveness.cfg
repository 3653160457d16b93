SPECIFICATION ASpec
CONSTANTS
    Ua = {u1, u2}
    Call = {c1}
    NoUa = NoUa
    NoCall = NoCall
    Code <- MCCode
    MaxSession = 2
    MaxPipe = 1
    MaxInbox = 1
    MaxAm = 2
    Careful = TRUE
PROPERTIES
    StopEndsService
CHECK_DEADLOCK FALSE
