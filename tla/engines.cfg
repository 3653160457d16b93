SPECIFICATION EnginesSpec
CONSTANTS
    Ua = {u1, u2}
    Call = {c1}
    NoUa = NoUa
    NoCall = NoCall
    Code <- MCCode
    MaxSession = 2
    MaxPipe = 2
    MaxInbox = 1
    Sequential = TRUE
    MaxPlace = 2
    Hang = {h1}
    Ui = Ui
    None = None
    Buffer = 1
INVARIANTS
    EngineTypes
    LoopIsKnown
PROPERTIES
    NoInitUnderLoop
    ShutdownReturns
    LostCallEnds
    HangupIsReported
CHECK_DEADLOCK FALSE
