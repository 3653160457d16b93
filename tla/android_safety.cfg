SPECIFICATION ASpec
CONSTANTS
    Ua = {u1, u2}
    Call = {c1, c2}
    NoUa = NoUa
    NoCall = NoCall
    Code <- MCCode
    MaxSession = 2
    MaxPipe = 1
    MaxInbox = 2
    MaxAm = 2
    Careful = FALSE
SYMMETRY Symmetry
INVARIANTS
    ATypeOK
    JoinIsShort
    ToneNeedsService
    SessionBrackets
    
CHECK_DEADLOCK FALSE
