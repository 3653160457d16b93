SPECIFICATION Spec
CONSTANTS
    Ua = {u1, u2}
    Call = {c1, c2}
    NoUa = NoUa
    NoCall = NoCall
    Code <- MCCode
    MaxSession = 2
    MaxPipe = 2
    MaxInbox = 1
INVARIANT
    CurrentUaIsLive
CHECK_DEADLOCK FALSE
