SPECIFICATION AppSpec
CONSTANTS
    Device = {d1, d2}
    NoKey = NoKey
    MaxToken = 2
    MaxSender = 2
    MaxAttempts = 2
    Unread = {n1, n2}
    NoButton = NoButton
    MaxRun = 2
    MaxTries = 2
    Caller = {a, b}
    MaxId = 3
    Absent = Absent
    Empty = Empty
    NoId = NoId
    Save = {s1, s2}
    MaxClock = 1
    NoSave = NoSave
    Torn = Torn
    MaxJob = 3
    SimBuffer = 1
    MaxPlayer = 3
    NoPlayer = NoPlayer
INVARIANTS
    AppTypes
    RememberedWasAccepted
    CurrentTokenIsKnown
    ButtonIsCurrent
    IdIsStable
    AnswerIsTrue
PROPERTIES
    LastWordIsHeard
    ForgottenPlayerEnds
CHECK_DEADLOCK FALSE
