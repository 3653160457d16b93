SPECIFICATION SyncSpec
CONSTANTS
    Unread = {n1}
    NoButton = NoButton
    MaxRun = 1
    MaxTries = 2
PROPERTY
    SyncReturns
CHECK_DEADLOCK FALSE
