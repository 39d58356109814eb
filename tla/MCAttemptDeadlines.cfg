SPECIFICATION FairSpec
INVARIANT AttemptBounded
INVARIANT TimedOutInFull
PROPERTY AttemptEnds
CHECK_DEADLOCK FALSE
CONSTANTS
    ConnectTimeouts = {3, 5, 9}
    IoTimeout = 2
    IntModulus = 8
    RequestSize = 2
    ReplySize = 3
    MaxSignals = 2
    Horizon = 40
