SPECIFICATION FairSpec
CONSTANTS
    Peer = {"a", "b", "c"}
    Common = 0
    Threads = 2
    ChanMax = 1
    MaxAttempts = 3
    LatestWindow = 2
    Plans <- MCPlans
INVARIANT WaitIsNotInVain
PROPERTIES
    RoundsEnd
    CatchesUp
CHECK_DEADLOCK FALSE
