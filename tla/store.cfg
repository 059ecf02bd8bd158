SPECIFICATION FairSpec
CONSTANTS
    Tx <- MCTx
    Contract <- MCContract
    Network = "x"
    Genesis = {"s"}
    CacheMax = 1
    Task = {1, 2}
    Plans <- MCPlans
INVARIANTS
    ReadsAreAtomic
    AccountReadsForward
    MissedIsMerged
    CalledWasStored
    EventsPublished
PROPERTY RequestsEnd
CHECK_DEADLOCK FALSE
