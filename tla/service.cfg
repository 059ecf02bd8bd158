SPECIFICATION FairSpec
CONSTANTS
    tx = tx
    blk = blk
    i1 = i1
    i2 = i2
    k1 = k1
    r1 = r1
    b1 = b1
    Rest = {r1}
    Bridge = {b1}
    Local = {k1}
    Event = {tx, blk}
    Id = {i1, i2}
    Transaction = tx
    RestReq <- MCRestReq
    BridgeReq <- MCBridgeReq
    LocalReq <- MCLocalReq
    ChannelBound = 2
    MaxPackLevel = 2
    Plans <- MCPlans
    MaxRequests = 2
    MaxEvents = 1
    Owner = owner
CHECK_DEADLOCK FALSE
INVARIANTS NoEventLost BridgeKeepsListening AnsweredAsAsked
PROPERTY EveryRequestEnds
