SPECIFICATION FairSpec
CONSTANTS
    a = a
    b = b
    c = c
    t1 = t1
    None = None
    Node = {a, b, c}
    Tx = {t1}
    Net <- MCNet
    TxNet <- MCTxNet
    Validator = {a}
    InitHeight <- MCInitHeight
    Boot <- MCBoot
    MaxHeight = 2
    Plans <- MCPlans
CHECK_DEADLOCK FALSE
INVARIANTS OriginHasIt NoEcho
PROPERTIES EveryUnicastEnds TxSpreads
