SPECIFICATION FairSpec
CONSTANTS
    t1 = t1
    t2 = t2
    t3 = t3
    k1 = k1
    Tx = {t1, t2}
    Key = {k1}
    Self = self
    NoKey = nokey
    Validators = {self}
    IsValidator = TRUE
    Threshold = 2
    Bootstrap <- NoBootstrap
    RemoteChain <- Alone
    Synced = 0
    Lists = {"right"}
    Handlers = {c1, c2}
    Builders = {b1, b2}
    Executors = {e1, e2}
    MaxSends = 1
    MaxCrashes = 1
    MaxFaults = 1
    MaxHeight = 4
INVARIANTS TypeOK ExecutorAtTip TxAccounted SlotsContiguous
PROPERTIES LedgerSpec AcceptedIsCommitted TasksEnd
