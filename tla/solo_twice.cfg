SPECIFICATION Spec
CONSTANTS
    t1 = t1
    t2 = t2
    t3 = t3
    k1 = k1
    Tx = {t1}
    Key = {k1}
    Self = self
    NoKey = nokey
    Validators = {self}
    IsValidator = TRUE
    Threshold = 1
    Bootstrap <- NoBootstrap
    RemoteChain <- Alone
    Synced = 0
    Lists = {"right"}
    Handlers = {c1, c2}
    Builders = {b1, b2}
    Executors = {e1, e2}
    MaxSends = 2
    MaxCrashes = 0
    MaxFaults = 0
    MaxHeight = 4
INVARIANT NoDoubleCommit
