SPECIFICATION Spec
CONSTANTS
    t1 = t1
    t2 = t2
    t3 = t3
    k1 = k1
    Tx = {t1, t2, t3}
    Key = {k1}
    Self = self
    NoKey = nokey
    Validators = {k1}
    IsValidator = FALSE
    Threshold = 2
    Bootstrap <- NoBootstrap
    RemoteChain <- Remote3
    Synced = 1
    Lists = {"right"}
    Handlers = {c1}
    Builders = {b1, b2}
    Executors = {e1, e2}
    MaxSends = 1
    MaxCrashes = 0
    MaxFaults = 0
    MaxHeight = 4
SYMMETRY TaskSymmetry
INVARIANT NoPanic
