SPECIFICATION Spec
CONSTANTS
    Handlers = {c1, c2}
    MaxTip = 2
    MaxDraws = 2
    MaxFaults = 1
INVARIANTS NoCircularWait DrawnFromTip FirstDrawsRepeatable
