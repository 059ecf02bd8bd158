SPECIFICATION Spec
CONSTANTS
    t1 = t1
    t2 = t2
    t3 = t3
    t4 = t4
    Tx = {t1, t2, t3, t4}
    kind <- MCkind
    parts <- MCparts
    fuel_limit <- MClimit
    FUEL_LIMIT = 1
    BurnMethod = TRUE
    Funds = 3
    Moves <- Moving
    MaxRuns = 2
INVARIANTS Atomic FuelAccounted IndexedOnce
