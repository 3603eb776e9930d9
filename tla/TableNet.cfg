SPECIFICATION Spec
CONSTANTS
    n1 = n1
    n2 = n2
    j = j
    t1 = t1
    t2 = t2
    t3 = t3
    Node = {n1, n2, j}
    Joiner = {j}
    Tx = {t1, t2, t3}
    Stamp <- Stamps
    PoolMax = 2
    MaxTurns = 3
    MaxCrashes = 1
    MaxRestarts = 1
CONSTRAINT Narrow
SYMMETRY Alike
INVARIANTS Inv PackedOnce SameTail
CHECK_DEADLOCK FALSE
