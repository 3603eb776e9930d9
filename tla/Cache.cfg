SPECIFICATION Spec
CONSTANTS
    k1 = k1
    k2 = k2
    g1 = g1
    g2 = g2
    Key = {k1, k2}
    Getter = {g1, g2}
    Payload <- One
    TxMax = 0
    IndexMax = 1
    MaxBlocks = 2
    MaxCells = 3
    MaxCrashes = 1
CONSTRAINT Narrow
VIEW Live
INVARIANTS TypeOK Fresh Genuine AloneSafe
CHECK_DEADLOCK FALSE
