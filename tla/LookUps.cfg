SPECIFICATION Spec
CONSTANTS
    k1 = k1
    k2 = k2
    k3 = k3
    k4 = k4
    k5 = k5
    k6 = k6
    k7 = k7
    k8 = k8
    g1 = g1
    Key = {k1, k2, k3, k4, k5, k6, k7, k8}
    Getter = {g1}
    Payload <- One
    TxMax = 0
    IndexMax = 3
    MaxBlocks = 1
    MaxCells = 10
    MaxCrashes = 0
CONSTRAINT InOrder
VIEW Live
INVARIANTS NoNil
CHECK_DEADLOCK FALSE
