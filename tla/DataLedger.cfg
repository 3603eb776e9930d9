SPECIFICATION Spec
CONSTANTS
    n1 = n1
    n2 = n2
    j = j
    v = v
    w = w
    x = x
    y = y
    z = z
    Node = {n1, n2, j}
    Joiner = {j}
    Proposer = {n1, n2, j}
    Tx = {v, w, x, y, z}
    Payload <- Payloads
    R = 3
    MaxBlocks = 3
CONSTRAINT Narrow
SYMMETRY Alike
INVARIANTS Inv SeedFound FindsRound OneLine RootBinds
CHECK_DEADLOCK FALSE
