SPECIFICATION Spec
CONSTANTS
    a1 = a1
    a2 = a2
    t1 = t1
    k = k
    p1 = p1
    p2 = p2
    h1 = h1
    h2 = h2
    Table = {t1}
    Account = {a1, a2}
    Key = {k}
    Level = {0, 1, 2, 4}
    Stamp = {1, 2}
    Handler = {h1, h2}
    Request <- Requests
    Password = {p1, p2}
    Files <- OnDisk
    NoFile = NoFile
    Broken = Broken
    MaxTableBlocks = 2
    MaxDataBlocks = 0
    MaxInBlock = 2
    MaxRestarts = 0
CONSTRAINT Narrow
SYMMETRY Alike
INVARIANTS TableUnique
CHECK_DEADLOCK FALSE
