\* Four transactions, one block of another node, set-pkg_num between two runs.
SPECIFICATION CalmSpec
CONSTANTS
    t1 = t1
    t2 = t2
    t3 = t3
    b1 = b1
    b2 = b2
    Tx <- Three
    Stamp <- Stamps
    External = {b1}
    Payload <- Payloads
    PackNumbers = {1, 2}
    Selections = {0, 1}
    MaxSize = 3
    MaxCells = 4
    MaxClock = 4
INVARIANTS IInv PackedAreOld OwnOnce
PROPERTIES LeavesIntoChain
CONSTRAINT Drift
CHECK_DEADLOCK FALSE
