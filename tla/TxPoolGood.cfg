\* A proposer that loses only to blocks that are on their way.
SPECIFICATION GoodSpec
CONSTANTS
    t1 = t1
    t2 = t2
    t3 = t3
    b1 = b1
    b2 = b2
    Tx <- Two
    Stamp <- Stamps
    External = {b1, b2}
    Payload <- Payloads
    PackNumbers = {1, 2}
    Selections = {1}
    MaxSize = 2
    MaxCells = 2
    MaxClock = 5
PROPERTIES PeriodicCheck HandlerReturns
CHECK_DEADLOCK FALSE
