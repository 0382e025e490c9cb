CONSTANTS
    w1 = w1
    w2 = w2
    x = x
    y = y
    big = big
    Tx = {x, y, big}
    Size <- MCSize
    Elsewhere = {x}
    Worker = {w1, w2}
    Modes = {"pool", "worker"}
    CheckOnEntry = TRUE
    MaxCache = 1
    Limit = 1
    Least = 1
    BlockLength = 6
    Persist = TRUE
    MaxReceived = 2
    MaxFaults = 1
    MaxStops = 1
SPECIFICATION FairSpec
CHECK_DEADLOCK FALSE
INVARIANTS TypeOK  FreshUnlessOvertaken
PROPERTIES LeavesStoredOrAged PoolDrains
