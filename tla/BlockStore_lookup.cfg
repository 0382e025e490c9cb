CONSTANTS
    g = g
    a = a
    b1 = b1
    c = c
    d = d
    t1 = t1
    t2 = t2
    t3 = t3
    k = k
    j = j
    Block = {g, a, b1, c, d}
    NoHash = NoHash
    Parent <- MCParent
    Height <- MCHeight
    Tx = {t1, t2, t3}
    Txs <- MCTxs
    Key = {k, j}
    Value = {0, 1, 2, 3}
    NoValue = 0
    Logs <- MCLogs
    Size <- MCSize
    FileMax = 3
    CacheSize = 2
    FollowUp = {"reset"}
    Overlap = FALSE
    MaxHeight = 4
    MaxFile = 2
    MaxRollbacks = 0
    MaxFaults = 0
SPECIFICATION Spec
CHECK_DEADLOCK FALSE
INVARIANTS LookupReturns
