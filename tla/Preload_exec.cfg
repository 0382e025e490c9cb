CONSTANTS
    c1 = c1
    c2 = c2
    c3 = c3
    n = n
    m = m
    ann = ann
    bob = bob
    g = g
    x = x
    y = y
    z = z
    v = v
    None = None
    Nobody = Nobody
    p1 = p1
    p2 = p2
    Preloader = {p1, p2}
    Tag = {"preload", "endors"}
    Contract = {c1, c2, c3}
    Name <- MCName
    Genesis = g
    Block = {x, y, z}
    Parent <- MCParent
    Txs <- MCTxs
    World0 <- MCWorld0
    MaxStarts = 2
    MaxStores = 2
    MaxRollbacks = 1
    MaxFaults = 1
SPECIFICATION Spec
CHECK_DEADLOCK FALSE
INVARIANTS TypeOK ResultsAreIsolated LogsReplayToView
PROPERTY RollbackRestores
