CONSTANTS
    me = me
    p = p
    q = q
    m1 = m1
    m2 = m2
    m3 = m3
    m4 = m4
    f = f
    Node = {me, p, q}
    Me = me
    Seed = p
    Block = {m1, m2, m3, m4}
    NoBlock = NoBlock
    Parent <- MCParent
    Main = {m1, m2, m3, m4}
    Starts <- LiveStarts
    Scale = 2
    Reliable = TRUE
    Lossy = FALSE
    MaxPrompts = 0
    MaxRestarts = 0
SPECIFICATION FairSpec
CHECK_DEADLOCK FALSE
PROPERTIES PublishedIsStored CacheDrains ConsensusStarts
