CONSTANTS
    me = me
    p = p
    q = q
    m1 = m1
    m2 = m2
    m3 = m3
    m4 = m4
    f = f
    Node = {me, p, q}
    Me = me
    Seed = p
    Block = {m1, m2, m3, f}
    NoBlock = NoBlock
    Parent <- MCParent
    Main = {m1, m2, m3}
    Starts <- SafeStarts
    Scale = 2
    Reliable = FALSE
    Lossy = TRUE
    MaxPrompts = 1
    MaxRestarts = 1
SPECIFICATION Spec
CHECK_DEADLOCK FALSE
INVARIANTS TypeOK StatusIsTop
PROPERTIES AgreedBlockKept
