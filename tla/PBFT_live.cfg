CONSTANTS
    n1 = n1
    n2 = n2
    n3 = n3
    n4 = n4
    g = g
    b1 = b1
    b2 = b2
    b3 = b3
    Node = {n1, n2, n3, n4}
    Stable = {n1, n2, n3}
    Order <- MCOrder
    Block = {g, b1}
    Genesis = g
    NoHash = NoHash
    Creator <- MCCreator
    F = 1
    RequesterOf <- OneEach
    Scale = 2
    VoteNodeMin = 3
    VerifyOfEndorsement = TRUE
    MaxIndex = 1
    MaxRestarts <- NoRestart
SPECIFICATION FairSpec
CHECK_DEADLOCK FALSE
PROPERTIES BlockIsPublished
