CONSTANTS
    n1 = n1
    n2 = n2
    n3 = n3
    n4 = n4
    g = g
    b1 = b1
    b2 = b2
    b3 = b3
    Node = {n1, n2, n3, n4}
    Stable = {n1, n2, n3}
    Order <- MCOrder
    Block = {g, b1, b3}
    Genesis = g
    NoHash = NoHash
    Creator <- MCCreator
    F = 1
    RequesterOf <- Shared
    Scale = 2
    VoteNodeMin = 3
    VerifyOfEndorsement = TRUE
    MaxIndex = 0
    MaxRestarts <- RestartOfOne
SPECIFICATION Spec
CHECK_DEADLOCK FALSE
INVARIANTS TypeOK CertificateIsReal
PROPERTIES ImplementsLedger
