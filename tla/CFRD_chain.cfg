CONSTANTS
    n1 = n1
    n2 = n2
    n3 = n3
    n4 = n4
    g = g
    b1 = b1
    b2 = b2
    b3 = b3
    Node = {n1, n2, n3, n4}
    Stable = {n1, n2, n3}
    NoNode = NoNode
    Block = {g, b1, b2, b3}
    Genesis = g
    NoHash = NoHash
    Creator <- MCCreator
    Candidates <- MCCandidates
    Scale = 2
    VoteNodeMin = 3
    VerifyOfEndorsement = TRUE
    EndorseResendTimes = 0
    MaxIndex = 0
    MaxRestarts <- RestartOfOne
SPECIFICATION Spec
CHECK_DEADLOCK FALSE
INVARIANTS TypeOK AgreeWithoutRedraw OneBlockPerBlocker
PROPERTIES ImplementsLedger
