SPECIFICATION FairSpec
CONSTANTS
    Node = {n1, n2}
    Block = {g, b2, b3, b4}
    Genesis = g
    NoHash = NoHash
    Creator <- MCCreator
    DrawnOn <- MCDrawnOn
    TermLength = 2
    Missed <- FirstOfTerm
    MaxRestarts <- RestartOfTwo
    n1 = n1 n2 = n2
    b2 = b2 b3 = b3 b4 = b4
INVARIANTS TypeOK AgreeInTerm
PROPERTIES ChainGrows FollowersComeLevel TermIsHandedOver
CHECK_DEADLOCK FALSE
