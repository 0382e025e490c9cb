SPECIFICATION FairSpec
CONSTANTS
    Node = {n1, n2}
    Watcher = {n1}
    Server = n1
    Nobody = Nobody
    Enough = 2
    MaxStops <- OneStop
    MaxLosses = 1
    MaxGone = 1
    n1 = n1 n2 = n2
INVARIANTS TypeOK PageMatches
PROPERTIES LostIsNotStable MembersBecomeStable
CHECK_DEADLOCK FALSE
