CONSTANTS
    r0 = r0
    r1 = r1
    r2 = r2
    n1 = n1
    n2 = n2
    n3 = n3
    n4 = n4
    EMPTY = EMPTY
    GUESS = GUESS
    Rank = {r0, r1, r2}
    Node <- FanNode
    Owner <- FanOwner
    Around <- FanAround
    Donor <- FanDonor
    Limit = 3
    MaxTries = 2
SPECIFICATION Spec
INVARIANTS
    TypeOK
    OneAgentPerNode
    HandlerAsserts
    AllDismissed
    NoneStranded
PROPERTIES
    LocatedByDonor
    WriteOnce
