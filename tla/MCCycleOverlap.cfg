SPECIFICATION FairSpec
CONSTANTS
    e1 = e1
    e2 = e2
    None = None
    Employees <- Loner
    Amounts <- OneAmount
    Requests <- ThreeRequests
    PageSize = 1
    Overlap = TRUE
    LateCalls <- NoneIsLate
    MayCrash = FALSE
    MaxMoves = 0
INVARIANT
    PaidHasPayment
PROPERTIES
    ComputingEnds
    RequestsEnd
