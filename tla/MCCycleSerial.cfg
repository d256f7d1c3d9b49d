SPECIFICATION Spec
CONSTANTS
    e1 = e1
    e2 = e2
    None = None
    Employees <- Staff
    Amounts <- TwoAmounts
    Requests <- FourRequests
    PageSize = 2
    Overlap = FALSE
    LateCalls <- PayoutsMayBeLate
    MayCrash = TRUE
    MaxMoves = 1
SYMMETRY Symmetry
INVARIANTS
    TypeOK
    PaidHasPayment
    PaidOnce
    DisbursedMatchesPayments
    RunLeavesConsistentBooks
PROPERTIES
    ApprovedIsFrozen
    FollowsLifecycle
