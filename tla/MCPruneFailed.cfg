SPECIFICATION Spec
CONSTANTS
    e1 = e1
    e2 = e2
    None = None
    Employees <- Loner
    Amounts <- OneAmount
    Requests <- TwoRequests
    PageSize = 2
    Overlap = FALSE
    LateCalls <- NoneIsLate
    MayCrash = FALSE
    MaxMoves = 0
INVARIANTS
    OnlyComputedHaveContributions
