SPECIFICATION Spec
CONSTANTS
    k1 = k1
    k2 = k2
    q1 = q1
    q2 = q2
    q3 = q3
    None = None
    Keys <- TwoKeys
    Amount <- Amounts
    Lists <- WholePayroll
    Requests <- ThreeRequests
INVARIANTS
    OneBatchPerCycle
