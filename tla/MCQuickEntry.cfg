SPECIFICATION Spec
CONSTANTS
    e1 = e1
    jan = jan
    feb = feb
    std = std
    Missing = Missing
    Emps = {e1}
    Months = {jan, feb}
    Std = std
    Values = {std}
    MaxCalls = 1
    MaxOthers = 1
    Ways <- MCWays
INVARIANT QuickSavesItsOwnMonth
CHECK_DEADLOCK FALSE
