SPECIFICATION Spec
CONSTANTS
    Missing = Missing
    e1 = e1
    jan = jan
    feb = feb
    ann = ann
    bob = bob
    card = card
    Std = std
    Team = {e1}
    Months = {jan, feb}
    Values = {std}
    AttendanceWays <- MCAttendanceWays
    AttendanceCalls = 1
    MaxOthers = 1
    TotalDays = 3
    Sundays = {2}
    CodesTyped = {"P", "HD", "CL", "A", "H"}
    TotalsTyped = {0, 1, 4}
    People = {ann, bob}
    OnTheBooks = {ann}
    MaxTwins = 2
    Cards = {card}
    EmployeeFiles = {"f1", "f2"}
    EmployeeRows <- MCEmployeeRows
    RegisterFiles = {"f1", "f2"}
    Registers <- MCRegisters
    MaxParses = 1
    Slots = {"pan"}
    DocumentWays <- MCDocumentWays
    MaxDocs = 2
    DocumentCalls = 2
    Categories = {"GST", "PAN"}
    MaxFiles = 2
    EmployeeIds = {1, 2, 3}
    EmployeesBefore = {1}
    EmployeeWays <- MCEmployeeWays
    ClientIds = {1, 2}
    ClientsBefore = {}
    Portals = {1, 2}
    ClientWays <- MCClientWays
    Seconds = 2
    MaxActs = 2
    MaxForms = 2
    MaxFails = 1
    Tours <- MCTours
    MaxFlights = 1
    Visited = {"attendance", "sheet", "import", "register", "documents", "papers", "employees"}
INVARIANT TypeOK
INVARIANT GridSavesItsOwnMonth
INVARIANT QuickShowsStoredPayable
INVARIANT GridShowsStoredPayable
INVARIANT NobodyLeftUnpaid
INVARIANT EachRowIsSomeone
INVARIANT VersionsReplaceEachOther
INVARIANT RecordsHaveTheirFiles
INVARIANT PaidAsTyped
INVARIANT OneSaveOneEmployee
PROPERTY SettledMonthIsFrozen
CHECK_DEADLOCK FALSE
SYMMETRY MonthSymmetry
