---------------------------- MODULE ConsolePages ----------------------------
(***************************************************************************)
(* The pages of the console, for any people, files, documents and bounds.  *)
(* A behaviour is the session of one page: they have only the login        *)
(* (ConsoleSession) and the servers in common, and what colleagues do at   *)
(* the servers is part of each page's own module.                          *)
(*                                                                         *)
(* The pages with proofs of their own are instantiated together with them, *)
(* for ConsolePagesProofs to cite their lemmas.                            *)
(***************************************************************************)
EXTENDS Naturals, FiniteSets

CONSTANTS
    Visited,        \* the pages of this run
    Missing,        \* "nothing there", on every page
    \* attendance
    Team, Months, Std, Values, AttendanceWays, AttendanceCalls, MaxOthers,
    TotalDays, Sundays, CodesTyped, TotalsTyped,
    \* the imports
    People, OnTheBooks, MaxTwins, Cards, EmployeeFiles, EmployeeRows,
    RegisterFiles, Registers, MaxParses,
    \* documents
    Slots, DocumentWays, MaxDocs, DocumentCalls,
    Categories, MaxFiles,
    \* employees and clients
    EmployeeIds, EmployeesBefore, EmployeeWays,
    ClientIds, ClientsBefore, Portals, ClientWays, Seconds, MaxActs,
    MaxForms, MaxFails,
    \* payroll
    Tours, MaxFlights

VARIABLES
    page,
    view,       \* of the page
    server      \* what it reads and writes

vars == <<page, view, server>>

-----------------------------------------------------------------------------

Attendance == INSTANCE AttendancePageProofs WITH
    Emps <- Team, Ways <- AttendanceWays, MaxCalls <- AttendanceCalls

Sheet == INSTANCE AttendanceSheet WITH None <- Missing

Import == INSTANCE BulkImport WITH
    Files <- EmployeeFiles, Rows <- EmployeeRows, NoCard <- Missing,
    Existing <- OnTheBooks

Register == INSTANCE RegisterImport WITH
    NoOne <- Missing, Files <- RegisterFiles, Sheets <- Registers

Documents == INSTANCE EmployeeDocuments WITH
    Ways <- DocumentWays, MaxCalls <- DocumentCalls

Papers == INSTANCE ClientDocuments

Employees == INSTANCE EmployeesPageProofs WITH
    Emps <- EmployeeIds, Existing <- EmployeesBefore, Ways <- EmployeeWays

Clients == INSTANCE ClientsPageProofs WITH
    Clients <- ClientIds, Existing <- ClientsBefore, Ways <- ClientWays

Cycles == INSTANCE CycleDesk

-----------------------------------------------------------------------------
(* What the constants are: the bounds are any, and so are what files hold.  *)

AllPages == {"attendance", "sheet", "import", "register", "documents", "papers",
             "employees", "clients", "cycles"}

ASSUME VisitedAssumption == Visited \subseteq AllPages

ASSUME AttendanceAssumption == Std \in Values

ASSUME SheetAssumption ==
    /\ TotalDays \in Nat \ {0} /\ Sundays \subseteq 1..TotalDays
    /\ CodesTyped \subseteq Sheet!Codes /\ TotalsTyped \subseteq Nat
    /\ Missing \notin [1..TotalDays -> Sheet!Codes]

\* A person has one row in a file of employees.
ASSUME ImportAssumption ==
    /\ EmployeeRows \in [EmployeeFiles -> SUBSET Import!Row]
    /\ \A f \in EmployeeFiles : \A r, q \in EmployeeRows[f] : r.who = q.who => r = q
    /\ OnTheBooks \subseteq People /\ MaxTwins \in Nat

ASSUME RegisterAssumption ==
    /\ Registers \in [RegisterFiles -> SUBSET Register!Line]
    /\ \A f \in RegisterFiles : IsFiniteSet(Registers[f])

ASSUME DocumentsAssumption ==
    /\ MaxDocs \in Nat /\ MaxFiles \in Nat

\* "Nothing there" is neither something read nor a request under way.
ASSUME CyclesAssumption ==
    /\ Missing \notin {"DRAFT", "before", "known"}
    /\ Missing \notin [kind : Cycles!Kinds, stage : {"sent", "working", "done"}]

ASSUME FormsAssumption ==
    /\ MaxForms \in Nat /\ MaxFails \in Nat /\ MaxActs \in Nat /\ Seconds \in Nat
    /\ IsFiniteSet(EmployeeIds) /\ Missing \notin Employees!Save

-----------------------------------------------------------------------------

Init ==
    /\ page \in Visited
    /\ CASE page = "attendance" -> Attendance!Init
         [] page = "sheet"      -> Sheet!Init
         [] page = "import"     -> Import!Init
         [] page = "register"   -> Register!Init
         [] page = "documents"  -> Documents!Init
         [] page = "papers"     -> Papers!Init
         [] page = "employees"  -> Employees!Init
         [] page = "clients"    -> Clients!Init
         [] page = "cycles"     -> Cycles!Init

On(p) == page = p /\ UNCHANGED page

Next ==
    \/ On("attendance") /\ Attendance!Next
    \/ On("sheet") /\ Sheet!Next
    \/ On("import") /\ Import!Next
    \/ On("register") /\ Register!Next
    \/ On("documents") /\ Documents!Next
    \/ On("papers") /\ Papers!Next
    \/ On("employees") /\ Employees!Next
    \/ On("clients") /\ Clients!Next
    \/ On("cycles") /\ Cycles!Next

\* The fairness of ClientsPage and of CycleDesk, each on its page.
Fairness ==
    /\ WF_vars(On("clients") /\ Clients!Tick)
    /\ WF_vars(On("cycles") /\ Cycles!Ask("cycle"))
    /\ WF_vars(On("cycles") /\ Cycles!Arrive("cycle"))
    /\ WF_vars(On("cycles") /\ Cycles!RunEnds)

Spec == Init /\ [][Next]_vars
FairSpec == Spec /\ Fairness

-----------------------------------------------------------------------------
(* The properties of the pages, each where it is stated in words. *)

TypeOK ==
    /\ page \in Visited
    /\ CASE page = "attendance" -> Attendance!TypeOK
         [] page = "sheet"      -> Sheet!TypeOK
         [] page = "import"     -> Import!TypeOK
         [] page = "register"   -> Register!TypeOK
         [] page = "documents"  -> Documents!TypeOK
         [] page = "papers"     -> Papers!TypeOK
         [] page = "employees"  -> Employees!TypeOK
         [] page = "clients"    -> Clients!TypeOK
         [] page = "cycles"     -> Cycles!TypeOK

\* AttendancePage: what the grid saves was built for the month it is saved into.
GridSavesItsOwnMonth == page = "attendance" => Attendance!GridSavesItsOwnMonth

\* AttendancePage: the days of a settled month stay, but for a request answered by
\* whoever found it open and a day added by hand to a month only validated.
SettledMonthIsFrozen == [][page = "attendance" => Attendance!MonthsAreFrozen]_vars

\* AttendanceSheet: quick entry shows the payable days that are stored.
QuickShowsStoredPayable == page = "sheet" => Sheet!QuickShowsStoredPayable

\* AttendanceSheet: so does the grid.
GridShowsStoredPayable == page = "sheet" => Sheet!GridShowsStoredPayable

\* BulkImport: an import that ends well leaves nobody it made anew without pay.
NobodyLeftUnpaid == page = "import" => Import!NobodyLeftUnpaid

\* RegisterImport: every row imported is somebody's, and nobody has two.
EachRowIsSomeone == page = "register" => Register!EachRowIsSomeone

\* EmployeeDocuments: one version of a document at a time.
VersionsReplaceEachOther == page = "documents" => Documents!VersionsReplaceEachOther

\* ClientDocuments: a document on record has its file.
RecordsHaveTheirFiles == page = "papers" => Papers!RecordsHaveTheirFiles

\* EmployeesPage: a CTC was typed in a form saved for whoever is paid by it.
PaidAsTyped == page = "employees" => Employees!PaidAsTyped

\* EmployeesPage: one form makes one employee, unless it said it failed.
OneSaveOneEmployee == page = "employees" => Employees!OneSaveOneEmployee

\* ClientsPage: a portal secret was typed in a form saved for its client.
SecretsAsTyped == page = "clients" => Clients!SecretsAsTyped

\* ClientsPage: a revealed password is hidden again.
SecretIsHidden == page = "clients" /\ Clients!Revealed ~> ~(page = "clients" /\ Clients!Revealed)

\* CycleDesk: the results of one's own run are not shown as they were before.
OwnRunIsShown == page = "cycles" => Cycles!OwnRunIsShown

\* CycleDesk: what the registers showed of a cycle before its deletion is not current
\* again.
DeletedIsForgotten == page = "cycles" => Cycles!DeletedIsForgotten

\* CycleDesk: a page stops showing a computing cycle once nobody computes it.
ComputingIsLeft ==
    <>[](page = "cycles" => Cycles!Settled) => []<>~(page = "cycles" /\ Cycles!ComputingShown)

=============================================================================
