--------------------------- MODULE RegisterImport ---------------------------
(***************************************************************************)
(* The register import of a cycle's page: a workbook with one row per      *)
(* employee is parsed, each row is matched to an employee by its name, and *)
(* the rows are sent to payroll-service, which makes results of them.      *)
(* A workbook is what the matching makes of its rows; figures are data.    *)
(***************************************************************************)
EXTENDS Naturals, FiniteSets

CONSTANTS
    People,     \* the active employees of the cycle's client
    NoOne,
    Files,
    Sheets,     \* [Files -> SUBSET of Line]
    MaxParses   \* bound: files being parsed at once

VARIABLES
    view,       \* the modal
    server      \* payroll-service: where each employee's result comes from

vars == <<view, server>>

Modes == {"prefilled", "compute"}

\* A line of a sheet: how its name matches ("exact": one employee's, "fuzzy": near
\* one, "none": nobody's or several people's), and whether its figures are in order.
Line == [n : Nat, match : {"exact", "fuzzy", "none"}, who : People \cup {NoOne},
         fine : BOOLEAN]

\* A row of the preview: the employee it is for, and the mode it was parsed in.
Row == [n : Nat, match : {"exact", "fuzzy", "none"}, fine : BOOLEAN, mode : Modes,
        suggested : People \cup {NoOne}, employee : People \cup {NoOne},
        picked : BOOLEAN]

\* A file being parsed, with what handleFile's closure holds.
Parse == [file : Files, mode : Modes, loaded : BOOLEAN]

View == [step : 0..3, mode : Modes, loaded : BOOLEAN,   \* the employees' query
         rows : SUBSET Row, parsing : SUBSET Parse,
         stage : {"idle", "sent", "done"}, open : BOOLEAN,
         sent : SUBSET Row, sentMode : Modes]

TypeOK ==
    /\ view \in View
    /\ server \in [People -> {"none", "sheet", "system"}]

Idle == [step |-> 0, mode |-> "prefilled", loaded |-> FALSE, rows |-> {},
         parsing |-> {}, stage |-> "idle", open |-> FALSE, sent |-> {},
         sentMode |-> "prefilled"]

Init == view = Idle /\ server = [p \in People |-> "none"]

-----------------------------------------------------------------------------
(* The modal *)

\* (Mutant: a near match is taken too.)
Match_TakesNear(l, p) ==
    [n |-> l.n, fine |-> l.fine, mode |-> p.mode, picked |-> FALSE,
     match |-> IF p.loaded THEN l.match ELSE "none",
     employee |-> IF p.loaded THEN l.who ELSE NoOne,
     suggested |-> IF p.loaded /\ l.match = "fuzzy" THEN l.who ELSE NoOne]

\* The name against the employees loaded: an exact match is taken, a near one
\* only suggested, several people of one name are left to the user.
Match(l, p) ==
    [n |-> l.n, fine |-> l.fine, mode |-> p.mode, picked |-> FALSE,
     match |-> IF p.loaded THEN l.match ELSE "none",
     employee |-> IF p.loaded /\ l.match = "exact" THEN l.who ELSE NoOne,
     suggested |-> IF p.loaded /\ l.match = "fuzzy" THEN l.who ELSE NoOne]

\* parseRegisterFile(): one row per line that names someone.
ParsedRows(p) == {Match(l, p) : l \in Sheets[p.file]}

\* checkedRows: for one employee, whom no other row is for, and figures in order.
Valid(r) ==
    /\ r.fine /\ r.employee # NoOne
    /\ Cardinality({q \in view.rows : q.employee = r.employee}) = 1
ValidRows == {r \in view.rows : Valid(r)}

EmployeesLoad == /\ view' = [view EXCEPT !.loaded = TRUE]
                 /\ UNCHANGED server

ChooseMode == /\ view.step = 0
              /\ \E m \in Modes : view' = [view EXCEPT !.mode = m]
              /\ UNCHANGED server

\* "Next" and "Back"; the preview's "Change file" drops the rows.
Move ==
    /\ \/ view.step = 0 /\ view' = [view EXCEPT !.step = 1]
       \/ view.step \in {1, 2} /\ view' = [view EXCEPT !.step = @ - 1]
       \/ view.step = 2 /\ view' = [view EXCEPT !.step = 1, !.rows = {}]
    /\ UNCHANGED server

\* handleFile(): the last file to be parsed wins, wherever the user is by then.
PickFile(f) ==
    /\ view.step = 1 /\ Cardinality(view.parsing) < MaxParses
    /\ view' = [view EXCEPT !.rows = {},
          !.parsing = @ \cup {[file |-> f, mode |-> view.mode, loaded |-> view.loaded]}]
    /\ UNCHANGED server

FileParsed(p) ==
    /\ p \in view.parsing
    /\ LET v == [view EXCEPT !.parsing = @ \ {p}]
       IN \/ view' = [v EXCEPT !.rows = ParsedRows(p), !.step = 2]
          \/ view' = v      \* not a register
    /\ UNCHANGED server

\* setRowEmployee(): any employee from the list, the one suggested, or nobody.
SetRowEmployee(r, p) ==
    /\ view.step = 2 /\ r \in view.rows /\ p # r.employee
    /\ p = NoOne \/ view.loaded
    /\ view' = [view EXCEPT !.rows =
          (@ \ {r}) \cup {[r EXCEPT !.employee = p, !.picked = p # NoOne]}]
    /\ UNCHANGED server

Import ==
    /\ view.step = 2 /\ view.stage = "idle" /\ ValidRows # {}
    /\ view' = [view EXCEPT !.stage = "sent", !.open = TRUE,
                            !.sent = ValidRows, !.sentMode = view.mode]
    /\ UNCHANGED server

\* The modal is closed, also over an import under way, and opened again: that
\* import goes on without it.  (Bound: it is answered before the next is sent.)
Close ==
    /\ view' = [Idle EXCEPT !.loaded = view.loaded, !.stage = view.stage,
                            !.sent = view.sent, !.sentMode = view.sentMode]
    /\ UNCHANGED server

-----------------------------------------------------------------------------
(* payroll-service, and its answer *)

\* import_register(): a result for every row, of the sheet's figures when the
\* mode is "prefilled", else with deductions worked out by the service.
Results(rows, mode) ==
    [p \in People |-> IF \E r \in rows : r.employee = p
                      THEN (IF mode = "prefilled" THEN "sheet" ELSE "system")
                      ELSE server[p]]

Handle ==
    /\ view.stage = "sent"
    /\ server' = Results(view.sent, view.sentMode)
    /\ view' = [view EXCEPT !.stage = "done"]

\* Done; or refused, or lost before or after it was handled: an error is shown,
\* the rows stay.
Settled(v) == [v EXCEPT !.stage = "idle", !.open = FALSE, !.sent = {}, !.sentMode = "prefilled"]
Answer ==
    /\ \/ /\ view.stage = "done"
          /\ view' = [Settled(view) EXCEPT !.step = IF view.open THEN 3 ELSE @]
       \/ view.stage # "idle" /\ view' = Settled(view)
    /\ UNCHANGED server

Next ==
    \/ EmployeesLoad \/ ChooseMode \/ Move \/ Import \/ Close \/ Handle \/ Answer
    \/ \E f \in Files : PickFile(f)
    \/ \E p \in view.parsing : FileParsed(p)
    \/ \E r \in view.rows, p \in People \cup {NoOne} : SetRowEmployee(r, p)

Spec == Init /\ [][Next]_vars

-----------------------------------------------------------------------------
(* Properties *)

\* Pay is never made of a guess: each row sent is for an employee of its own,
\* whose name it has or whom the user gave it, however often rows were given to
\* others and taken away, and whichever file they are of.
EachRowIsSomeone ==
    \A r \in view.sent :
        /\ r.match = "exact" \/ r.picked
        /\ r.employee # NoOne
        /\ \A q \in view.sent : q.employee = r.employee => q = r

=============================================================================
