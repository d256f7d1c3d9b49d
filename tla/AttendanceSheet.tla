--------------------------- MODULE AttendanceSheet ---------------------------
(***************************************************************************)
(* One employee's month on the attendance page: the day codes of the grid *)
(* row, the totals of the quick row, and the record attendance-service    *)
(* computes from either.  The page shows a payable figure of its own      *)
(* beside each; payroll pays by the one stored.                            *)
(*                                                                         *)
(* Days are counted in halves, so that every figure is an integer.        *)
(***************************************************************************)
EXTENDS Integers, FiniteSets

CONSTANTS
    TotalDays,      \* days of the month, at least one
    Sundays,        \* those of 1..TotalDays that are weekly off by default
    CodesTyped,     \* bound: the codes chosen in the grid
    TotalsTyped,    \* bound: the numbers typed in quick entry, in half days
    None            \* no record, or a record without day codes

VARIABLES
    view,       \* [form, days, quick, clean]: the row on screen
    server      \* the stored record

vars == <<view, server>>

Codes == {"P", "WFH", "HD", "CL", "LOP", "A", "WO", "H"}    \* SL, PL and OT are like CL and P
Day == 1..TotalDays
Total == 2 * TotalDays

\* The numbers bulk_upsert receives, in half days, and the codes sent with them.
Figures == [present : Nat, leave : Nat, wo : Nat, holiday : Nat]

Biggest(a, b) == IF a > b THEN a ELSE b

-----------------------------------------------------------------------------
(* attendance-service _calc(): what is not accounted for is loss of pay. *)
Calc(f) ==
    LET lop == Biggest(0, Total - f.present - f.leave - f.wo - f.holiday)
    IN [lop |-> lop, payable |-> Total - lop]

Stored(f, daily) == [f |-> f, lop |-> Calc(f).lop, payable |-> Calc(f).payable,
                     daily |-> daily]

-----------------------------------------------------------------------------
(* The page *)

Count(days, codes) == Cardinality({i \in Day : days[i] \in codes})

\* (Mutant: a day of absence is not a loss of pay.)
SummariseDays_AbsentIsPaid(days) ==
    [present |-> 2 * Count(days, {"P", "WFH"}) + Count(days, {"HD"}),
     leave   |-> 2 * Count(days, {"CL"}),
     wo      |-> 2 * Count(days, {"WO"}),
     holiday |-> 2 * Count(days, {"H"}),
     lop     |-> 2 * Count(days, {"LOP"}),
     payable |-> Total - 2 * Count(days, {"LOP"})]

\* summariseDays()
SummariseDays(days) ==
    [present |-> 2 * Count(days, {"P", "WFH"}) + Count(days, {"HD"}),
     leave   |-> 2 * Count(days, {"CL"}),
     wo      |-> 2 * Count(days, {"WO"}),
     holiday |-> 2 * Count(days, {"H"}),
     lop     |-> 2 * Count(days, {"LOP", "A"}),
     payable |-> Total - 2 * Count(days, {"LOP", "A"})]

FiguresOf(s) == [x \in {"present", "leave", "wo", "holiday"} |-> s[x]]

\* (Mutant: more days than the month has are paid.)
QuickTotals_NoFloor(q) ==
    LET marked == q.present + q.holiday + q.wo + q.leave
        lop == Total - marked
    IN [lop |-> lop, payable |-> Total - lop, over |-> marked > Total]

\* quickTotals(): the same rule as Calc, worked out on the page.
QuickTotals(q) ==
    LET marked == q.present + q.holiday + q.wo + q.leave
        lop == Biggest(0, Total - marked)
    IN [lop |-> lop, payable |-> Total - lop, over |-> marked > Total]

DefaultDays == [i \in Day |-> IF i \in Sundays THEN "WO" ELSE "P"]

\* Math.round of a number of half days, in whole days.
Rounded(halves) == (halves + 1) \div 2

\* The days of a record that came without codes: holidays, then losses of pay,
\* laid over the default working days from the end of the month.
Overlay(rec) ==
    LET work(i) == Cardinality({j \in Day : j >= i /\ DefaultDays[j] = "P"})
        h == Rounded(rec.f.holiday)
        l == Rounded(rec.lop)
    IN [i \in Day |-> IF DefaultDays[i] # "P" THEN DefaultDays[i]
                      ELSE IF work(i) <= h THEN "H"
                      ELSE IF work(i) <= h + l THEN "LOP"
                      ELSE "P"]

\* buildGrid() and buildQuick() for this employee.
GridDays(rec) == IF rec = None THEN DefaultDays
                 ELSE IF rec.daily # None THEN rec.daily ELSE Overlay(rec)
QuickRow(rec) == IF rec = None THEN [x \in {"present", "leave", "wo", "holiday"} |-> 0]
                 ELSE rec.f

Grid(days, clean) == [form |-> "grid", days |-> days, clean |-> clean]
Quick(q, clean) == [form |-> "quick", quick |-> q, clean |-> clean]

Init == view = Grid(DefaultDays, FALSE) /\ server = None

EditDay == view.form = "grid" /\ \E i \in Day, c \in CodesTyped :
    /\ view' = Grid([view.days EXCEPT ![i] = c], FALSE)
    /\ UNCHANGED server

\* Any number may be typed; negative ones and no number at all count as 0.
EditTotal == view.form = "quick" /\ \E x \in DOMAIN view.quick, n \in TotalsTyped :
    /\ view' = Quick([view.quick EXCEPT ![x] = n], FALSE)
    /\ UNCHANGED server

SaveGrid ==
    /\ view.form = "grid" /\ ~view.clean
    /\ server' = Stored(FiguresOf(SummariseDays(view.days)), view.days)
    /\ view' = [view EXCEPT !.clean = TRUE]

SaveQuick ==
    /\ view.form = "quick" /\ ~view.clean
    /\ server' = Stored(view.quick, None)
    /\ view' = [view EXCEPT !.clean = TRUE]

\* The rows are built again from the record (a reload, another month and back).
Rebuild ==
    /\ \/ view' = Grid(GridDays(server), server # None)
       \/ view' = Quick(QuickRow(server), server # None)
    /\ UNCHANGED server

Next == EditDay \/ EditTotal \/ SaveGrid \/ SaveQuick \/ Rebuild

Spec == Init /\ [][Next]_vars

-----------------------------------------------------------------------------
(* Properties *)

TypeOK ==
    /\ view.clean \in BOOLEAN
    /\ \/ view.form = "grid" /\ view.days \in [Day -> Codes]
       \/ view.form = "quick" /\ view.quick \in Figures
    /\ server = None \/ server.daily \in [Day -> Codes] \cup {None}

\* Quick entry never shows a payable figure other than the one stored: the page
\* "[m]irrors attendance-service _calc", also after a half day or too many days.
QuickShowsStoredPayable ==
    view.form = "quick" /\ view.clean => QuickTotals(view.quick).payable = server.payable

\* Neither does the grid, but for half days (of which the page takes the other half
\* for paid) and for a record made by quick entry whose losses are not whole days
\* or more than the default working days they are laid over.
Faithful(rec) ==
    IF rec.daily # None THEN Count(rec.daily, {"HD"}) = 0
    ELSE /\ rec.lop % 2 = 0
         /\ Rounded(rec.f.holiday) + Rounded(rec.lop) <= Count(DefaultDays, {"P"})
GridShowsStoredPayable ==
    view.form = "grid" /\ view.clean /\ Faithful(server)
        => SummariseDays(view.days).payable = server.payable

=============================================================================
