-------------------------- MODULE MCConsolePages --------------------------
(* ConsolePages for TLC: the people, the files and the bounds of its runs.   *)
EXTENDS ConsolePages, TLC

CONSTANTS e1, jan, feb, ann, bob, card

\* Neither month is special (for the run of MCConsoleForms, which has no liveness).
MonthSymmetry == Permutations({jan, feb})

\* One way of entry in a session, or none and colleagues at work.
MCAttendanceWays == {{"grid"}, {"quick"}, {"upload"}, {"others"}}

Employee(who, marked, wage, rate, ctc) ==
    [who |-> who, marked |-> marked, wage |-> wage, card |-> rate, ctc |-> ctc, bad |-> FALSE]

\* Ann is on the books already; bob is paid by the month in one file, which says
\* nothing to recognise him by, and by a card he does not name in the other.
MCEmployeeRows ==
    [f \in {"f1", "f2"} |->
        IF f = "f1" THEN {Employee(ann, TRUE, "", Missing, 2),
                          Employee(bob, FALSE, "MONTHLY", Missing, 3)}
                    ELSE {Employee(bob, TRUE, "DAILY", Missing, 0),
                          Employee(ann, TRUE, "DAILY", card, 0)}]

Line(n, match, who, fine) == [n |-> n, match |-> match, who |-> who, fine |-> fine]

\* Two rows that resolve to ann; one that may be bob and one that nobody is.
MCRegisters ==
    [f \in {"f1", "f2"} |->
        IF f = "f1" THEN {Line(1, "exact", ann, TRUE), Line(2, "fuzzy", ann, TRUE)}
                    ELSE {Line(1, "fuzzy", bob, TRUE), Line(2, "none", Missing, FALSE)}]

MCDocumentWays == {{"review"}, {"preview"}}
MCEmployeeWays == {{"DAILY"}, {"remove"}}
MCClientWays == {{"drawer"}, {"archive"}, {"delete"}}
MCTours == {{"list", "detail"}, {"list", "registers"}}

===========================================================================
