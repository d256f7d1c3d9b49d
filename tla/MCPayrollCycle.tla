--------------------------- MODULE MCPayrollCycle ---------------------------
(***************************************************************************)
(* Instances of PayrollCycle for TLC.                                      *)
(***************************************************************************)
EXTENDS PayrollCycle, TLC

CONSTANTS e1, e2

Staff == {e1, e2}
Loner == {e1}

OneAmount  == {1}
TwoAmounts == {1, 2}

TwoRequests   == 1..2
ThreeRequests == 1..3
FourRequests  == 1..4

PayoutsMayBeLate == {"payout"}
AllMayBeLate     == {"compute", "prune", "payout"}
NoneIsLate       == {}

\* Employees are interchangeable.
Symmetry == Permutations(Staff)

=============================================================================
