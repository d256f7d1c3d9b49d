-------------------------- MODULE MCPayoutService --------------------------
(***************************************************************************)
(* Instances of PayoutService for TLC.                                     *)
(***************************************************************************)
EXTENDS PayoutService

CONSTANTS k1, k2, q1, q2, q3

TwoKeys       == {k1, k2}
Amounts       == [k \in TwoKeys |-> IF k = k1 THEN 1 ELSE 2]
WholePayroll  == {TwoKeys}
ThreeRequests == {q1, q2, q3}

=============================================================================
