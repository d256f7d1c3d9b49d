------------------------------ MODULE Payments ------------------------------
(***************************************************************************)
(* What a caller may rely on of payout-service for one cycle: a batch is   *)
(* paid as a whole or not at all, and a payment, once made, stays made;    *)
(* making it again changes nothing.                                        *)
(***************************************************************************)
CONSTANT Lists    \* the lists of transactions that may be submitted

VARIABLE paid     \* the transactions paid so far

Init == paid = {}

Pay(list) == paid' = paid \cup list

Next == \E list \in Lists : Pay(list)

Spec == Init /\ [][Next]_paid

=============================================================================
