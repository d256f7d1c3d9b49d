--------------------------- MODULE CycleLifecycle ---------------------------
(***************************************************************************)
(* What payroll-service promises about one cycle, seen from its status     *)
(* column alone: the docstring and the table of app/state.py, the creation *)
(* of a DRAFT and the deletion that refuses a DISBURSED cycle.  LOCKED is  *)
(* never committed (run_cycle and import_register assign LOCKED and        *)
(* COMPUTING in one transaction), so a run appears here as one step.       *)
(***************************************************************************)
EXTENDS CycleStates

VARIABLE status

Init == status = "NONE"

\* POST /payroll/cycles.
Create == status = "NONE" /\ status' = "DRAFT"

\* A run or a register import starts: s -> LOCKED -> COMPUTING.
Process == /\ status \in Runnable
           /\ CanTransition(status, "LOCKED")
           /\ CanTransition("LOCKED", "COMPUTING")
           /\ status' = "COMPUTING"

\* Every other move is one entry of the table.
Advance == /\ status \in {"COMPUTING", "COMPUTED", "APPROVED"}
           /\ \E t \in Allowed[status] \ {"LOCKED"} : status' = t

\* DELETE /payroll/cycles/{id}: a DISBURSED cycle is the record of what was paid.
Delete == /\ status \in Status \ {"DISBURSED"}
          /\ status' = "DELETED"

Next == Create \/ Process \/ Advance \/ Delete

Spec == Init /\ [][Next]_status

=============================================================================
