---------------------------- MODULE CycleStates ----------------------------
(***************************************************************************)
(* The status machine of a payroll cycle, payroll-service/app/state.py:    *)
(* the seven statuses, the table of allowed transitions and the guard      *)
(* assert_transition, which answers 409 when it is false.                  *)
(***************************************************************************)

\* The values of the status column.
Status == {"DRAFT", "LOCKED", "COMPUTING", "COMPUTED", "APPROVED",
           "DISBURSED", "FAILED"}

\* The row is not there: never created, or deleted with everything below it.
Absent == {"NONE", "DELETED"}

\* _ALLOWED: what each status may become.
Allowed == [s \in Status |->
              CASE s = "DRAFT"     -> {"LOCKED"}
                [] s = "LOCKED"    -> {"COMPUTING"}
                [] s = "COMPUTING" -> {"COMPUTED", "FAILED"}
                [] s = "COMPUTED"  -> {"APPROVED", "LOCKED"}
                [] s = "APPROVED"  -> {"DISBURSED"}
                [] s = "DISBURSED" -> {}
                [] s = "FAILED"    -> {"LOCKED"}]

\* assert_transition(s, t) does not raise.
CanTransition(s, t) == t \in Allowed[s]

\* RUNNABLE: the statuses a run may start from.
Runnable == {"DRAFT", "COMPUTED", "FAILED"}

=============================================================================
