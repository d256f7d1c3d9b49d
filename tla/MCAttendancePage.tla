------------------------- MODULE MCAttendancePage -------------------------
(* AttendancePage by itself for TLC: one employee and two months.            *)
EXTENDS AttendancePage

CONSTANTS e1, jan, feb, std

\* One way of entry in a session, or none and colleagues at work.
MCWays == {{"grid"}, {"quick"}, {"upload"}, {"others"}}

===========================================================================
