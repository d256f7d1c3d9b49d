---------------------- MODULE PayrollCycleSerialProofs ----------------------
(***************************************************************************)
(* What holds of a payroll cycle when its requests come one at a time      *)
(* (Overlap = FALSE), for any employees, amounts and number of requests,   *)
(* with crashes, lost answers and calls of any kind executed late: the     *)
(* cycle follows the status machine of app/state.py, and the money is      *)
(* right.  The last part is about the books a run leaves.                  *)
(***************************************************************************)
EXTENDS PayrollCycleProofs

-----------------------------------------------------------------------------
(* One request, whose session knows the cycle *)

\* A run or an import between its two commits; an approval that may pay.
Working   == {"list", "next", "compliance", "store", "prune", "finish"}
Approving == {"gather", "payout"}

\* A request that holds r fits a cycle with status s.
Fits(r, s) == /\ r.st = s /\ s \in Status
              /\ r.pc \in Working => s = "COMPUTING"
              /\ r.pc = "mark" => s = "COMPUTED"
              /\ r.pc \in Approving => s = "APPROVED"
              /\ r.pc = "delete" => s # "DISBURSED"

SerialInv == \A q \in InFlight : /\ Fits(req[q], cycle)
                                 /\ \A p \in InFlight : p = q

\* The only request in flight goes on or ends.
LEMMA SerialMove ==
  ASSUME TypeInv, NEW q \in Requests, InFlight \subseteq {q}, NEW r, Put(q, r),
         r.pc = "done" \/ Fits(r, cycle')
  PROVE  SerialInv'
<1>1. req'[q] = r /\ \A p \in Requests : p # q => req'[p] = req[p]
  BY DEF Put, TypeInv, TypeOK
<1>2. InFlight' \subseteq {q}
  BY <1>1 DEF InFlight
<1>. QED
  BY <1>1, <1>2 DEF SerialInv, InFlight

LEMMA SerialEnd ==
  ASSUME TypeInv, SerialInv, NEW q \in Requests, req[q].pc \notin {"new", "done"},
         End(q)
  PROVE  SerialInv'
<1>1. Ended.pc = "done"
  BY DEF Ended, Blank
<1>2. InFlight \subseteq {q}
  BY DEF SerialInv, InFlight
<1>. QED
  BY <1>1, <1>2, SerialMove DEF End

LEMMA SerialLoad ==
  ASSUME TypeInv, Overlap = FALSE, NEW q \in Requests, NEW op, NEW pc, NEW rows,
         Load(q, op, pc, rows), cycle' = cycle, pc \notin Working,
         pc = "mark" => cycle = "COMPUTED", pc \in Approving => cycle = "APPROVED",
         pc = "delete" => cycle # "DISBURSED"
  PROVE  SerialInv'
<1>. DEFINE r == [Blank EXCEPT !.op = op, !.pc = pc, !.st = cycle, !.todo = rows]
<1>1. cycle \in Status /\ InFlight = {}
  BY DEF Load, Arrives, Exists
<1>2. r.pc = pc /\ r.st = cycle
  BY DEF Blank
<1>3. Put(q, r)
  BY DEF Load
<1>. QED
  BY <1>1, <1>2, <1>3, SerialMove DEF Fits

LEMMA SerialSelect ==
  ASSUME TypeInv, SerialInv, NEW q \in Requests, NEW e, NEW new,
         SelectRow(q, e, new), req[q].pc \in Working, cycle' = cycle
  PROVE  SerialInv'
<1>. DEFINE r == [req[q] EXCEPT !.pc = "store", !.cur = e, !.row = result[e],
                                !.new = new, !.resp = FALSE]
<1>1. InFlight \subseteq {q} /\ Fits(req[q], cycle)
  BY DEF SerialInv, InFlight, Working
<1>2. req[q] \in Request
  BY DEF TypeInv, TypeOK
<1>3. r.pc = "store" /\ r.st = req[q].st
  BY <1>2 DEF Request
<1>4. Put(q, r)
  BY DEF SelectRow
<1>. QED
  BY <1>1, <1>3, <1>4, SerialMove DEF Fits, Working, Approving

\* A request in flight goes on within its phase.
LEMMA SerialStay ==
  ASSUME TypeInv, SerialInv, NEW q \in Requests, req[q].pc \notin {"new", "done"},
         NEW r, Put(q, r), r.st = req[q].st, cycle' = cycle,
         \/ req[q].pc \in Working /\ r.pc \in Working
         \/ req[q].pc \in Approving /\ r.pc \in Approving
  PROVE  SerialInv'
<1>1. InFlight \subseteq {q} /\ Fits(req[q], cycle)
  BY DEF SerialInv, InFlight
<1>. QED
  BY <1>1, SerialMove DEF Fits, Working, Approving

LEMMA SerialStep ==
  Overlap = FALSE /\ TypeInv /\ SerialInv /\ [Next]_vars => SerialInv'
<1>. SUFFICES ASSUME Overlap = FALSE, TypeInv, SerialInv, [Next]_vars
              PROVE  SerialInv'
  OBVIOUS
<1>. USE DEF OthersKeep
<1>t. TypeOK
  BY DEF TypeInv
<1>r. \A q \in Requests : req[q] \in Request
  BY <1>t DEF TypeOK
<1>f. \A q \in Requests : req[q].pc \notin {"new", "done"} =>
        /\ InFlight \subseteq {q} /\ Fits(req[q], cycle)
  BY DEF SerialInv, InFlight
<1>w. Working \cap {"new", "done"} = {} /\ Approving \cap {"new", "done"} = {}
  BY DEF Working, Approving
<1>1. CASE CreateCycle
  <2>1. InFlight = {}
    BY <1>1 DEF CreateCycle, SerialInv, Fits, Status
  <2>. QED
    BY <1>1, <2>1 DEF CreateCycle, SerialInv, InFlight
<1>2. ASSUME NEW q \in Requests, StartRun(q) PROVE SerialInv'
  BY <1>2, SerialLoad DEF StartRun, Working, Approving
<1>3. ASSUME NEW q \in Requests, NEW op, NEW rows, StartImport(q, op, rows)
      PROVE  SerialInv'
  BY <1>3, SerialLoad DEF StartImport, Working, Approving
<1>4. ASSUME NEW q \in Requests, StartApprove(q) PROVE SerialInv'
  <2>. DEFINE pc == IF cycle = "COMPUTED" THEN "mark" ELSE "gather"
  <2>1. Load(q, "approve", pc, {}) /\ cycle' = cycle
    BY <1>4 DEF StartApprove
  <2>2. /\ pc \notin Working /\ pc # "delete"
        /\ pc = "mark" => cycle = "COMPUTED"
        /\ pc \in Approving => cycle = "APPROVED"
    BY <1>4 DEF StartApprove, Working, Approving
  <2>. HIDE DEF pc
  <2>. QED
    BY <2>1, <2>2, SerialLoad
<1>5. ASSUME NEW q \in Requests, StartDelete(q) PROVE SerialInv'
  BY <1>5, SerialLoad DEF StartDelete, Working, Approving
<1>6. ASSUME NEW q \in Requests, Begin(q) PROVE SerialInv'
  <2>. DEFINE r == [req[q] EXCEPT !.pc = "list", !.st = "COMPUTING"]
  <2>1. r.pc = "list" /\ r.st = "COMPUTING"
    BY <1>r DEF Request
  <2>2. Put(q, r) /\ req[q].pc = "begin" /\ cycle' = "COMPUTING"
    BY <1>6 DEF Begin
  <2>3. Fits(r, cycle')
    BY <2>1, <2>2 DEF Fits, Status, Working, Approving
  <2>. HIDE DEF r
  <2>. QED
    BY <2>2, <2>3, <1>f, SerialMove
<1>7. ASSUME NEW q \in Requests, Refuse(q) PROVE SerialInv'
  BY <1>7, SerialEnd DEF Refuse
<1>8. ASSUME NEW q \in Requests, NEW page, ListEmployees(q, page) PROVE SerialInv'
  <2>. DEFINE r == [req[q] EXCEPT !.pc = "next", !.emps = page,
                        !.todo = IF req[q].op = "run" THEN page ELSE @]
  <2>1. r.pc = "next" /\ r.st = req[q].st
    BY <1>r DEF Request
  <2>2. Put(q, r) /\ req[q].pc = "list" /\ cycle' = cycle
    BY <1>8 DEF ListEmployees
  <2>. HIDE DEF r
  <2>. QED
    BY <2>1, <2>2, SerialStay DEF Working
<1>9. ASSUME NEW q \in Requests, ListFails(q) PROVE SerialInv'
  BY <1>9, SerialEnd DEF ListFails
<1>10. ASSUME NEW q \in Requests, NEW e, UnknownRow(q, e) PROVE SerialInv'
  <2>. DEFINE r == [req[q] EXCEPT !.todo = @ \ {e}, !.bad = TRUE]
  <2>1. r.pc = req[q].pc /\ r.st = req[q].st
    BY <1>r DEF Request
  <2>2. Put(q, r) /\ req[q].pc = "next" /\ cycle' = cycle
    BY <1>10 DEF UnknownRow
  <2>. HIDE DEF r
  <2>. QED
    BY <2>1, <2>2, SerialStay DEF Working
<1>11. ASSUME NEW q \in Requests, NEW e, ComputeFails(q, e) PROVE SerialInv'
  BY <1>11, SerialSelect DEF ComputeFails, Due, Working
<1>12. ASSUME NEW q \in Requests, NEW e, ComputeUnpaid(q, e) PROVE SerialInv'
  BY <1>12, SerialSelect DEF ComputeUnpaid, Due, Working
<1>13. ASSUME NEW q \in Requests, NEW e, NEW a, UsePrefilled(q, e, a)
       PROVE  SerialInv'
  BY <1>13, SerialSelect DEF UsePrefilled, Due, Working
<1>14. ASSUME NEW q \in Requests, NEW e, NEW a, CallCompliance(q, e, a)
       PROVE  SerialInv'
  <2>. DEFINE r == [req[q] EXCEPT !.pc = "compliance", !.cur = e,
                                  !.new = Computed(a), !.resp = FALSE]
  <2>1. r.pc = "compliance" /\ r.st = req[q].st
    BY <1>r DEF Request
  <2>2. Put(q, r) /\ req[q].pc = "next" /\ cycle' = cycle
    BY <1>14 DEF CallCompliance, Due
  <2>. HIDE DEF r
  <2>. QED
    BY <2>1, <2>2, SerialStay DEF Working
<1>15. ASSUME NEW q \in Requests, ComplianceAnswered(q) PROVE SerialInv'
  BY <1>15, SerialSelect DEF ComplianceAnswered, Working
<1>16. ASSUME NEW q \in Requests, ComplianceGivenUp(q) PROVE SerialInv'
  BY <1>16, SerialSelect DEF ComplianceGivenUp, Working
<1>17. ASSUME NEW q \in Requests, StoreResult(q) PROVE SerialInv'
  <2>. DEFINE r == [req[q] EXCEPT !.pc = "next", !.todo = @ \ {req[q].cur},
                                  !.ok  = @ \/ req[q].new.st = "COMPUTED",
                                  !.bad = @ \/ req[q].new.st = "FAILED",
                                  !.cur = None, !.row = NoResult, !.new = NoResult]
  <2>1. r.pc = "next" /\ r.st = req[q].st
    BY <1>r DEF Request
  <2>2. Put(q, r) /\ req[q].pc = "store" /\ cycle' = cycle
    BY <1>17 DEF StoreResult
  <2>. HIDE DEF r
  <2>. QED
    BY <2>1, <2>2, SerialStay DEF Working
<1>18. ASSUME NEW q \in Requests, StoreConflict(q) PROVE SerialInv'
  BY <1>18, SerialEnd DEF StoreConflict
<1>19. ASSUME NEW q \in Requests, DropStale(q) PROVE SerialInv'
  <2>. DEFINE r == [req[q] EXCEPT !.pc = "prune", !.resp = FALSE]
  <2>1. r.pc = "prune" /\ r.st = req[q].st
    BY <1>r DEF Request
  <2>2. Put(q, r) /\ req[q].pc = "next" /\ cycle' = cycle
    BY <1>19 DEF DropStale
  <2>. HIDE DEF r
  <2>. QED
    BY <2>1, <2>2, SerialStay DEF Working
<1>20. ASSUME NEW q \in Requests, Pruned(q) PROVE SerialInv'
  <2>. DEFINE r == [req[q] EXCEPT !.pc = "finish"]
  <2>1. r.pc = "finish" /\ r.st = req[q].st
    BY <1>r DEF Request
  <2>2. Put(q, r) /\ req[q].pc = "prune" /\ cycle' = cycle
    BY <1>20 DEF Pruned
  <2>. HIDE DEF r
  <2>. QED
    BY <2>1, <2>2, SerialStay DEF Working
<1>21. ASSUME NEW q \in Requests, PruneGivenUp(q) PROVE SerialInv'
  <2>. DEFINE r == [req[q] EXCEPT !.pc = "finish", !.resp = FALSE]
  <2>1. r.pc = "finish" /\ r.st = req[q].st
    BY <1>r DEF Request
  <2>2. Put(q, r) /\ req[q].pc = "prune" /\ cycle' = cycle
    BY <1>21 DEF PruneGivenUp
  <2>. HIDE DEF r
  <2>. QED
    BY <2>1, <2>2, SerialStay DEF Working
<1>22. ASSUME NEW q \in Requests, Finish(q) PROVE SerialInv'
  BY <1>22, SerialEnd DEF Finish
<1>23. ASSUME NEW q \in Requests, MarkApproved(q) PROVE SerialInv'
  <2>. DEFINE r == [req[q] EXCEPT !.pc = "gather", !.st = "APPROVED"]
  <2>1. r.pc = "gather" /\ r.st = "APPROVED"
    BY <1>r DEF Request
  <2>2. Put(q, r) /\ req[q].pc = "mark" /\ cycle' = "APPROVED"
    BY <1>23 DEF MarkApproved
  <2>3. Fits(r, cycle')
    BY <2>1, <2>2 DEF Fits, Status, Working, Approving
  <2>. HIDE DEF r
  <2>. QED
    BY <2>2, <2>3, <1>f, SerialMove
<1>24. ASSUME NEW q \in Requests, SubmitPayout(q) PROVE SerialInv'
  <2>. DEFINE r == [req[q] EXCEPT !.pc = "payout", !.txns = ToPay, !.resp = FALSE]
  <2>1. r.pc = "payout" /\ r.st = req[q].st
    BY <1>r DEF Request
  <2>2. Put(q, r) /\ req[q].pc = "gather" /\ cycle' = cycle
    BY <1>24 DEF SubmitPayout
  <2>. HIDE DEF r
  <2>. QED
    BY <2>1, <2>2, SerialStay DEF Approving
<1>25. ASSUME NEW q \in Requests, PayoutGivenUp(q) PROVE SerialInv'
  BY <1>25, SerialEnd DEF PayoutGivenUp
<1>26. ASSUME NEW q \in Requests, Settle(q) PROVE SerialInv'
  BY <1>26, SerialEnd DEF Settle
<1>27. ASSUME NEW q \in Requests, ApproveConflict(q) PROVE SerialInv'
  BY <1>27, SerialEnd DEF ApproveConflict
<1>28. ASSUME NEW q \in Requests, DeleteCycle(q) PROVE SerialInv'
  BY <1>28, SerialEnd DEF DeleteCycle
<1>29. ASSUME NEW q \in Requests, DeleteGivenUp(q) PROVE SerialInv'
  BY <1>29, SerialEnd DEF DeleteGivenUp
<1>30. ASSUME NEW q \in Requests, Crash(q) PROVE SerialInv'
  BY <1>30, SerialEnd DEF Crash, InFlight
<1>a. ASSUME NEW c \in calls, Answer(c), cycle' = cycle PROVE SerialInv'
  <2>. DEFINE r == [req[c.from] EXCEPT !.resp = TRUE]
  <2>1. c.from \in Requests
    BY <1>t DEF TypeOK, Calls, ComputeCall, PruneCall, PayoutCall
  <2>2. req[c.from] \in Request
    BY <2>1, <1>r
  <2>3. CASE Waiting(c)
    <3>1. r.pc = req[c.from].pc /\ r.st = req[c.from].st
      BY <2>2 DEF Request
    <3>2. Put(c.from, r) /\ req[c.from].pc \notin {"new", "done"}
      BY <2>3, <1>a DEF Answer, Waiting
    <3>3. Fits(r, cycle')
      BY <3>1, <3>2, <2>1, <1>f, <1>a DEF Fits
    <3>. HIDE DEF r
    <3>. QED
      BY <3>2, <3>3, <2>1, <1>f, SerialMove
  <2>4. CASE ~ Waiting(c)
    BY <2>4, <1>a DEF Answer, SerialInv, InFlight
  <2>. QED
    BY <2>3, <2>4
<1>31. ASSUME NEW c \in calls, ServeCompute(c) \/ ServePrune(c) \/ ServePayout(c)
       PROVE  SerialInv'
  BY <1>31, <1>a DEF ServeCompute, ServePrune, ServePayout
<1>32. ASSUME NEW e \in Employees, MoveEmployee(e) PROVE SerialInv'
  BY <1>32 DEF MoveEmployee, SerialInv, InFlight
<1>33. CASE UNCHANGED vars
  BY <1>33 DEF vars, SerialInv, InFlight
<1>. QED
  BY <1>1, <1>2, <1>3, <1>4, <1>5, <1>6, <1>7, <1>8, <1>9, <1>10, <1>11, <1>12,
     <1>13, <1>14, <1>15, <1>16, <1>17, <1>18, <1>19, <1>20, <1>21, <1>22, <1>23,
     <1>24, <1>25, <1>26, <1>27, <1>28, <1>29, <1>30, <1>31, <1>32, <1>33
     DEF Next, Start, Progress, Process, Serve, Idle

LEMMA SerialInit == Init => SerialInv
  BY DEF Init, SerialInv, InFlight, Blank

-----------------------------------------------------------------------------
(* The status machine *)

\* What an entry of the table allows, as a step of the lifecycle.
LEMMA LifecycleMoves ==
  /\ cycle = "NONE" /\ cycle' = "DRAFT" => Lifecycle!Next
  /\ cycle \in Status /\ CanTransition(cycle, "LOCKED") /\ cycle' = "COMPUTING"
       => Lifecycle!Next
  /\ cycle = "COMPUTING" /\ cycle' \in {"COMPUTED", "FAILED"} => Lifecycle!Next
  /\ cycle = "COMPUTED" /\ cycle' = "APPROVED" => Lifecycle!Next
  /\ cycle = "APPROVED" /\ cycle' = "DISBURSED" => Lifecycle!Next
  /\ cycle \in Status \ {"DISBURSED"} /\ cycle' = "DELETED" => Lifecycle!Next
<1>1. cycle = "NONE" /\ cycle' = "DRAFT" => Lifecycle!Next
  BY DEF Lifecycle!Next, Lifecycle!Create
<1>2. cycle \in Status /\ CanTransition(cycle, "LOCKED") /\ cycle' = "COMPUTING"
        => Lifecycle!Next
  BY DEF Lifecycle!Process, Lifecycle!Next, Status, Allowed, CanTransition, Lifecycle!Status,
         Lifecycle!Allowed, Lifecycle!CanTransition, Lifecycle!Runnable
<1>3. cycle = "COMPUTING" /\ cycle' \in {"COMPUTED", "FAILED"} => Lifecycle!Next
  BY DEF Lifecycle!Advance, Lifecycle!Next, Status, Allowed, CanTransition, Lifecycle!Status,
         Lifecycle!Allowed, Lifecycle!CanTransition, Lifecycle!Runnable
<1>4. cycle = "COMPUTED" /\ cycle' = "APPROVED" => Lifecycle!Next
  BY DEF Lifecycle!Advance, Lifecycle!Next, Status, Allowed, CanTransition, Lifecycle!Status,
         Lifecycle!Allowed, Lifecycle!CanTransition, Lifecycle!Runnable
<1>5. cycle = "APPROVED" /\ cycle' = "DISBURSED" => Lifecycle!Next
  BY DEF Lifecycle!Advance, Lifecycle!Next, Status, Allowed, CanTransition, Lifecycle!Status,
         Lifecycle!Allowed, Lifecycle!CanTransition, Lifecycle!Runnable
<1>6. cycle \in Status \ {"DISBURSED"} /\ cycle' = "DELETED" => Lifecycle!Next
  BY DEF Lifecycle!Next, Lifecycle!Delete, Status, Lifecycle!Status
<1>. QED
  BY <1>1, <1>2, <1>3, <1>4, <1>5, <1>6

LEMMA LifecycleStep ==
  TypeInv /\ SerialInv /\ [Next]_vars => [Lifecycle!Next]_cycle
<1>. SUFFICES ASSUME TypeInv, SerialInv, [Next]_vars, cycle' # cycle
              PROVE  Lifecycle!Next
  OBVIOUS
<1>f. \A q \in Requests : req[q].pc \notin {"new", "done"} => Fits(req[q], cycle)
  BY DEF SerialInv, InFlight
<1>1. CASE CreateCycle
  BY <1>1, LifecycleMoves DEF CreateCycle
<1>2. ASSUME NEW q \in Requests, Begin(q) PROVE Lifecycle!Next
  BY <1>2, <1>f, LifecycleMoves DEF Begin, MayBegin, Fits
<1>3. ASSUME NEW q \in Requests, ListFails(q) PROVE Lifecycle!Next
  BY <1>3, <1>f, LifecycleMoves DEF ListFails, Fits, Working
<1>4. ASSUME NEW q \in Requests, Finish(q) PROVE Lifecycle!Next
  BY <1>4, <1>f, LifecycleMoves DEF Finish, Outcome, Fits, Working
<1>5. ASSUME NEW q \in Requests, MarkApproved(q) PROVE Lifecycle!Next
  BY <1>5, <1>f, LifecycleMoves DEF MarkApproved, Fits
<1>6. ASSUME NEW q \in Requests, Settle(q) PROVE Lifecycle!Next
  BY <1>6, <1>f, LifecycleMoves DEF Settle, Fits, Approving
<1>7. ASSUME NEW q \in Requests, DeleteCycle(q) PROVE Lifecycle!Next
  BY <1>7, <1>f, LifecycleMoves DEF DeleteCycle, Fits
<1>8. ASSUME NEW q \in Requests, Start(q) \/ Progress(q) \/ Crash(q)
      PROVE  \/ Begin(q) \/ ListFails(q) \/ Finish(q) \/ MarkApproved(q)
             \/ Settle(q) \/ DeleteCycle(q) \/ cycle' = cycle
  <2>1. CASE Start(q) \/ Crash(q)
    BY <2>1 DEF Start, StartRun, StartImport, StartApprove, StartDelete, Crash
  <2>2. CASE Process(q)
    BY <2>2 DEF Process, UnknownRow, ComputeFails, ComputeUnpaid, UsePrefilled,
       CallCompliance, ComplianceAnswered, ComplianceGivenUp, StoreResult,
       StoreConflict
  <2>3. CASE Progress(q) /\ ~ Process(q)
    BY <2>3 DEF Progress, Refuse, ListEmployees, DropStale, Pruned, PruneGivenUp,
       SubmitPayout, PayoutGivenUp, ApproveConflict, DeleteGivenUp
  <2>. QED
    BY <1>8, <2>1, <2>2, <2>3
<1>9. \/ \E q \in Requests : Start(q) \/ Progress(q) \/ Crash(q)
      \/ CreateCycle \/ cycle' = cycle
  BY DEF Next, vars, Idle, Serve, ServeCompute, ServePrune, ServePayout, MoveEmployee
<1>. QED
  BY <1>1, <1>2, <1>3, <1>4, <1>5, <1>6, <1>7, <1>8, <1>9

\* One request at a time, the status of a cycle follows the machine of
\* app/state.py: what run_cycle, import_register, approve_cycle and delete_cycle
\* do to it, with crashes, timeouts and late calls, implements CycleLifecycle.
THEOREM FollowsTheLifecycle ==
  ASSUME Overlap = FALSE
  PROVE  Spec => FollowsLifecycle
<1>1. Init => Lifecycle!Init
  BY DEF Init, Lifecycle!Init
<1>. QED
  BY <1>1, TypeInit, TypeStep, SerialInit, SerialStep, LifecycleStep, PTL
     DEF Spec, FollowsLifecycle, Lifecycle!Spec

-----------------------------------------------------------------------------
(* The money *)

\* The transactions that are paid, or may still be by a call under way.
Submitted == {t \in Txn : \/ t \in payout
                          \/ \E c \in calls : c.kind = "payout" /\ t \in c.txns}

PaidRows == {t \in Txn : result[t[1]] = [st |-> "PAID", pay |-> t[2]]}

NothingPaid == \A e \in Employees : result[e].st # "PAID"

\* The statuses before the first approval.
Unapproved == {"NONE", "DRAFT", "LOCKED", "COMPUTING", "COMPUTED", "FAILED"}

\* Nobody has two transactions, not even after the cycle is deleted.
OneEach == \A s, t \in Submitted : s[1] = t[1] => s = t

\* Before the approval nothing is submitted; from then on only what the
\* results come to, and that is what a waiting approval submitted; in the end
\* all of it is paid.
MoneyInv ==
    /\ OneEach
    /\ cycle \in Unapproved => Submitted = {} /\ NothingPaid
    /\ cycle = "APPROVED" =>
         /\ Submitted \subseteq ToPay /\ NothingPaid
         /\ \A q \in Requests : req[q].pc = "payout" => req[q].txns = ToPay
    /\ cycle = "DISBURSED" =>
         /\ ToPay = {} /\ payout = PaidRows /\ Submitted \subseteq payout

LEMMA TxnPairs ==
  \A t \in Txn : t = <<t[1], t[2]>> /\ t[1] \in Employees /\ t[2] \in Pays
  BY DEF Txn

\* The results come to one transaction for every employee who is COMPUTED.
LEMMA ToPayFacts ==
  ASSUME TypeOK
  PROVE  /\ \A s, t \in ToPay : s[1] = t[1] => s = t
         /\ \A e \in Employees :
              (\E t \in ToPay : t[1] = e) <=> result[e].st = "COMPUTED"
<1>0. \A a, b : Computed(a) = Computed(b) => a = b
  <2>1. \A a : Computed(a).pay = a
    BY DEF Computed
  <2>. QED
    BY <2>1
<1>1. ASSUME NEW s \in ToPay, NEW t \in ToPay, s[1] = t[1]
      PROVE  s = t
  <2>1. s \in Txn /\ t \in Txn /\ s[2] = t[2]
    BY <1>0, <1>1 DEF ToPay
  <2>. QED
    BY <2>1, <1>1, TxnPairs
<1>2. ASSUME NEW e \in Employees, NEW t \in ToPay, t[1] = e
      PROVE  result[e].st = "COMPUTED"
  BY <1>2 DEF ToPay, Computed
<1>3. ASSUME NEW e \in Employees, result[e].st = "COMPUTED"
      PROVE  \E t \in ToPay : t[1] = e
  <2>. DEFINE t == <<e, result[e].pay>>
  <2>1. result[e] \in ResultRow
    BY DEF TypeOK
  <2>2. t \in Txn /\ t[1] = e /\ result[e] = Computed(t[2])
    BY <2>1, <1>3 DEF Txn, ResultRow, Computed
  <2>. HIDE DEF t
  <2>. QED
    BY <2>2 DEF ToPay
<1>. QED
  BY <1>1, <1>2, <1>3

LEMMA SubmittedShrinks ==
  ASSUME payout' = payout, \A c \in calls' : c.kind = "payout" => c \in calls
  PROVE  Submitted' \subseteq Submitted
  BY DEF Submitted

\* Before the approval only a result that turns PAID could do harm.
LEMMA MoneyEarly ==
  ASSUME MoneyInv, cycle \in Unapproved, cycle' \in Unapproved, payout' = payout,
         \A c \in calls' : c.kind = "payout" => c \in calls,
         \A e \in Employees : result'[e].st = "PAID" => result[e].st = "PAID"
  PROVE  MoneyInv'
<1>1. Submitted' = {}
  BY SubmittedShrinks DEF MoneyInv
<1>2. NothingPaid'
  BY DEF MoneyInv, NothingPaid
<1>3. cycle' # "APPROVED" /\ cycle' # "DISBURSED"
  BY DEF Unapproved
<1>. QED
  BY <1>1, <1>2, <1>3 DEF MoneyInv, OneEach

\* A step that changes neither the books nor what an approval waits for.
LEMMA MoneyQuiet ==
  ASSUME MoneyInv, cycle' = cycle, result' = result,
         payout \subseteq payout', payout' \subseteq Submitted,
         Submitted' \subseteq Submitted,
         \A q \in Requests : req'[q].pc = "payout" =>
             req[q].pc = "payout" /\ req'[q].txns = req[q].txns
  PROVE  MoneyInv'
<1>1. ToPay' = ToPay /\ PaidRows' = PaidRows /\ (NothingPaid' <=> NothingPaid)
  BY DEF ToPay, PaidRows, NothingPaid
<1>2. OneEach'
  BY DEF MoneyInv, OneEach
<1>3. cycle = "DISBURSED" => payout' = payout
  BY DEF MoneyInv
<1>. QED
  BY <1>1, <1>2, <1>3 DEF MoneyInv

LEMMA MoneyPut ==
  ASSUME TypeInv, MoneyInv, NEW q \in Requests, NEW r, Put(q, r), r.pc # "payout",
         cycle' = cycle, result' = result, payout' = payout,
         \A c \in calls' : c.kind = "payout" => c \in calls
  PROVE  MoneyInv'
<1>1. req'[q] = r /\ \A p \in Requests : p # q => req'[p] = req[p]
  BY DEF Put, TypeInv, TypeOK
<1>2. payout \subseteq Submitted
  BY DEF Submitted, TypeInv, TypeOK
<1>. QED
  BY <1>1, <1>2, SubmittedShrinks, MoneyQuiet

LEMMA MoneyEnd ==
  ASSUME TypeInv, MoneyInv, NEW q \in Requests, End(q),
         cycle' = cycle, result' = result, payout' = payout,
         \A c \in calls' : c.kind = "payout" => c \in calls
  PROVE  MoneyInv'
<1>1. Ended.pc # "payout"
  BY DEF Ended, Blank
<1>. QED
  BY <1>1, MoneyPut DEF End

LEMMA MoneyLoad ==
  ASSUME TypeInv, MoneyInv, NEW q \in Requests, NEW op, NEW pc, NEW rows,
         Load(q, op, pc, rows), pc # "payout",
         cycle' = cycle, result' = result, payout' = payout,
         \A c \in calls' : c.kind = "payout" => c \in calls
  PROVE  MoneyInv'
<1>. DEFINE r == [Blank EXCEPT !.op = op, !.pc = pc, !.st = cycle, !.todo = rows]
<1>1. r.pc = pc /\ Put(q, r)
  BY DEF Load, Blank
<1>. QED
  BY <1>1, MoneyPut

\* A call is executed.
LEMMA MoneyAnswer ==
  ASSUME TypeInv, MoneyInv, NEW c \in calls, Answer(c), cycle' = cycle,
         result' = result, payout \subseteq payout', payout' \subseteq Submitted
  PROVE  MoneyInv'
<1>. DEFINE r == [req[c.from] EXCEPT !.resp = TRUE]
<1>1. c.from \in Requests
  BY DEF TypeInv, TypeOK, Calls, ComputeCall, PruneCall, PayoutCall
<1>2. r.pc = req[c.from].pc /\ r.txns = req[c.from].txns
  BY <1>1 DEF TypeInv, TypeOK, Request
<1>3. req' = req \/ Put(c.from, r)
  BY DEF Answer
<1>. HIDE DEF r
<1>4. \A q \in Requests : req'[q].pc = "payout" =>
          req[q].pc = "payout" /\ req'[q].txns = req[q].txns
  BY <1>1, <1>2, <1>3 DEF Put, TypeInv, TypeOK
<1>5. Submitted' \subseteq Submitted
  <2>1. calls' \subseteq calls
    BY DEF Answer
  <2>. QED
    BY <2>1 DEF Submitted
<1>. QED
  BY <1>4, <1>5, MoneyQuiet

LEMMA MoneyStep ==
  TypeInv /\ PaidInv /\ SerialInv /\ MoneyInv /\ [Next]_vars => MoneyInv'
<1>. SUFFICES ASSUME TypeInv, PaidInv, SerialInv, MoneyInv, [Next]_vars
              PROVE  MoneyInv'
  OBVIOUS
<1>. USE DEF OthersKeep
<1>t. TypeOK /\ CurKnown
  BY DEF TypeInv
<1>r. \A q \in Requests : req[q] \in Request
  BY <1>t DEF TypeOK
<1>i. NewIsNotPaid /\ AnswerIsTrue
  BY DEF PaidInv
<1>f. \A q \in Requests : req[q].pc \notin {"new", "done"} =>
        /\ InFlight \subseteq {q} /\ Fits(req[q], cycle)
  BY DEF SerialInv, InFlight
<1>w. \A q \in Requests : req[q].pc \in Working =>
        cycle = "COMPUTING" /\ cycle \in Unapproved
  BY <1>f DEF Fits, Working, Unapproved
<1>u. {"DRAFT", "COMPUTING", "COMPUTED", "FAILED"} \subseteq Unapproved
  BY DEF Unapproved
<1>p. payout \subseteq Submitted
  BY <1>t DEF TypeOK, Submitted
<1>1. CASE CreateCycle
  BY <1>1, <1>u, MoneyEarly DEF CreateCycle, Unapproved
<1>2. ASSUME NEW q \in Requests, StartRun(q) PROVE MoneyInv'
  BY <1>2, MoneyLoad DEF StartRun
<1>3. ASSUME NEW q \in Requests, NEW op, NEW rows, StartImport(q, op, rows)
      PROVE  MoneyInv'
  BY <1>3, MoneyLoad DEF StartImport
<1>4. ASSUME NEW q \in Requests, StartApprove(q) PROVE MoneyInv'
  <2>. DEFINE pc == IF cycle = "COMPUTED" THEN "mark" ELSE "gather"
  <2>1. pc # "payout" /\ Load(q, "approve", pc, {}) /\ cycle' = cycle
    BY <1>4 DEF StartApprove
  <2>. HIDE DEF pc
  <2>. QED
    BY <2>1, <1>4, MoneyLoad DEF StartApprove
<1>5. ASSUME NEW q \in Requests, StartDelete(q) PROVE MoneyInv'
  <2>1. \A c \in calls' : c.kind = "payout" => c \in calls
    BY <1>5 DEF StartDelete
  <2>. QED
    BY <2>1, <1>5, MoneyLoad DEF StartDelete
<1>6. ASSUME NEW q \in Requests, Begin(q) PROVE MoneyInv'
  <2>1. cycle \in Unapproved
    BY <1>6, <1>f DEF Begin, MayBegin, CanTransition, Allowed, Fits, Status, Unapproved
  <2>. QED
    BY <2>1, <1>6, <1>u, MoneyEarly DEF Begin
<1>7. ASSUME NEW q \in Requests, Refuse(q) PROVE MoneyInv'
  BY <1>7, MoneyEnd DEF Refuse
<1>8. ASSUME NEW q \in Requests, NEW page, ListEmployees(q, page) PROVE MoneyInv'
  BY <1>8, <1>w, MoneyEarly DEF ListEmployees, Working
<1>9. ASSUME NEW q \in Requests, ListFails(q) PROVE MoneyInv'
  BY <1>9, <1>w, <1>u, MoneyEarly DEF ListFails, Working
<1>10. ASSUME NEW q \in Requests, NEW e, UnknownRow(q, e) PROVE MoneyInv'
  BY <1>10, <1>w, MoneyEarly DEF UnknownRow, Working
<1>11. ASSUME NEW q \in Requests, NEW e, ComputeFails(q, e) PROVE MoneyInv'
  BY <1>11, <1>w, MoneyEarly DEF ComputeFails, Due, Working
<1>12. ASSUME NEW q \in Requests, NEW e, ComputeUnpaid(q, e) PROVE MoneyInv'
  BY <1>12, <1>w, MoneyEarly DEF ComputeUnpaid, Due, Working
<1>13. ASSUME NEW q \in Requests, NEW e, NEW a, UsePrefilled(q, e, a)
       PROVE  MoneyInv'
  BY <1>13, <1>w, MoneyEarly DEF UsePrefilled, Due, Working
<1>14. ASSUME NEW q \in Requests, NEW e, NEW a, CallCompliance(q, e, a)
       PROVE  MoneyInv'
  <2>1. \A c \in calls' : c.kind = "payout" => c \in calls
    BY <1>14 DEF CallCompliance
  <2>. QED
    BY <2>1, <1>14, <1>w, MoneyEarly DEF CallCompliance, Due, Working
<1>15. ASSUME NEW q \in Requests, ComplianceAnswered(q) PROVE MoneyInv'
  BY <1>15, <1>w, MoneyEarly DEF ComplianceAnswered, Working
<1>16. ASSUME NEW q \in Requests, ComplianceGivenUp(q) PROVE MoneyInv'
  BY <1>16, <1>w, MoneyEarly DEF ComplianceGivenUp, GiveUp, Working
<1>17. ASSUME NEW q \in Requests, StoreResult(q) PROVE MoneyInv'
  <2>1. Written(result[req[q].cur], req[q].row, req[q].new).st = "PAID"
          => result[req[q].cur].st = "PAID"
    BY <1>i DEF Written, NewIsNotPaid
  <2>2. \A e \in Employees : result'[e].st = "PAID" => result[e].st = "PAID"
    BY <2>1, <1>17, <1>t DEF StoreResult, TypeOK
  <2>. QED
    BY <2>2, <1>17, <1>w, MoneyEarly DEF StoreResult, Working
<1>18. ASSUME NEW q \in Requests, StoreConflict(q) PROVE MoneyInv'
  BY <1>18, MoneyEnd DEF StoreConflict
<1>19. ASSUME NEW q \in Requests, DropStale(q) PROVE MoneyInv'
  <2>1. \A c \in calls' : c.kind = "payout" => c \in calls
    BY <1>19 DEF DropStale
  <2>2. \A e \in Employees : result'[e].st = "PAID" => result[e].st = "PAID"
    BY <1>19 DEF DropStale, Kept, NoResult
  <2>. QED
    BY <2>1, <2>2, <1>19, <1>w, MoneyEarly DEF DropStale, Working
<1>20. ASSUME NEW q \in Requests, Pruned(q) PROVE MoneyInv'
  BY <1>20, <1>w, MoneyEarly DEF Pruned, Working
<1>21. ASSUME NEW q \in Requests, PruneGivenUp(q) PROVE MoneyInv'
  BY <1>21, <1>w, MoneyEarly DEF PruneGivenUp, GiveUp, Working
<1>22. ASSUME NEW q \in Requests, Finish(q) PROVE MoneyInv'
  BY <1>22, <1>w, <1>u, MoneyEarly DEF Finish, Outcome, Working
<1>23. ASSUME NEW q \in Requests, MarkApproved(q) PROVE MoneyInv'
  <2>1. cycle = "COMPUTED"
    BY <1>23, <1>f DEF MarkApproved, Fits
  <2>2. Submitted' = {} /\ NothingPaid'
    BY <2>1, <1>23, <1>u, SubmittedShrinks DEF MarkApproved, MoneyInv, NothingPaid
  <2>3. \A p \in Requests : req'[p].pc # "payout"
    <3>. DEFINE r == [req[q] EXCEPT !.pc = "gather", !.st = "APPROVED"]
    <3>1. r.pc = "gather" /\ Put(q, r)
      BY <1>23, <1>r DEF MarkApproved, Request
    <3>. HIDE DEF r
    <3>2. req'[q] = r /\ \A p \in Requests : p # q => req'[p] = req[p]
      BY <3>1, <1>t DEF Put, TypeOK
    <3>3. \A p \in Requests : req[p].pc # "payout"
      BY <2>1, <1>f DEF Fits, Approving
    <3>. QED
      BY <3>1, <3>2, <3>3
  <2>4. cycle' = "APPROVED" /\ "APPROVED" \notin Unapproved
    BY <1>23 DEF MarkApproved, Unapproved
  <2>. QED
    BY <2>2, <2>3, <2>4 DEF MoneyInv, OneEach
<1>24. ASSUME NEW q \in Requests, SubmitPayout(q) PROVE MoneyInv'
  <2>. DEFINE txns == ToPay
              r == [req[q] EXCEPT !.pc = "payout", !.txns = txns, !.resp = FALSE]
              call == [kind |-> "payout", from |-> q, txns |-> txns]
  <2>1. cycle = "APPROVED"
    BY <1>24, <1>f DEF SubmitPayout, Fits, Approving
  <2>2. r.txns = ToPay /\ call.txns = ToPay
    BY <1>r DEF Request
  <2>3. /\ Put(q, r) /\ calls' = calls \cup {call}
        /\ payout' = payout /\ result' = result /\ cycle' = cycle
    BY <1>24 DEF SubmitPayout
  <2>4. ToPay' = ToPay /\ NothingPaid'
    BY <2>1, <2>3 DEF MoneyInv, ToPay, NothingPaid
  <2>. HIDE DEF txns, r, call
  <2>5. Submitted' \subseteq ToPay
    <3>1. Submitted' \subseteq Submitted \cup ToPay
      BY <2>2, <2>3 DEF Submitted
    <3>. QED
      BY <3>1, <2>1 DEF MoneyInv
  <2>6. \A p \in Requests : req'[p].pc = "payout" => req'[p].txns = ToPay
    <3>1. req'[q] = r /\ \A p \in Requests : p # q => req'[p] = req[p]
      BY <2>3, <1>t DEF Put, TypeOK
    <3>. QED
      BY <3>1, <2>1, <2>2 DEF MoneyInv
  <2>7. OneEach'
    BY <2>5, <1>t, ToPayFacts DEF OneEach
  <2>. QED
    BY <2>1, <2>3, <2>4, <2>5, <2>6, <2>7 DEF MoneyInv, Unapproved
<1>25. ASSUME NEW q \in Requests, PayoutGivenUp(q) PROVE MoneyInv'
  BY <1>25, MoneyEnd DEF PayoutGivenUp, GiveUp
<1>26. ASSUME NEW q \in Requests, Settle(q) PROVE MoneyInv'
  <2>1. cycle = "APPROVED" /\ req[q].pc = "payout" /\ req[q].resp
    BY <1>26, <1>f DEF Settle, Fits, Approving
  <2>2. req[q].txns = ToPay /\ Submitted \subseteq ToPay /\ NothingPaid /\ OneEach
    BY <2>1 DEF MoneyInv
  <2>3. payout = ToPay
    BY <2>1, <2>2, <1>i, <1>p DEF AnswerIsTrue
  <2>4. result' = Settled(q) /\ payout' = payout /\ calls' = calls
        /\ cycle' = "DISBURSED"
    BY <1>26 DEF Settle
  <2>5. \A e \in Employees :
          result'[e] = IF result[e].st = "COMPUTED"
                       THEN [result[e] EXCEPT !.st = "PAID"] ELSE result[e]
    BY <2>2, <2>4, <1>t, ToPayFacts DEF Settled
  <2>6. ToPay' = {}
    <3>1. \A e \in Employees : result'[e].st # "COMPUTED"
      BY <2>5, <1>t DEF TypeOK, ResultRow
    <3>. QED
      BY <3>1, TxnPairs DEF ToPay, Computed
  <2>7. PaidRows' = ToPay
    <3>1. ASSUME NEW t \in Txn
          PROVE  result'[t[1]] = [st |-> "PAID", pay |-> t[2]]
                   <=> result[t[1]] = [st |-> "COMPUTED", pay |-> t[2]]
      <4>. DEFINE old == result[t[1]]
                  new == result'[t[1]]
      <4>1. old \in ResultRow /\ old.st # "PAID"
        BY <2>2, <1>t, TxnPairs DEF TypeOK, NothingPaid
      <4>2. new = IF old.st = "COMPUTED" THEN [old EXCEPT !.st = "PAID"] ELSE old
        BY <2>5, TxnPairs
      <4>. HIDE DEF old, new
      <4>3. old = [st |-> old.st, pay |-> old.pay]
        BY <4>1 DEF ResultRow
      <4>4. CASE old.st = "COMPUTED"
        <5>1. new = [st |-> "PAID", pay |-> old.pay]
          BY <4>1, <4>2, <4>4 DEF ResultRow
        <5>2. new = [st |-> "PAID", pay |-> t[2]] <=> old.pay = t[2]
          BY <5>1
        <5>3. old = [st |-> "COMPUTED", pay |-> t[2]] <=> old.pay = t[2]
          BY <4>3, <4>4
        <5>. QED
          BY <5>2, <5>3 DEF old, new
      <4>5. CASE old.st # "COMPUTED"
        BY <4>1, <4>2, <4>5 DEF old, new
      <4>. QED
        BY <4>4, <4>5
    <3>. QED
      BY <3>1 DEF PaidRows, ToPay, Computed
  <2>8. Submitted' = Submitted
    BY <2>4 DEF Submitted
  <2>9. OneEach'
    BY <2>2, <2>8 DEF OneEach
  <2>. QED
    BY <2>2, <2>3, <2>4, <2>6, <2>7, <2>8, <2>9 DEF MoneyInv, Unapproved
<1>27. ASSUME NEW q \in Requests, ApproveConflict(q) PROVE MoneyInv'
  BY <1>27, MoneyEnd DEF ApproveConflict
<1>28. ASSUME NEW q \in Requests, DeleteCycle(q) PROVE MoneyInv'
  <2>1. Submitted' = Submitted /\ cycle' = "DELETED"
    BY <1>28 DEF DeleteCycle, Submitted
  <2>2. OneEach'
    BY <2>1 DEF MoneyInv, OneEach
  <2>. QED
    BY <2>1, <2>2 DEF MoneyInv, Unapproved
<1>29. ASSUME NEW q \in Requests, DeleteGivenUp(q) PROVE MoneyInv'
  BY <1>29, MoneyEnd DEF DeleteGivenUp, GiveUp
<1>30. ASSUME NEW q \in Requests, Crash(q) PROVE MoneyInv'
  BY <1>30, MoneyEnd DEF Crash, GiveUp
<1>31. ASSUME NEW c \in calls, ServeCompute(c) \/ ServePrune(c) PROVE MoneyInv'
  BY <1>31, <1>p, MoneyAnswer DEF ServeCompute, ServePrune
<1>32. ASSUME NEW c \in calls, ServePayout(c) PROVE MoneyInv'
  <2>1. c.kind = "payout" /\ c.txns \subseteq Txn
    BY <1>32, <1>t DEF ServePayout, TypeOK, Calls, ComputeCall, PruneCall, PayoutCall
  <2>2. c.txns \subseteq Submitted
    BY <2>1 DEF Submitted
  <2>3. payout' = payout \cup c.txns
    BY <1>32 DEF ServePayout, Ledger!Pay
  <2>. QED
    BY <2>2, <2>3, <1>p, <1>32, MoneyAnswer DEF ServePayout
<1>33. CASE UNCHANGED vars \/ \E e \in Employees : MoveEmployee(e)
  <2>1. UNCHANGED <<cycle, result, payout, calls, req>>
    BY <1>33 DEF vars, MoveEmployee
  <2>. QED
    BY <2>1, <1>p, SubmittedShrinks, MoneyQuiet
<1>. QED
  BY <1>1, <1>2, <1>3, <1>4, <1>5, <1>6, <1>7, <1>8, <1>9, <1>10, <1>11, <1>12,
     <1>13, <1>14, <1>15, <1>16, <1>17, <1>18, <1>19, <1>20, <1>21, <1>22, <1>23,
     <1>24, <1>25, <1>26, <1>27, <1>28, <1>29, <1>30, <1>31, <1>32, <1>33
     DEF Next, Start, Progress, Process, Serve, Idle

LEMMA MoneyInit == Init => MoneyInv
  BY DEF Init, MoneyInv, OneEach, Submitted, NothingPaid, NoResult

LEMMA SerialSafety ==
  ASSUME Overlap = FALSE
  PROVE  Spec => [](TypeInv /\ PaidInv /\ SerialInv /\ MoneyInv)
  BY TypeInit, TypeStep, PaidInit, PaidStep, SerialInit, SerialStep, MoneyInit,
     MoneyStep, PTL DEF Spec

\* One request at a time, nobody is paid twice for a cycle, however often its
\* approval is retried after crashes and lost answers and however late
\* payout-service executes a batch (approve_cycle).
THEOREM NobodyIsPaidTwice ==
  ASSUME Overlap = FALSE
  PROVE  Spec => []PaidOnce
<1>1. TypeInv /\ MoneyInv => PaidOnce
  <2>. SUFFICES ASSUME TypeInv, MoneyInv, NEW e \in Employees, NEW a \in Pays,
                       NEW b \in Pays, <<e, a>> \in payout, <<e, b>> \in payout
                PROVE  a = b
    BY DEF PaidOnce
  <2>1. <<e, a>> \in Submitted /\ <<e, b>> \in Submitted
    BY DEF TypeInv, TypeOK, Submitted
  <2>. QED
    BY <2>1 DEF MoneyInv, OneEach
<1>. QED
  BY <1>1, SerialSafety, PTL

\* One request at a time, a DISBURSED cycle's PAID results are its payments,
\* all of them and nothing else, and no computed result is left unpaid
\* (approve_cycle).
THEOREM DisbursedIsWhatWasPaid ==
  ASSUME Overlap = FALSE
  PROVE  Spec => []DisbursedMatchesPayments
<1>1. MoneyInv => DisbursedMatchesPayments
  BY DEF MoneyInv, PaidRows, DisbursedMatchesPayments
<1>. QED
  BY <1>1, SerialSafety, PTL

LEMMA FrozenStep ==
  TypeInv /\ SerialInv /\ MoneyInv /\ [Next]_vars => [ResultsFrozen]_vars
<1>. SUFFICES ASSUME TypeInv, SerialInv, MoneyInv, [Next]_vars,
                     cycle \in {"APPROVED", "DISBURSED"}, cycle' # "DELETED"
              PROVE  \A e \in Employees : SettlesOrKeeps(e)
  BY DEF ResultsFrozen
<1>f. \A q \in Requests : req[q].pc \notin {"new", "done"} => Fits(req[q], cycle)
  BY DEF SerialInv, InFlight
<1>w. \A q \in Requests : req[q].pc \notin Working
  BY <1>f DEF Fits, Working
<1>1. ASSUME NEW q \in Requests, Settle(q)
      PROVE  \A e \in Employees : SettlesOrKeeps(e)
  <2>1. req[q].txns = ToPay /\ result' = Settled(q)
    BY <1>1, <1>f DEF Settle, Fits, Approving, MoneyInv
  <2>2. ASSUME NEW e \in Employees, \E t \in ToPay : t[1] = e
        PROVE  result[e].st = "COMPUTED"
    BY <2>2 DEF ToPay, Computed
  <2>. QED
    BY <2>1, <2>2 DEF Settled, SettlesOrKeeps
<1>2. CASE result' = result
  BY <1>2 DEF SettlesOrKeeps
<1>3. ASSUME NEW q \in Requests
      PROVE  ~ (StoreResult(q) \/ DropStale(q) \/ DeleteCycle(q))
  BY <1>w DEF StoreResult, DropStale, DeleteCycle, Working
<1>4. ASSUME NEW q \in Requests, Start(q) \/ Progress(q) \/ Crash(q)
      PROVE  \/ Settle(q) \/ StoreResult(q) \/ DropStale(q) \/ DeleteCycle(q)
             \/ result' = result
  <2>1. CASE Start(q) \/ Crash(q)
    BY <2>1 DEF Start, StartRun, StartImport, StartApprove, StartDelete, Crash
  <2>2. CASE Process(q)
    BY <2>2 DEF Process, UnknownRow, ComputeFails, ComputeUnpaid, UsePrefilled,
       CallCompliance, ComplianceAnswered, ComplianceGivenUp, StoreConflict
  <2>3. CASE Progress(q) /\ ~ Process(q)
    BY <2>3 DEF Progress, Begin, Refuse, ListEmployees, ListFails, Pruned,
       PruneGivenUp, Finish, MarkApproved, SubmitPayout, PayoutGivenUp,
       ApproveConflict, DeleteGivenUp
  <2>. QED
    BY <1>4, <2>1, <2>2, <2>3
<1>5. \/ \E q \in Requests : Start(q) \/ Progress(q) \/ Crash(q)
      \/ result' = result
  BY DEF Next, vars, Idle, Serve, CreateCycle, ServeCompute, ServePrune, ServePayout,
         MoveEmployee
<1>. QED
  BY <1>1, <1>2, <1>3, <1>4, <1>5

\* One request at a time, the figures that were approved are those that are
\* paid: no net pay of an APPROVED or DISBURSED cycle changes, and no result
\* appears or goes (run_cycle and import_register refuse it).
THEOREM ApprovedStaysFrozen ==
  ASSUME Overlap = FALSE
  PROVE  Spec => ApprovedIsFrozen
  BY SerialSafety, FrozenStep, PTL DEF Spec, ApprovedIsFrozen

-----------------------------------------------------------------------------
(***************************************************************************)
(* The books of a run (run_cycle, orchestrator.py): what it has computed   *)
(* and what compliance-service has on file agree when it is about to       *)
(* publish its outcome; with crashes, lost answers and late payouts.  A    *)
(* compute or prune that is executed after its caller gave up (LateCalls)  *)
(* breaks it, and so is excluded from here on.                             *)
(***************************************************************************)

Serially == Overlap = FALSE /\ LateCalls \subseteq {"payout"}

Books == {"compute", "prune"}       \* the calls that change compliance's rows

\* A result with the contribution rows it was computed with.
Agrees(row, rows) == row.st = "COMPUTED" /\ row.pay # 0 => rows = row.pay
Booked(row, rows) == row # NoResult /\ Agrees(row, rows)

\* A run has booked everyone it is done with, from the call to compliance through
\* the row it writes; when all are, nobody else has a result.
RunOk(r, res, rows) == r.op = "run" =>
    /\ r.pc \in {"next", "compliance", "store"} =>
         /\ r.todo \subseteq r.emps
         /\ \A e \in r.emps \ r.todo : Booked(res[e], rows[e])
    /\ r.pc \in {"compliance", "store"} => r.cur \in r.todo
    /\ r.pc = "compliance" =>
         /\ r.new.st = "COMPUTED"
         /\ r.resp => rows[r.cur] = r.new.pay
    /\ r.pc = "store" => /\ r.row = res[r.cur]
                         /\ Booked(r.new, rows[r.cur])
    /\ r.pc \in {"prune", "finish"} =>
         /\ \A e \in Employees : res[e] # NoResult <=> e \in r.emps
         /\ \A e \in Employees : Agrees(res[e], rows[e])
         /\ r.resp => \A e \in Employees : rows[e] # 0 => e \in r.emps

\* A call for compliance is waited for by a request that asked for just that.
CallFits(c, r) ==
    /\ c.kind = "compute" => /\ r.pc = "compliance" /\ ~ r.resp
                             /\ c.emp = r.cur /\ c.pay = r.new.pay
    /\ c.kind = "prune" => /\ r.pc \in {"prune", "delete"} /\ ~ r.resp
                           /\ c.keep = IF r.pc = "prune" THEN r.emps ELSE {}

BooksInv ==
    /\ \A q \in Requests : RunOk(req[q], result, comp)
    /\ \A c \in calls : CallFits(c, req[c.from])

NoBookCalls(cs) == \A c \in cs : c.kind \notin Books

-----------------------------------------------------------------------------
(* One request at a time *)

LEMMA FromRequests ==
  ASSUME TypeInv PROVE \A c \in calls : c.from \in Requests
  BY DEF TypeInv, TypeOK, Calls, ComputeCall, PruneCall, PayoutCall

\* The calls for compliance are those of the request in flight.
LEMMA BookCallsOf ==
  ASSUME TypeInv, BooksInv, NEW q \in Requests, InFlight \subseteq {q}
  PROVE  \A c \in calls : c.kind \in Books => c.from = q
  BY FromRequests DEF BooksInv, CallFits, InFlight, Books

\* A request that waits for nothing has none.
LEMMA NotWaiting ==
  ASSUME TypeInv, BooksInv, NEW q \in Requests, InFlight \subseteq {q},
         req[q].pc \notin {"compliance", "prune", "delete"} \/ req[q].resp
  PROVE  NoBookCalls(calls)
  BY BookCallsOf DEF BooksInv, CallFits, NoBookCalls, Books

\* Nor has one that gave up.
LEMMA GaveUp ==
  ASSUME Serially, TypeInv, BooksInv, NEW q \in Requests, InFlight \subseteq {q},
         GiveUp(q)
  PROVE  NoBookCalls(calls')
  BY BookCallsOf DEF GiveUp, NoBookCalls, Serially, Books

LEMMA OnlyOne ==
  ASSUME SerialInv, NEW q \in Requests, req[q].pc \notin {"new", "done"}
  PROVE  InFlight \subseteq {q}
  BY DEF SerialInv, InFlight

\* The only request goes on as r, with the calls that r waits for.
LEMMA BooksPut ==
  ASSUME TypeInv, NEW q \in Requests, InFlight \subseteq {q}, NEW r, Put(q, r),
         RunOk(r, result', comp'),
         \A c \in calls' : c.kind \in Books => c.from = q /\ CallFits(c, r)
  PROVE  BooksInv'
<1>1. req'[q] = r /\ \A p \in Requests : p # q => req'[p] = req[p]
  BY DEF Put, TypeInv, TypeOK
<1>2. ASSUME NEW p \in Requests, p # q PROVE RunOk(req'[p], result', comp')
  <2>1. req'[p].pc \in {"new", "done"}
    BY <1>1, <1>2 DEF InFlight
  <2>. QED
    BY <2>1 DEF RunOk
<1>3. ASSUME NEW c \in calls' PROVE CallFits(c, req'[c.from])
  BY <1>1 DEF CallFits, Books
<1>. QED
  BY <1>1, <1>2, <1>3 DEF BooksInv

LEMMA BooksMove ==
  ASSUME TypeInv, NEW q \in Requests, InFlight \subseteq {q}, NEW r, Put(q, r),
         RunOk(r, result', comp'), NoBookCalls(calls')
  PROVE  BooksInv'
  BY BooksPut DEF NoBookCalls

LEMMA BooksEnd ==
  ASSUME TypeInv, NEW q \in Requests, InFlight \subseteq {q}, End(q),
         NoBookCalls(calls')
  PROVE  BooksInv'
<1>1. Ended.pc = "done"
  BY DEF Ended, Blank
<1>2. RunOk(Ended, result', comp')
  BY <1>1 DEF RunOk
<1>. QED
  BY <1>2, BooksMove DEF End

LEMMA BooksLoad ==
  ASSUME Serially, TypeInv, BooksInv, NEW q \in Requests, NEW op, NEW pc, NEW rows,
         pc \in {"begin", "mark", "gather", "delete"}, Load(q, op, pc, rows),
         \A c \in calls' \ calls : c.kind \in Books =>
            pc = "delete" /\ c = [kind |-> "prune", from |-> q, keep |-> {}]
  PROVE  BooksInv'
<1>. DEFINE r == [Blank EXCEPT !.op = op, !.pc = pc, !.st = cycle, !.todo = rows]
<1>1. InFlight = {} /\ Put(q, r) /\ req[q].pc = "new"
  BY DEF Load, Arrives, Serially
<1>2. r.pc = pc /\ r.resp = FALSE
  BY DEF Blank
<1>. HIDE DEF r
<1>3. NoBookCalls(calls)
  BY <1>1, NotWaiting
<1>4. RunOk(r, result', comp')
  BY <1>2 DEF RunOk
<1>5. \A c \in calls' : c.kind \in Books => c.from = q /\ CallFits(c, r)
  BY <1>2, <1>3 DEF NoBookCalls, CallFits, Books
<1>. QED
  BY <1>1, <1>4, <1>5, BooksPut

\* The row of an employee is looked up, to be overwritten by what they come to.
LEMMA BooksSelect ==
  ASSUME TypeInv, SerialInv, BooksInv, NEW q \in Requests, NEW e, NEW new,
         req[q].pc \in {"next", "compliance"}, SelectRow(q, e, new),
         result' = result, comp' = comp, NoBookCalls(calls'),
         req[q].op = "run" => e \in req[q].todo /\ Booked(new, comp[e])
  PROVE  BooksInv'
<1>. DEFINE r == [req[q] EXCEPT !.pc = "store", !.cur = e, !.row = result[e],
                                !.new = new, !.resp = FALSE]
<1>1. req[q] \in Request /\ RunOk(req[q], result, comp) /\ InFlight \subseteq {q}
  BY OnlyOne DEF TypeInv, TypeOK, BooksInv
<1>2. /\ r.pc = "store" /\ r.cur = e /\ r.row = result[e] /\ r.new = new
      /\ r.op = req[q].op /\ r.todo = req[q].todo /\ r.emps = req[q].emps
  BY <1>1 DEF Request
<1>3. Put(q, r)
  BY DEF SelectRow
<1>. HIDE DEF r
<1>4. RunOk(r, result', comp')
  BY <1>1, <1>2 DEF RunOk
<1>. QED
  BY <1>1, <1>3, <1>4, BooksMove

-----------------------------------------------------------------------------
(* The steps of a request *)

LEMMA StartBooks ==
  ASSUME Serially, TypeInv, BooksInv, NEW q \in Requests, Start(q) PROVE BooksInv'
<1>1. CASE StartRun(q)
  BY <1>1, BooksLoad DEF StartRun
<1>2. ASSUME NEW op, NEW rows, StartImport(q, op, rows) PROVE BooksInv'
  BY <1>2, BooksLoad DEF StartImport
<1>3. CASE StartApprove(q)
  <2>. DEFINE pc == IF cycle = "COMPUTED" THEN "mark" ELSE "gather"
  <2>1. Load(q, "approve", pc, {}) /\ calls' = calls /\ pc \in {"mark", "gather"}
    BY <1>3 DEF StartApprove
  <2>. HIDE DEF pc
  <2>. QED
    BY <2>1, BooksLoad
<1>4. CASE StartDelete(q)
  BY <1>4, BooksLoad DEF StartDelete
<1>. QED
  BY <1>1, <1>2, <1>3, <1>4 DEF Start

\* The employees of a run: listed, computed one by one, and stored.
LEMMA ProcessBooks ==
  ASSUME Serially, TypeInv, SerialInv, BooksInv, NEW q \in Requests,
         Process(q) \/ \E page \in SUBSET Employees : ListEmployees(q, page)
  PROVE  BooksInv'
<1>. USE DEF OthersKeep
<1>t. req[q] \in Request /\ RunOk(req[q], result, comp)
  BY DEF TypeInv, TypeOK, BooksInv
<1>o. req[q].pc \notin {"new", "done"} => InFlight \subseteq {q}
  BY OnlyOne
<1>n. req[q].pc \notin {"new", "done", "compliance", "prune", "delete"}
        => NoBookCalls(calls)
  BY <1>o, NotWaiting
<1>1. ASSUME NEW page \in SUBSET Employees, ListEmployees(q, page) PROVE BooksInv'
  <2>. DEFINE todo == IF req[q].op = "run" THEN page ELSE req[q].todo
              r == [req[q] EXCEPT !.pc = "next", !.emps = page, !.todo = todo]
  <2>1. r.op = req[q].op /\ r.pc = "next" /\ r.emps = page /\ r.todo = todo
    BY <1>t DEF Request
  <2>2. Put(q, r) /\ calls' = calls /\ req[q].pc = "list"
    BY <1>1 DEF ListEmployees
  <2>. HIDE DEF r
  <2>3. RunOk(r, result', comp')
    BY <2>1 DEF RunOk
  <2>. QED
    BY <2>2, <2>3, <1>o, <1>n, BooksMove
<1>2. ASSUME NEW e \in Employees, UnknownRow(q, e) PROVE BooksInv'
  <2>. DEFINE r == [req[q] EXCEPT !.todo = @ \ {e}, !.bad = TRUE]
  <2>1. r.op = req[q].op
    BY <1>t DEF Request
  <2>2. Put(q, r) /\ calls' = calls /\ req[q].pc = "next" /\ req[q].op # "run"
    BY <1>2 DEF UnknownRow, Importing
  <2>. HIDE DEF r
  <2>3. RunOk(r, result', comp')
    BY <2>1, <2>2 DEF RunOk
  <2>. QED
    BY <2>2, <2>3, <1>o, <1>n, BooksMove
<1>3. ASSUME NEW e \in Employees, ComputeFails(q, e) PROVE BooksInv'
  BY <1>3, <1>n, BooksSelect
     DEF ComputeFails, Due, Booked, Agrees, Failed, NoResult
<1>4. ASSUME NEW e \in Employees, ComputeUnpaid(q, e) PROVE BooksInv'
  BY <1>4, <1>n, BooksSelect
     DEF ComputeUnpaid, Due, Booked, Agrees, Computed, NoResult
<1>5. ASSUME NEW e \in Employees, NEW a \in Amounts, UsePrefilled(q, e, a)
      PROVE  BooksInv'
  BY <1>5, <1>n, BooksSelect DEF UsePrefilled, Due
<1>6. ASSUME NEW e \in Employees, NEW a \in Amounts, CallCompliance(q, e, a)
      PROVE  BooksInv'
  <2>. DEFINE n == Computed(a)
              r == [req[q] EXCEPT !.pc = "compliance", !.cur = e, !.new = n,
                                  !.resp = FALSE]
              c == [kind |-> "compute", from |-> q, emp |-> e, pay |-> a]
  <2>1. n.st = "COMPUTED" /\ n.pay = a
    BY DEF Computed
  <2>2. Put(q, r) /\ calls' = calls \cup {c} /\ req[q].pc = "next" /\ e \in req[q].todo
        /\ comp' = comp /\ result' = result
    BY <1>6 DEF CallCompliance, Due
  <2>3. c.kind = "compute" /\ c.from = q /\ c.emp = e /\ c.pay = a
    OBVIOUS
  <2>. HIDE DEF n, c
  <2>4. /\ r.op = req[q].op /\ r.pc = "compliance" /\ r.cur = e /\ r.new = n
        /\ r.resp = FALSE /\ r.emps = req[q].emps /\ r.todo = req[q].todo
    BY <1>t DEF Request
  <2>. HIDE DEF r
  <2>5. RunOk(r, result', comp')
    BY <2>1, <2>2, <2>4, <1>t DEF RunOk
  <2>6. CallFits(c, r)
    BY <2>1, <2>3, <2>4 DEF CallFits
  <2>. QED
    BY <2>2, <2>3, <2>5, <2>6, <1>o, <1>n, BooksPut DEF NoBookCalls
<1>7. ASSUME ComplianceAnswered(q) PROVE BooksInv'
  <2>1. NoBookCalls(calls)
    BY <1>7, <1>o, NotWaiting DEF ComplianceAnswered
  <2>2. req[q].op = "run" =>
          req[q].cur \in req[q].todo /\ Booked(req[q].new, comp[req[q].cur])
    BY <1>7, <1>t DEF ComplianceAnswered, RunOk, Booked, Agrees, NoResult
  <2>. QED
    BY <2>1, <2>2, <1>7, BooksSelect DEF ComplianceAnswered
<1>8. ASSUME ComplianceGivenUp(q) PROVE BooksInv'
  <2>1. NoBookCalls(calls')
    BY <1>8, <1>o, GaveUp DEF ComplianceGivenUp
  <2>2. req[q].op = "run" => req[q].cur \in req[q].todo
    BY <1>8, <1>t DEF ComplianceGivenUp, RunOk
  <2>. QED
    BY <2>1, <2>2, <1>8, BooksSelect
       DEF ComplianceGivenUp, Booked, Agrees, Failed, NoResult
<1>9. ASSUME StoreResult(q) PROVE BooksInv'
  <2>. DEFINE r == [req[q] EXCEPT !.pc = "next", !.todo = @ \ {req[q].cur},
                                  !.ok  = @ \/ req[q].new.st = "COMPUTED",
                                  !.bad = @ \/ req[q].new.st = "FAILED",
                                  !.cur = None, !.row = NoResult, !.new = NoResult]
  <2>1. /\ r.op = req[q].op /\ r.pc = "next" /\ r.emps = req[q].emps
        /\ r.todo = req[q].todo \ {req[q].cur}
    BY <1>t DEF Request
  <2>2. /\ Put(q, r) /\ calls' = calls /\ req[q].pc = "store" /\ comp' = comp
        /\ result' = [result EXCEPT ![req[q].cur] =
                        Written(result[req[q].cur], req[q].row, req[q].new)]
    BY <1>9 DEF StoreResult
  <2>. HIDE DEF r
  <2>3. /\ req[q].cur \in Employees /\ result \in [Employees -> ResultRow]
        /\ req[q].new \in ResultRow
    BY <1>t, <2>2 DEF TypeInv, TypeOK, CurKnown, Request
  <2>4. req[q].op = "run" =>
          Written(result[req[q].cur], req[q].row, req[q].new) = req[q].new
    <3>1. req[q].new = [st |-> req[q].new.st, pay |-> req[q].new.pay]
      BY <2>3 DEF ResultRow
    <3>2. req[q].op = "run" => req[q].row = result[req[q].cur]
      BY <1>t, <2>2 DEF RunOk
    <3>. QED
      BY <3>1, <3>2 DEF Written
  <2>5. RunOk(r, result', comp')
    BY <2>1, <2>2, <2>3, <2>4, <1>t DEF RunOk
  <2>. QED
    BY <2>2, <2>5, <1>o, <1>n, BooksMove
<1>10. ASSUME StoreConflict(q) PROVE BooksInv'
  BY <1>10, <1>o, <1>n, BooksEnd DEF StoreConflict
<1>. QED
  BY <1>1, <1>2, <1>3, <1>4, <1>5, <1>6, <1>7, <1>8, <1>9, <1>10 DEF Process

\* The end of a run, an approval or a deletion.
LEMMA ProgressBooks ==
  ASSUME Serially, TypeInv, SerialInv, BooksInv, NEW q \in Requests,
         Progress(q) \/ Crash(q)
  PROVE  BooksInv'
<1>. USE DEF OthersKeep
<1>t. req[q] \in Request /\ RunOk(req[q], result, comp)
  BY DEF TypeInv, TypeOK, BooksInv
<1>o. req[q].pc \notin {"new", "done"} => InFlight \subseteq {q}
  BY OnlyOne
<1>n. req[q].pc \notin {"new", "done", "compliance", "prune", "delete"}
        => NoBookCalls(calls)
  BY <1>o, NotWaiting
<1>1. ASSUME Begin(q) PROVE BooksInv'
  <2>. DEFINE r == [req[q] EXCEPT !.pc = "list", !.st = "COMPUTING"]
  <2>1. r.pc = "list"
    BY <1>t DEF Request
  <2>2. Put(q, r) /\ calls' = calls /\ req[q].pc = "begin"
    BY <1>1 DEF Begin
  <2>. HIDE DEF r
  <2>3. RunOk(r, result', comp')
    BY <2>1 DEF RunOk
  <2>. QED
    BY <2>2, <2>3, <1>o, <1>n, BooksMove
<1>2. CASE Refuse(q) \/ ListFails(q) \/ ApproveConflict(q) \/ Settle(q)
  BY <1>2, <1>o, <1>n, BooksEnd DEF Refuse, ListFails, ApproveConflict, Settle
<1>3. CASE Finish(q)
  BY <1>3, <1>o, <1>n, BooksEnd DEF Finish
<1>4. CASE PayoutGivenUp(q) \/ DeleteGivenUp(q) \/ Crash(q)
  <2>1. InFlight \subseteq {q} /\ GiveUp(q) /\ End(q)
    BY <1>4, <1>o DEF PayoutGivenUp, DeleteGivenUp, Crash, InFlight
  <2>. QED
    BY <2>1, GaveUp, BooksEnd
<1>5. ASSUME DropStale(q) PROVE BooksInv'
  <2>. DEFINE r == [req[q] EXCEPT !.pc = "prune", !.resp = FALSE]
              c == [kind |-> "prune", from |-> q, keep |-> req[q].emps]
  <2>1. r.op = req[q].op /\ r.pc = "prune" /\ r.emps = req[q].emps /\ r.resp = FALSE
    BY <1>t DEF Request
  <2>2. /\ Put(q, r) /\ calls' = calls \cup {c} /\ comp' = comp /\ result' = Kept(q)
        /\ req[q].pc = "next" /\ req[q].op = "run" /\ req[q].todo = {}
    BY <1>5 DEF DropStale
  <2>3. c.kind = "prune" /\ c.from = q /\ c.keep = req[q].emps
    OBVIOUS
  <2>. HIDE DEF r, c
  <2>4. \A e \in req[q].emps : Booked(result[e], comp[e])
    BY <2>2, <1>t DEF RunOk
  <2>5. \A e \in Employees :
           result'[e] = IF e \in req[q].emps THEN result[e] ELSE NoResult
    BY <2>2 DEF Kept
  <2>6. NoResult.st # "COMPUTED"
    BY DEF NoResult
  <2>7. \A e \in Employees : /\ result'[e] # NoResult <=> e \in req[q].emps
                             /\ Agrees(result'[e], comp[e])
    BY <2>4, <2>5, <2>6 DEF Booked, Agrees
  <2>8. RunOk(r, result', comp')
    BY <2>1, <2>2, <2>7 DEF RunOk
  <2>9. CallFits(c, r)
    BY <2>1, <2>3 DEF CallFits
  <2>. QED
    BY <2>2, <2>3, <2>8, <2>9, <1>o, <1>n, BooksPut DEF NoBookCalls
<1>6. ASSUME Pruned(q) PROVE BooksInv'
  <2>. DEFINE r == [req[q] EXCEPT !.pc = "finish"]
  <2>1. /\ r.op = req[q].op /\ r.pc = "finish" /\ r.emps = req[q].emps
        /\ r.resp = req[q].resp
    BY <1>t DEF Request
  <2>2. /\ Put(q, r) /\ calls' = calls /\ comp' = comp /\ result' = result
        /\ req[q].pc = "prune" /\ req[q].resp
    BY <1>6 DEF Pruned
  <2>. HIDE DEF r
  <2>3. RunOk(r, result', comp')
    BY <2>1, <2>2, <1>t DEF RunOk
  <2>4. NoBookCalls(calls)
    BY <2>2, <1>o, NotWaiting
  <2>. QED
    BY <2>2, <2>3, <2>4, <1>o, BooksMove
<1>7. ASSUME PruneGivenUp(q) PROVE BooksInv'
  <2>. DEFINE r == [req[q] EXCEPT !.pc = "finish", !.resp = FALSE]
  <2>1. /\ r.op = req[q].op /\ r.pc = "finish" /\ r.emps = req[q].emps
        /\ r.resp = FALSE
    BY <1>t DEF Request
  <2>2. /\ Put(q, r) /\ GiveUp(q) /\ comp' = comp /\ result' = result
        /\ req[q].pc = "prune"
    BY <1>7 DEF PruneGivenUp
  <2>. HIDE DEF r
  <2>3. RunOk(r, result', comp')
    BY <2>1, <2>2, <1>t DEF RunOk
  <2>4. NoBookCalls(calls')
    BY <2>2, <1>o, GaveUp
  <2>. QED
    BY <2>2, <2>3, <2>4, <1>o, BooksMove
<1>8. ASSUME MarkApproved(q) PROVE BooksInv'
  <2>. DEFINE r == [req[q] EXCEPT !.pc = "gather", !.st = "APPROVED"]
  <2>1. r.pc = "gather"
    BY <1>t DEF Request
  <2>2. Put(q, r) /\ calls' = calls /\ req[q].pc = "mark"
    BY <1>8 DEF MarkApproved
  <2>. HIDE DEF r
  <2>3. RunOk(r, result', comp')
    BY <2>1 DEF RunOk
  <2>. QED
    BY <2>2, <2>3, <1>o, <1>n, BooksMove
<1>9. ASSUME SubmitPayout(q) PROVE BooksInv'
  <2>. DEFINE r == [req[q] EXCEPT !.pc = "payout", !.txns = ToPay, !.resp = FALSE]
              c == [kind |-> "payout", from |-> q, txns |-> ToPay]
  <2>1. r.pc = "payout" /\ c.kind = "payout"
    BY <1>t DEF Request
  <2>2. Put(q, r) /\ calls' = calls \cup {c} /\ req[q].pc = "gather"
    BY <1>9 DEF SubmitPayout
  <2>. HIDE DEF r, c
  <2>3. RunOk(r, result', comp')
    BY <2>1 DEF RunOk
  <2>4. NoBookCalls(calls')
    BY <2>1, <2>2, <1>n DEF NoBookCalls, Books
  <2>. QED
    BY <2>2, <2>3, <2>4, <1>o, BooksMove
<1>10. ASSUME DeleteCycle(q) PROVE BooksInv'
  <2>1. NoBookCalls(calls)
    BY <1>10, <1>o, NotWaiting DEF DeleteCycle
  <2>. QED
    BY <2>1, <1>10, <1>o, BooksEnd DEF DeleteCycle
<1>. QED
  BY <1>1, <1>2, <1>3, <1>4, <1>5, <1>6, <1>7, <1>8, <1>9, <1>10, ProcessBooks
     DEF Progress

-----------------------------------------------------------------------------
(* The calls to compliance-service are executed *)

\* Compliance is asked one thing at a time.
LEMMA OnlyCall ==
  ASSUME TypeInv, SerialInv, BooksInv, NEW c \in calls, c.kind \in Books
  PROVE  /\ c.from \in Requests /\ InFlight \subseteq {c.from}
         /\ NoBookCalls(calls \ {c})
<1>1. CallFits(c, req[c.from]) /\ c.from \in Requests
  BY FromRequests DEF BooksInv
<1>2. InFlight \subseteq {c.from}
  BY <1>1, OnlyOne DEF CallFits, Books
<1>3. ASSUME NEW d \in calls, d.kind \in Books PROVE d = c
  <2>1. d.from = c.from /\ CallFits(d, req[c.from])
    BY <1>1, <1>2, <1>3, BookCallsOf DEF BooksInv
  <2>2. c \in Calls /\ d \in Calls
    BY DEF TypeInv, TypeOK
  <2>3. c.kind = d.kind
    BY <1>1, <1>3, <2>1 DEF CallFits, Books
  <2>4. CASE c.kind = "compute"
    <3>1. c \in ComputeCall /\ d \in ComputeCall
      BY <2>2, <2>3, <2>4 DEF Calls, ComputeCall, PruneCall, PayoutCall
    <3>2. c.emp = d.emp /\ c.pay = d.pay
      BY <1>1, <2>1, <2>3, <2>4 DEF CallFits
    <3>. QED
      BY <2>1, <2>3, <3>1, <3>2 DEF ComputeCall
  <2>5. CASE c.kind = "prune"
    <3>1. c \in PruneCall /\ d \in PruneCall
      BY <2>2, <2>3, <2>5 DEF Calls, ComputeCall, PruneCall, PayoutCall
    <3>2. c.keep = d.keep
      BY <1>1, <2>1, <2>3, <2>5 DEF CallFits
    <3>. QED
      BY <2>1, <2>3, <3>1, <3>2 DEF PruneCall
  <2>. QED
    BY <2>4, <2>5 DEF Books
<1>. QED
  BY <1>1, <1>2, <1>3 DEF NoBookCalls

\* A call is executed and its caller, who still waits, is told.
LEMMA BooksAnswered ==
  ASSUME TypeInv, SerialInv, BooksInv, NEW c \in calls, c.kind \in Books, Answer(c),
         result' = result,
         RunOk([req[c.from] EXCEPT !.resp = TRUE], result, comp')
  PROVE  BooksInv'
<1>1. CallFits(c, req[c.from])
  BY DEF BooksInv
<1>2. Waiting(c)
  BY <1>1 DEF CallFits, Waiting, Books
<1>. QED
  BY <1>2, OnlyCall, BooksMove DEF Answer

LEMMA ServeBooks ==
  ASSUME TypeInv, SerialInv, BooksInv, NEW c \in calls,
         ServeCompute(c) \/ ServePrune(c) \/ ServePayout(c)
  PROVE  BooksInv'
<1>. DEFINE r == [req[c.from] EXCEPT !.resp = TRUE]
<1>1. /\ c.from \in Requests /\ req[c.from] \in Request /\ c \in Calls
      /\ RunOk(req[c.from], result, comp) /\ CallFits(c, req[c.from])
  BY FromRequests DEF TypeInv, TypeOK, BooksInv
<1>2. /\ r.op = req[c.from].op /\ r.pc = req[c.from].pc /\ r.emps = req[c.from].emps
      /\ r.todo = req[c.from].todo /\ r.cur = req[c.from].cur
      /\ r.new = req[c.from].new /\ r.row = req[c.from].row /\ r.resp = TRUE
  BY <1>1 DEF Request
<1>3. result' = result /\ Answer(c)
  BY DEF ServeCompute, ServePrune, ServePayout
<1>4. comp \in [Employees -> Pays]
  BY DEF TypeInv, TypeOK
<1>5. CASE ServeCompute(c)
  <2>1. c.kind = "compute" /\ comp' = [comp EXCEPT ![c.emp] = c.pay]
    BY <1>5 DEF ServeCompute
  <2>2. c.emp \in Employees /\ c.emp = r.cur /\ c.pay = r.new.pay /\ r.pc = "compliance"
    BY <1>1, <1>2, <2>1 DEF CallFits, Calls, ComputeCall, PruneCall, PayoutCall
  <2>3. /\ comp'[r.cur] = r.new.pay
        /\ \A e \in Employees : e # r.cur => comp'[e] = comp[e]
    BY <1>4, <2>1, <2>2
  <2>. HIDE DEF r
  <2>4. RunOk(r, result, comp')
    <3>. SUFFICES ASSUME r.op = "run" PROVE RunOk(r, result, comp')
      BY DEF RunOk
    <3>1. /\ r.todo \subseteq r.emps /\ r.cur \in r.todo /\ r.new.st = "COMPUTED"
          /\ r.emps \subseteq Employees
          /\ \A e \in r.emps \ r.todo : Booked(result[e], comp[e])
      BY <1>1, <1>2, <2>2 DEF RunOk, Request
    <3>2. \A e \in r.emps \ r.todo : Booked(result[e], comp'[e])
      BY <2>3, <3>1
    <3>. QED
      BY <2>2, <2>3, <3>1, <3>2 DEF RunOk
  <2>. QED
    BY <1>3, <2>1, <2>4, BooksAnswered DEF Books, r
<1>6. CASE ServePrune(c)
  <2>1. /\ c.kind = "prune"
        /\ comp' = [e \in Employees |-> IF e \in c.keep THEN comp[e] ELSE 0]
    BY <1>6 DEF ServePrune
  <2>2. r.pc \in {"prune", "delete"} /\ (r.pc = "prune" => c.keep = r.emps)
    BY <1>1, <1>2, <2>1 DEF CallFits
  <2>. HIDE DEF r
  <2>3. RunOk(r, result, comp')
    <3>. SUFFICES ASSUME r.op = "run", r.pc = "prune" PROVE RunOk(r, result, comp')
      BY <2>2 DEF RunOk
    <3>1. /\ \A e \in Employees : result[e] # NoResult <=> e \in r.emps
          /\ \A e \in Employees : Agrees(result[e], comp[e])
      BY <1>1, <1>2 DEF RunOk
    <3>2. \A e \in Employees : comp'[e] = IF e \in r.emps THEN comp[e] ELSE 0
      BY <2>1, <2>2
    <3>3. \A e \in Employees : Agrees(result[e], comp'[e])
      BY <3>1, <3>2 DEF Agrees, NoResult
    <3>. QED
      BY <3>1, <3>2, <3>3 DEF RunOk
  <2>. QED
    BY <1>3, <2>1, <2>3, BooksAnswered DEF Books, r
<1>7. CASE ServePayout(c)
  <2>1. c.kind = "payout" /\ comp' = comp /\ calls' \subseteq calls
    BY <1>7, <1>3 DEF ServePayout, Answer
  <2>2. ASSUME Waiting(c) PROVE BooksInv'
    <3>1. req[c.from].pc = "payout" /\ req' = [req EXCEPT ![c.from] = r]
      BY <1>3, <2>1, <2>2 DEF Waiting, Answer, Put
    <3>2. InFlight \subseteq {c.from}
      BY <1>1, <3>1, OnlyOne
    <3>. HIDE DEF r
    <3>3. RunOk(r, result', comp')
      BY <1>2, <3>1 DEF RunOk
    <3>4. NoBookCalls(calls')
      BY <1>1, <2>1, <3>1, <3>2, NotWaiting DEF NoBookCalls
    <3>. QED
      BY <1>1, <3>1, <3>2, <3>3, <3>4, BooksMove DEF Put
  <2>3. CASE ~ Waiting(c)
    BY <1>3, <2>1, <2>3 DEF Answer, BooksInv
  <2>. QED
    BY <2>2, <2>3
<1>. QED
  BY <1>5, <1>6, <1>7

-----------------------------------------------------------------------------
(* The specification *)

LEMMA BooksStep ==
  Serially /\ TypeInv /\ SerialInv /\ BooksInv /\ [Next]_vars => BooksInv'
<1>. SUFFICES ASSUME Serially, TypeInv, SerialInv, BooksInv, [Next]_vars
              PROVE  BooksInv'
  OBVIOUS
<1>1. ASSUME NEW q \in Requests, Start(q) \/ Progress(q) \/ Crash(q)
      PROVE  BooksInv'
  BY <1>1, StartBooks, ProgressBooks
<1>2. CASE Serve
  BY <1>2, ServeBooks DEF Serve
<1>3. CASE \/ CreateCycle \/ Idle \/ UNCHANGED vars
           \/ \E e \in Employees : MoveEmployee(e)
  <2>1. result' = result /\ comp' = comp /\ req' = req /\ calls' = calls
    BY <1>3 DEF CreateCycle, OthersKeep, Idle, MoveEmployee, vars
  <2>. QED
    BY <2>1 DEF BooksInv
<1>. QED
  BY <1>1, <1>2, <1>3 DEF Next

LEMMA BooksInit == Init => BooksInv
  BY DEF Init, BooksInv, RunOk, Blank

LEMMA BooksAgree == BooksInv => RunLeavesConsistentBooks
<1>. SUFFICES ASSUME BooksInv, NEW q \in Requests, req[q].op = "run",
                     req[q].pc = "finish"
              PROVE  /\ \A e \in Employees : result[e] # NoResult <=> e \in req[q].emps
                     /\ \A e \in Employees : Agrees(result[e], comp[e])
                     /\ req[q].resp =>
                          \A e \in Employees : comp[e] # 0 => e \in req[q].emps
  BY DEF RunLeavesConsistentBooks, Agrees
<1>1. RunOk(req[q], result, comp)
  BY DEF BooksInv
<1>. QED
  BY <1>1 DEF RunOk

\* One request at a time, and as long as compliance-service executes no call
\* whose caller gave up, a run that is about to publish its outcome has results
\* for exactly the employees it was given, each with the contribution rows it
\* was computed with, and after an answered prune nobody else has any (run_cycle).
THEOREM BooksOfARun ==
  ASSUME Serially
  PROVE  Spec => []RunLeavesConsistentBooks
<1>1. Overlap = FALSE
  BY DEF Serially
<1>. QED
  BY <1>1, TypeInit, TypeStep, SerialInit, SerialStep, BooksInit, BooksStep,
     BooksAgree, PTL DEF Spec

=============================================================================
