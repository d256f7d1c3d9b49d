------------------------- MODULE PayrollCycleProofs -------------------------
(***************************************************************************)
(* What holds of a payroll cycle whatever interleaves (Overlap, LateCalls  *)
(* and MayCrash arbitrary), for any employees, amounts and requests: the   *)
(* typing, and that a result marked PAID has its payment.                  *)
(***************************************************************************)
EXTENDS PayrollCycle, TLAPS

-----------------------------------------------------------------------------
(* Typing *)

\* TypeOK is inductive once the employee a request works on is known to be one.
CurKnown == \A q \in Requests :
    req[q].pc \in {"compliance", "store"} => req[q].cur \in Employees

TypeInv == TypeOK /\ CurKnown

LEMMA BlankRequest == Blank \in Request /\ Ended \in Request
  BY NoneAssumption DEF Blank, Ended, Request, Ops, Processing, Importing, PCs,
     Status, NoResult, ResultRow, Pays

\* Replacing one request by another keeps the requests well-formed.
LEMMA PutType ==
  ASSUME req \in [Requests -> Request], NEW q \in Requests,
         NEW r \in Request, Put(q, r)
  PROVE  /\ req' \in [Requests -> Request]
         /\ req'[q] = r
         /\ \A p \in Requests : p # q => req'[p] = req[p]
  BY DEF Put

LEMMA EndType ==
  ASSUME TypeInv, NEW q \in Requests, End(q)
  PROVE  /\ req' \in [Requests -> Request]
         /\ req'[q].pc = "done"
         /\ \A p \in Requests : p # q => req'[p] = req[p]
         /\ CurKnown'
<1>1. Ended.pc = "done"
  BY DEF Ended, Blank
<1>2. /\ req' \in [Requests -> Request]
      /\ req'[q] = Ended
      /\ \A p \in Requests : p # q => req'[p] = req[p]
  BY BlankRequest, PutType DEF TypeInv, TypeOK, End
<1>. QED
  BY <1>1, <1>2 DEF TypeInv, CurKnown

LEMMA GiveUpType ==
  ASSUME TypeInv, NEW q \in Requests, GiveUp(q)
  PROVE  calls' \subseteq Calls
  BY DEF TypeInv, TypeOK, GiveUp

LEMMA SelectRowType ==
  ASSUME TypeInv, NEW q \in Requests, NEW e \in Employees,
         NEW new \in ResultRow, SelectRow(q, e, new)
  PROVE  req' \in [Requests -> Request] /\ CurKnown'
<1>. DEFINE r == [req[q] EXCEPT !.pc = "store", !.cur = e, !.row = result[e],
                                !.new = new, !.resp = FALSE]
<1>1. req[q] \in Request /\ result[e] \in ResultRow /\ "store" \in PCs
  BY DEF TypeInv, TypeOK, PCs
<1>3. r \in Request /\ r.cur = e
  BY <1>1 DEF Request
<1>2. Put(q, r)
  BY DEF SelectRow
<1>. QED
  BY <1>2, <1>3, PutType DEF TypeInv, TypeOK, CurKnown

LEMMA RowTypes ==
  /\ \A a \in Pays : Computed(a) \in ResultRow
  /\ Failed \in ResultRow
  /\ NoResult \in ResultRow
  BY DEF Computed, Failed, NoResult, ResultRow, Pays


\* What an action has to show of the request it leaves behind.
LEMMA MoveType ==
  ASSUME TypeInv, NEW q \in Requests, NEW r \in Request, Put(q, r),
         r.pc \in {"compliance", "store"} => r.cur \in Employees
  PROVE  req' \in [Requests -> Request] /\ CurKnown'
  BY PutType DEF TypeInv, TypeOK, CurKnown

LEMMA LoadType ==
  ASSUME TypeInv, NEW q \in Requests, NEW op \in Ops,
         NEW pc \in PCs \ {"compliance", "store"}, NEW rows \in SUBSET Employees,
         Load(q, op, pc, rows)
  PROVE  req' \in [Requests -> Request] /\ CurKnown'
<1>. DEFINE r == [Blank EXCEPT !.op = op, !.pc = pc, !.st = cycle, !.todo = rows]
<1>1. cycle \in Status
  BY DEF Load, Arrives, Exists
<1>2. r \in Request /\ r.pc = pc
  BY <1>1, BlankRequest DEF Request
<1>3. Put(q, r)
  BY DEF Load
<1>. QED
  BY <1>2, <1>3, MoveType

LEMMA CallTypes ==
  ASSUME NEW q \in Requests, NEW e \in Employees, NEW a \in Amounts,
         NEW keep \in SUBSET Employees, NEW txns \in SUBSET Txn
  PROVE  /\ [kind |-> "compute", from |-> q, emp |-> e, pay |-> a] \in Calls
         /\ [kind |-> "prune", from |-> q, keep |-> keep] \in Calls
         /\ [kind |-> "payout", from |-> q, txns |-> txns] \in Calls
  BY DEF Calls, ComputeCall, PruneCall, PayoutCall

LEMMA WrittenType ==
  ASSUME NEW old \in ResultRow, NEW row \in ResultRow, NEW new \in ResultRow
  PROVE  Written(old, row, new) \in ResultRow
  BY DEF Written, ResultRow


LEMMA TypeStep == TypeInv /\ [Next]_vars => TypeInv'
<1>. SUFFICES ASSUME TypeInv, [Next]_vars PROVE TypeInv'
  OBVIOUS
<1>. USE DEF OthersKeep
<1>t. TypeOK /\ CurKnown
  BY DEF TypeInv
<1>s. {"COMPUTING", "COMPUTED", "FAILED", "APPROVED", "DISBURSED"} \subseteq Status
  BY DEF Status
<1>p. {"list", "next", "prune", "finish", "gather", "payout", "compliance", "store"}
        \subseteq PCs
  BY DEF PCs
<1>1. CASE CreateCycle
  BY <1>1, <1>t DEF CreateCycle, TypeInv, TypeOK, CurKnown, Status
<1>2. ASSUME NEW q \in Requests, StartRun(q) PROVE TypeInv'
  <2>1. req' \in [Requests -> Request] /\ CurKnown'
    BY <1>2, LoadType DEF StartRun, Ops, Processing, PCs
  <2>. QED
    BY <2>1, <1>2, <1>t DEF StartRun, TypeInv, TypeOK
<1>3. ASSUME NEW q \in Requests, NEW op \in Importing, NEW rows \in SUBSET Employees,
             StartImport(q, op, rows)
      PROVE  TypeInv'
  <2>1. req' \in [Requests -> Request] /\ CurKnown'
    BY <1>3, LoadType DEF StartImport, Ops, Processing, PCs
  <2>. QED
    BY <2>1, <1>3, <1>t DEF StartImport, TypeInv, TypeOK
<1>4. ASSUME NEW q \in Requests, StartApprove(q) PROVE TypeInv'
  <2>1. req' \in [Requests -> Request] /\ CurKnown'
    BY <1>4, LoadType DEF StartApprove, Ops, PCs
  <2>. QED
    BY <2>1, <1>4, <1>t DEF StartApprove, TypeInv, TypeOK
<1>5. ASSUME NEW q \in Requests, StartDelete(q) PROVE TypeInv'
  <2>1. req' \in [Requests -> Request] /\ CurKnown'
    BY <1>5, LoadType DEF StartDelete, Ops, PCs
  <2>2. calls' \subseteq Calls
    BY <1>5, <1>t, CallTypes DEF StartDelete, TypeOK, Calls, PruneCall
  <2>. QED
    BY <2>1, <2>2, <1>5, <1>t DEF StartDelete, TypeInv, TypeOK
<1>6. ASSUME NEW q \in Requests, Begin(q) PROVE TypeInv'
  <2>. DEFINE r == [req[q] EXCEPT !.pc = "list", !.st = "COMPUTING"]
  <2>1. r \in Request /\ r.pc = "list"
    BY <1>t, <1>s, <1>p DEF TypeOK, Request
  <2>2. req' \in [Requests -> Request] /\ CurKnown'
    BY <2>1, <1>6, MoveType DEF Begin
  <2>. QED
    BY <2>2, <1>6, <1>t, <1>s DEF Begin, TypeInv, TypeOK
<1>7. ASSUME NEW q \in Requests, Refuse(q) PROVE TypeInv'
  BY <1>7, <1>t, EndType DEF Refuse, TypeInv, TypeOK
<1>8. ASSUME NEW q \in Requests, NEW page \in SUBSET Employees,
             ListEmployees(q, page)
      PROVE  TypeInv'
  <2>. DEFINE todo == IF req[q].op = "run" THEN page ELSE req[q].todo
              r == [req[q] EXCEPT !.pc = "next", !.emps = page, !.todo = todo]
  <2>1. req[q] \in Request /\ todo \in SUBSET Employees
    BY <1>t DEF TypeOK, Request
  <2>2. r \in Request /\ r.pc = "next"
    BY <2>1, <1>p DEF Request
  <2>3. Put(q, r)
    BY <1>8 DEF ListEmployees
  <2>4. req' \in [Requests -> Request] /\ CurKnown'
    BY <2>2, <2>3, MoveType
  <2>. QED
    BY <2>4, <1>8, <1>t DEF ListEmployees, TypeInv, TypeOK
<1>9. ASSUME NEW q \in Requests, ListFails(q) PROVE TypeInv'
  BY <1>9, <1>t, <1>s, EndType DEF ListFails, TypeInv, TypeOK
<1>10. ASSUME NEW q \in Requests, NEW e \in Employees, UnknownRow(q, e) PROVE TypeInv'
  <2>. DEFINE r == [req[q] EXCEPT !.todo = @ \ {e}, !.bad = TRUE]
  <2>1. r \in Request /\ r.pc = req[q].pc /\ r.cur = req[q].cur
    BY <1>t DEF TypeOK, Request
  <2>2. req' \in [Requests -> Request] /\ CurKnown'
    BY <2>1, <1>10, <1>t, MoveType DEF UnknownRow, CurKnown
  <2>. QED
    BY <2>2, <1>10, <1>t DEF UnknownRow, TypeInv, TypeOK
<1>11. ASSUME NEW q \in Requests, NEW e \in Employees, ComputeFails(q, e) PROVE TypeInv'
  BY <1>11, <1>t, SelectRowType, RowTypes DEF ComputeFails, TypeInv, TypeOK
<1>12. ASSUME NEW q \in Requests, NEW e \in Employees, ComputeUnpaid(q, e) PROVE TypeInv'
  BY <1>12, <1>t, SelectRowType, RowTypes DEF ComputeUnpaid, TypeInv, TypeOK, Pays
<1>13. ASSUME NEW q \in Requests, NEW e \in Employees, NEW a \in Amounts,
              UsePrefilled(q, e, a)
       PROVE  TypeInv'
  BY <1>13, <1>t, SelectRowType, RowTypes DEF UsePrefilled, TypeInv, TypeOK, Pays
<1>14. ASSUME NEW q \in Requests, NEW e \in Employees, NEW a \in Amounts,
              CallCompliance(q, e, a)
       PROVE  TypeInv'
  <2>. DEFINE new == Computed(a)
              r == [req[q] EXCEPT !.pc = "compliance", !.cur = e, !.new = new,
                                  !.resp = FALSE]
  <2>1. req[q] \in Request /\ new \in ResultRow
    BY <1>t, RowTypes DEF TypeOK, Pays
  <2>2. r \in Request /\ r.cur = e
    BY <2>1, <1>p DEF Request
  <2>3. Put(q, r)
    BY <1>14 DEF CallCompliance
  <2>4. req' \in [Requests -> Request] /\ CurKnown'
    BY <2>2, <2>3, MoveType
  <2>5. calls' \subseteq Calls
    BY <1>14, <1>t, CallTypes DEF CallCompliance, TypeOK
  <2>. QED
    BY <2>4, <2>5, <1>14, <1>t DEF CallCompliance, TypeInv, TypeOK
<1>15. ASSUME NEW q \in Requests, ComplianceAnswered(q) PROVE TypeInv'
  <2>1. req[q].cur \in Employees /\ req[q].new \in ResultRow
    BY <1>15, <1>t DEF ComplianceAnswered, CurKnown, TypeOK, Request
  <2>. QED
    BY <2>1, <1>15, <1>t, SelectRowType DEF ComplianceAnswered, TypeInv, TypeOK
<1>16. ASSUME NEW q \in Requests, ComplianceGivenUp(q) PROVE TypeInv'
  <2>1. req[q].cur \in Employees
    BY <1>16, <1>t DEF ComplianceGivenUp, CurKnown
  <2>. QED
    BY <2>1, <1>16, <1>t, SelectRowType, RowTypes, GiveUpType
       DEF ComplianceGivenUp, TypeInv, TypeOK
<1>17. ASSUME NEW q \in Requests, StoreResult(q) PROVE TypeInv'
  <2>. DEFINE c == req[q].cur
              r == [req[q] EXCEPT !.pc = "next", !.todo = @ \ {req[q].cur},
                                  !.ok  = @ \/ req[q].new.st = "COMPUTED",
                                  !.bad = @ \/ req[q].new.st = "FAILED",
                                  !.cur = None, !.row = NoResult, !.new = NoResult]
  <2>1. req[q] \in Request /\ c \in Employees
    BY <1>17, <1>t DEF StoreResult, TypeOK, CurKnown
  <2>2. r \in Request /\ r.pc = "next"
    BY <2>1, <1>p, RowTypes DEF Request
  <2>3. Put(q, r)
    BY <1>17 DEF StoreResult
  <2>4. req' \in [Requests -> Request] /\ CurKnown'
    BY <2>2, <2>3, MoveType
  <2>5. Written(result[c], req[q].row, req[q].new) \in ResultRow
    BY <2>1, <1>t, WrittenType DEF TypeOK, Request
  <2>6. result' \in [Employees -> ResultRow]
    BY <2>5, <1>17, <1>t DEF StoreResult, TypeOK
  <2>. QED
    BY <2>4, <2>6, <1>17, <1>t DEF StoreResult, TypeInv, TypeOK
<1>18. ASSUME NEW q \in Requests, StoreConflict(q) PROVE TypeInv'
  BY <1>18, <1>t, EndType DEF StoreConflict, TypeInv, TypeOK
<1>19. ASSUME NEW q \in Requests, DropStale(q) PROVE TypeInv'
  <2>. DEFINE r == [req[q] EXCEPT !.pc = "prune", !.resp = FALSE]
  <2>1. r \in Request /\ r.pc = "prune" /\ req[q].emps \subseteq Employees
    BY <1>t, <1>p DEF TypeOK, Request
  <2>2. req' \in [Requests -> Request] /\ CurKnown'
    BY <2>1, <1>19, MoveType DEF DropStale
  <2>3. calls' \subseteq Calls
    BY <2>1, <1>19, <1>t DEF DropStale, TypeOK, Calls, PruneCall
  <2>4. result' \in [Employees -> ResultRow]
    BY <1>19, <1>t, RowTypes DEF DropStale, Kept, TypeOK
  <2>. QED
    BY <2>2, <2>3, <2>4, <1>19, <1>t DEF DropStale, TypeInv, TypeOK
<1>20. ASSUME NEW q \in Requests, Pruned(q) PROVE TypeInv'
  <2>. DEFINE r == [req[q] EXCEPT !.pc = "finish"]
  <2>1. r \in Request /\ r.pc = "finish"
    BY <1>t, <1>p DEF TypeOK, Request
  <2>2. req' \in [Requests -> Request] /\ CurKnown'
    BY <2>1, <1>20, MoveType DEF Pruned
  <2>. QED
    BY <2>2, <1>20, <1>t DEF Pruned, TypeInv, TypeOK
<1>21. ASSUME NEW q \in Requests, PruneGivenUp(q) PROVE TypeInv'
  <2>. DEFINE r == [req[q] EXCEPT !.pc = "finish", !.resp = FALSE]
  <2>1. r \in Request /\ r.pc = "finish"
    BY <1>t, <1>p DEF TypeOK, Request
  <2>2. req' \in [Requests -> Request] /\ CurKnown'
    BY <2>1, <1>21, MoveType DEF PruneGivenUp
  <2>. QED
    BY <2>2, <1>21, <1>t, GiveUpType DEF PruneGivenUp, TypeInv, TypeOK
<1>22. ASSUME NEW q \in Requests, Finish(q) PROVE TypeInv'
  BY <1>22, <1>t, <1>s, EndType DEF Finish, Outcome, TypeInv, TypeOK
<1>23. ASSUME NEW q \in Requests, MarkApproved(q) PROVE TypeInv'
  <2>. DEFINE r == [req[q] EXCEPT !.pc = "gather", !.st = "APPROVED"]
  <2>1. r \in Request /\ r.pc = "gather"
    BY <1>t, <1>s, <1>p DEF TypeOK, Request
  <2>2. req' \in [Requests -> Request] /\ CurKnown'
    BY <2>1, <1>23, MoveType DEF MarkApproved
  <2>. QED
    BY <2>2, <1>23, <1>t, <1>s DEF MarkApproved, TypeInv, TypeOK
<1>24. ASSUME NEW q \in Requests, SubmitPayout(q) PROVE TypeInv'
  <2>. DEFINE txns == ToPay
              r == [req[q] EXCEPT !.pc = "payout", !.txns = txns, !.resp = FALSE]
  <2>1. req[q] \in Request /\ txns \in SUBSET Txn
    BY <1>t DEF TypeOK, ToPay
  <2>2. r \in Request /\ r.pc = "payout"
    BY <2>1, <1>p DEF Request
  <2>3. Put(q, r)
    BY <1>24 DEF SubmitPayout
  <2>4. req' \in [Requests -> Request] /\ CurKnown'
    BY <2>2, <2>3, MoveType
  <2>5. calls' \subseteq Calls
    BY <2>1, <1>24, <1>t DEF SubmitPayout, TypeOK, Calls, PayoutCall
  <2>. QED
    BY <2>4, <2>5, <1>24, <1>t DEF SubmitPayout, TypeInv, TypeOK
<1>25. ASSUME NEW q \in Requests, PayoutGivenUp(q) PROVE TypeInv'
  BY <1>25, <1>t, EndType, GiveUpType DEF PayoutGivenUp, TypeInv, TypeOK
<1>26. ASSUME NEW q \in Requests, Settle(q) PROVE TypeInv'
  <2>1. result' \in [Employees -> ResultRow]
    BY <1>26, <1>t DEF Settle, Settled, TypeOK, ResultRow
  <2>. QED
    BY <2>1, <1>26, <1>t, <1>s, EndType DEF Settle, TypeInv, TypeOK
<1>27. ASSUME NEW q \in Requests, ApproveConflict(q) PROVE TypeInv'
  BY <1>27, <1>t, EndType DEF ApproveConflict, TypeInv, TypeOK
<1>28. ASSUME NEW q \in Requests, DeleteCycle(q) PROVE TypeInv'
  BY <1>28, <1>t, EndType, RowTypes DEF DeleteCycle, Absent, TypeInv, TypeOK
<1>29. ASSUME NEW q \in Requests, DeleteGivenUp(q) PROVE TypeInv'
  BY <1>29, <1>t, EndType, GiveUpType DEF DeleteGivenUp, TypeInv, TypeOK
<1>30. ASSUME NEW q \in Requests, Crash(q) PROVE TypeInv'
  BY <1>30, <1>t, EndType, GiveUpType DEF Crash, TypeInv, TypeOK
<1>a. ASSUME NEW c \in calls, Answer(c)
      PROVE  calls' \subseteq Calls /\ req' \in [Requests -> Request] /\ CurKnown'
  <2>. DEFINE r == [req[c.from] EXCEPT !.resp = TRUE]
  <2>1. c.from \in Requests
    BY <1>t DEF TypeOK, Calls, ComputeCall, PruneCall, PayoutCall
  <2>2. /\ r \in Request /\ r.pc = req[c.from].pc /\ r.cur = req[c.from].cur
    BY <2>1, <1>t DEF TypeOK, Request
  <2>3. CASE Waiting(c)
    BY <2>1, <2>2, <2>3, <1>a, <1>t, MoveType DEF Answer, CurKnown, TypeOK
  <2>4. CASE ~ Waiting(c)
    BY <2>4, <1>a, <1>t DEF Answer, CurKnown, TypeOK
  <2>. QED
    BY <2>3, <2>4
<1>31. ASSUME NEW c \in calls, ServeCompute(c) PROVE TypeInv'
  <2>1. c.pay \in Pays
    BY <1>31, <1>t DEF ServeCompute, TypeOK, Calls, ComputeCall, PruneCall, PayoutCall, Pays
  <2>. QED
    BY <2>1, <1>a, <1>31, <1>t DEF ServeCompute, TypeInv, TypeOK
<1>32. ASSUME NEW c \in calls, ServePrune(c) PROVE TypeInv'
  BY <1>a, <1>32, <1>t DEF ServePrune, TypeInv, TypeOK, Pays
<1>33. ASSUME NEW c \in calls, ServePayout(c) PROVE TypeInv'
  <2>1. c.txns \subseteq Txn
    BY <1>33, <1>t DEF ServePayout, TypeOK, Calls, ComputeCall, PruneCall, PayoutCall
  <2>. QED
    BY <2>1, <1>a, <1>33, <1>t DEF ServePayout, Ledger!Pay, TypeInv, TypeOK
<1>34. ASSUME NEW e \in Employees, MoveEmployee(e) PROVE TypeInv'
  BY <1>34, <1>t, MaxMovesAssumption DEF MoveEmployee, TypeInv, TypeOK, CurKnown
<1>35. CASE UNCHANGED vars
  BY <1>35, <1>t DEF vars, TypeInv, TypeOK, CurKnown
<1>. QED
  BY <1>1, <1>2, <1>3, <1>4, <1>5, <1>6, <1>7, <1>8, <1>9, <1>10, <1>11, <1>12,
     <1>13, <1>14, <1>15, <1>16, <1>17, <1>18, <1>19, <1>20, <1>21, <1>22, <1>23,
     <1>24, <1>25, <1>26, <1>27, <1>28, <1>29, <1>30, <1>31, <1>32, <1>33, <1>34,
     <1>35
     DEF Next, Start, Progress, Process, Serve, Idle

LEMMA TypeInit == Init => TypeInv
<1>1. Blank.pc = "new"
  BY DEF Blank
<1>. QED
  BY <1>1, BlankRequest, RowTypes, MaxMovesAssumption
     DEF Init, TypeInv, TypeOK, CurKnown, Absent, Pays

\* Every variable keeps its type, whatever interleaves (the handlers of
\* payroll-service and the calls they leave under way).
THEOREM Typing == Spec => []TypeOK
<1>1. TypeInv => TypeOK
  BY DEF TypeInv
<1>. QED
  BY <1>1, TypeInit, TypeStep, PTL DEF Spec

-----------------------------------------------------------------------------
(* Whoever is marked PAID has been paid, whatever interleaves *)

\* No computation writes a PAID row.
NewIsNotPaid == \A q \in Requests : req[q].new.st # "PAID"

\* A payout call belongs to a request that waits for it, or has ended; and it
\* carries the transactions that request will mark PAID.
OwnPayoutCall == \A c \in calls : c.kind = "payout" =>
    /\ req[c.from].pc \in {"payout", "done"}
    /\ req[c.from].pc = "payout" => c.txns = req[c.from].txns

\* An answered payout call has been executed.
AnswerIsTrue == \A q \in Requests :
    req[q].pc = "payout" /\ req[q].resp => req[q].txns \subseteq payout

PaidInv == NewIsNotPaid /\ OwnPayoutCall /\ AnswerIsTrue /\ PaidHasPayment

\* A step of request q that neither waits for a payout afterwards nor makes a
\* payout call keeps all of this, if it keeps PaidHasPayment.
LEMMA QuietStep ==
  ASSUME TypeInv, PaidInv, NEW q \in Requests, NEW r \in Request, Put(q, r),
         r.new.st # "PAID", r.pc # "payout",
         req[q].pc \in {"payout", "done"} => r.pc = "done",
         \A c \in calls' : c.kind = "payout" => c \in calls,
         payout' = payout, PaidHasPayment'
  PROVE  PaidInv'
<1>1. req' \in [Requests -> Request] /\ req'[q] = r
      /\ \A p \in Requests : p # q => req'[p] = req[p]
  BY PutType DEF TypeInv, TypeOK
<1>2. NewIsNotPaid' /\ AnswerIsTrue'
  BY <1>1 DEF PaidInv, NewIsNotPaid, AnswerIsTrue
<1>3. ASSUME NEW c \in calls', c.kind = "payout"
      PROVE  /\ req'[c.from].pc \in {"payout", "done"}
             /\ req'[c.from].pc = "payout" => c.txns = req'[c.from].txns
  <2>1. c \in calls /\ c.from \in Requests
    BY <1>3 DEF TypeInv, TypeOK, Calls, ComputeCall, PruneCall, PayoutCall
  <2>2. /\ req[c.from].pc \in {"payout", "done"}
        /\ req[c.from].pc = "payout" => c.txns = req[c.from].txns
    BY <2>1, <1>3 DEF PaidInv, OwnPayoutCall
  <2>. QED
    BY <2>1, <2>2, <1>1
<1>. QED
  BY <1>2, <1>3 DEF PaidInv, OwnPayoutCall

\* Rows that stay, go or become something that is not PAID.
LEMMA NoNewPaid ==
  ASSUME PaidHasPayment, payout' = payout,
         \A e \in Employees : result'[e].st = "PAID" => result[e].st = "PAID"
  PROVE  PaidHasPayment'
  BY DEF PaidHasPayment

LEMMA LoadIsQuiet ==
  ASSUME TypeInv, PaidInv, NEW q \in Requests, NEW op \in Ops,
         NEW pc \in PCs \ {"compliance", "store", "payout"},
         NEW rows \in SUBSET Employees, Load(q, op, pc, rows),
         \A c \in calls' : c.kind = "payout" => c \in calls,
         payout' = payout, result' = result
  PROVE  PaidInv'
<1>. DEFINE r == [Blank EXCEPT !.op = op, !.pc = pc, !.st = cycle, !.todo = rows]
<1>1. cycle \in Status /\ req[q].pc = "new"
  BY DEF Load, Arrives, Exists
<1>2. r \in Request /\ r.pc = pc /\ r.new.st # "PAID"
  BY <1>1, BlankRequest DEF Request, Blank, NoResult
<1>3. Put(q, r)
  BY DEF Load
<1>4. PaidHasPayment'
  BY NoNewPaid DEF PaidInv
<1>. QED
  BY <1>1, <1>2, <1>3, <1>4, QuietStep

LEMMA EndIsQuiet ==
  ASSUME TypeInv, PaidInv, NEW q \in Requests, End(q),
         \A c \in calls' : c.kind = "payout" => c \in calls,
         payout' = payout, PaidHasPayment'
  PROVE  PaidInv'
<1>1. Ended.pc = "done" /\ Ended.new.st # "PAID"
  BY DEF Ended, Blank, NoResult
<1>. QED
  BY <1>1, BlankRequest, QuietStep DEF End

LEMMA SelectIsQuiet ==
  ASSUME TypeInv, PaidInv, NEW q \in Requests, NEW e \in Employees,
         NEW new \in ResultRow, SelectRow(q, e, new), new.st # "PAID",
         req[q].pc \notin {"payout", "done"},
         \A c \in calls' : c.kind = "payout" => c \in calls,
         payout' = payout, result' = result
  PROVE  PaidInv'
<1>. DEFINE r == [req[q] EXCEPT !.pc = "store", !.cur = e, !.row = result[e],
                                !.new = new, !.resp = FALSE]
<1>1. req[q] \in Request /\ result[e] \in ResultRow /\ "store" \in PCs
  BY DEF TypeInv, TypeOK, PCs
<1>2. r \in Request /\ r.pc = "store" /\ r.new = new
  BY <1>1 DEF Request
<1>3. Put(q, r)
  BY DEF SelectRow
<1>4. PaidHasPayment'
  BY NoNewPaid DEF PaidInv
<1>. QED
  BY <1>2, <1>3, <1>4, QuietStep

LEMMA PaidStep == TypeInv /\ PaidInv /\ [Next]_vars => PaidInv'
<1>. SUFFICES ASSUME TypeInv, PaidInv, [Next]_vars PROVE PaidInv'
  OBVIOUS
<1>. USE DEF OthersKeep
<1>t. TypeOK /\ CurKnown
  BY DEF TypeInv
<1>i. NewIsNotPaid /\ OwnPayoutCall /\ AnswerIsTrue /\ PaidHasPayment
  BY DEF PaidInv
<1>p. {"list", "next", "prune", "finish", "gather", "payout", "compliance", "store"}
        \subseteq PCs
  BY DEF PCs
<1>s. {"COMPUTING", "APPROVED"} \subseteq Status
  BY DEF Status
<1>n. /\ \A a \in Pays : Computed(a).st # "PAID"
      /\ Failed.st # "PAID" /\ NoResult.st # "PAID"
  BY DEF Computed, Failed, NoResult
<1>z. 0 \in Pays /\ Amounts \subseteq Pays
  BY DEF Pays
<1>k. result' = result /\ payout' = payout => PaidHasPayment'
  BY <1>i, NoNewPaid
<1>1. CASE CreateCycle
  BY <1>1, <1>i DEF CreateCycle, PaidInv, NewIsNotPaid, OwnPayoutCall,
     AnswerIsTrue, PaidHasPayment
<1>2. ASSUME NEW q \in Requests, StartRun(q) PROVE PaidInv'
  BY <1>2, LoadIsQuiet DEF StartRun, Ops, Processing, PCs
<1>3. ASSUME NEW q \in Requests, NEW op \in Importing, NEW rows \in SUBSET Employees,
             StartImport(q, op, rows)
      PROVE  PaidInv'
  BY <1>3, LoadIsQuiet DEF StartImport, Ops, Processing, PCs
<1>4. ASSUME NEW q \in Requests, StartApprove(q) PROVE PaidInv'
  BY <1>4, LoadIsQuiet DEF StartApprove, Ops, PCs
<1>5. ASSUME NEW q \in Requests, StartDelete(q) PROVE PaidInv'
  BY <1>5, LoadIsQuiet DEF StartDelete, Ops, PCs
<1>6. ASSUME NEW q \in Requests, Begin(q) PROVE PaidInv'
  <2>. DEFINE r == [req[q] EXCEPT !.pc = "list", !.st = "COMPUTING"]
  <2>1. r \in Request /\ r.pc = "list" /\ r.new = req[q].new
    BY <1>t, <1>s, <1>p DEF TypeOK, Request
  <2>. QED
    BY <2>1, <1>6, <1>i, <1>k, QuietStep DEF Begin, NewIsNotPaid
<1>7. ASSUME NEW q \in Requests, Refuse(q) PROVE PaidInv'
  BY <1>7, <1>k, EndIsQuiet DEF Refuse
<1>8. ASSUME NEW q \in Requests, NEW page \in SUBSET Employees,
             ListEmployees(q, page)
      PROVE  PaidInv'
  <2>. DEFINE todo == IF req[q].op = "run" THEN page ELSE req[q].todo
              r == [req[q] EXCEPT !.pc = "next", !.emps = page, !.todo = todo]
  <2>1. req[q] \in Request /\ todo \in SUBSET Employees
    BY <1>t DEF TypeOK, Request
  <2>2. r \in Request /\ r.pc = "next" /\ r.new = req[q].new
    BY <2>1, <1>p DEF Request
  <2>3. Put(q, r)
    BY <1>8 DEF ListEmployees
  <2>. QED
    BY <2>2, <2>3, <1>8, <1>i, <1>k, QuietStep DEF ListEmployees, NewIsNotPaid
<1>9. ASSUME NEW q \in Requests, ListFails(q) PROVE PaidInv'
  BY <1>9, <1>k, EndIsQuiet DEF ListFails
<1>10. ASSUME NEW q \in Requests, NEW e \in Employees, UnknownRow(q, e) PROVE PaidInv'
  <2>. DEFINE r == [req[q] EXCEPT !.todo = @ \ {e}, !.bad = TRUE]
  <2>1. r \in Request /\ r.pc = req[q].pc /\ r.new = req[q].new
    BY <1>t DEF TypeOK, Request
  <2>. QED
    BY <2>1, <1>10, <1>i, <1>k, QuietStep DEF UnknownRow, NewIsNotPaid
<1>11. ASSUME NEW q \in Requests, NEW e \in Employees, ComputeFails(q, e) PROVE PaidInv'
  BY <1>11, <1>n, SelectIsQuiet, RowTypes DEF ComputeFails, Due
<1>12. ASSUME NEW q \in Requests, NEW e \in Employees, ComputeUnpaid(q, e) PROVE PaidInv'
  BY <1>12, <1>n, <1>z, SelectIsQuiet, RowTypes DEF ComputeUnpaid, Due
<1>13. ASSUME NEW q \in Requests, NEW e \in Employees, NEW a \in Amounts,
              UsePrefilled(q, e, a)
       PROVE  PaidInv'
  BY <1>13, <1>n, <1>z, SelectIsQuiet, RowTypes DEF UsePrefilled, Due
<1>14. ASSUME NEW q \in Requests, NEW e \in Employees, NEW a \in Amounts,
              CallCompliance(q, e, a)
       PROVE  PaidInv'
  <2>. DEFINE new == Computed(a)
              r == [req[q] EXCEPT !.pc = "compliance", !.cur = e, !.new = new,
                                  !.resp = FALSE]
  <2>1. req[q] \in Request /\ new \in ResultRow /\ new.st # "PAID"
    BY <1>t, <1>n, <1>z, RowTypes DEF TypeOK
  <2>2. r \in Request /\ r.pc = "compliance" /\ r.new = new
    BY <2>1, <1>p DEF Request
  <2>3. Put(q, r) /\ req[q].pc = "next"
    BY <1>14 DEF CallCompliance, Due
  <2>4. \A c \in calls' : c.kind = "payout" => c \in calls
    BY <1>14 DEF CallCompliance
  <2>. HIDE DEF r, new
  <2>. QED
    BY <2>1, <2>2, <2>3, <2>4, <1>14, <1>k, QuietStep DEF CallCompliance
<1>15. ASSUME NEW q \in Requests, ComplianceAnswered(q) PROVE PaidInv'
  <2>1. req[q].cur \in Employees /\ req[q].new \in ResultRow /\ req[q].new.st # "PAID"
    BY <1>15, <1>t, <1>i DEF ComplianceAnswered, CurKnown, TypeOK, Request, NewIsNotPaid
  <2>. QED
    BY <2>1, <1>15, SelectIsQuiet DEF ComplianceAnswered
<1>16. ASSUME NEW q \in Requests, ComplianceGivenUp(q) PROVE PaidInv'
  <2>1. req[q].cur \in Employees
    BY <1>16, <1>t DEF ComplianceGivenUp, CurKnown
  <2>. QED
    BY <2>1, <1>16, <1>n, SelectIsQuiet, RowTypes DEF ComplianceGivenUp, GiveUp
<1>17. ASSUME NEW q \in Requests, StoreResult(q) PROVE PaidInv'
  <2>. DEFINE c == req[q].cur
              r == [req[q] EXCEPT !.pc = "next", !.todo = @ \ {req[q].cur},
                                  !.ok  = @ \/ req[q].new.st = "COMPUTED",
                                  !.bad = @ \/ req[q].new.st = "FAILED",
                                  !.cur = None, !.row = NoResult, !.new = NoResult]
  <2>1. req[q] \in Request /\ c \in Employees
    BY <1>17, <1>t DEF StoreResult, TypeOK, CurKnown
  <2>2. r \in Request /\ r.pc = "next" /\ r.new = NoResult
    BY <2>1, <1>p, RowTypes DEF Request
  <2>3. Put(q, r) /\ req[q].pc = "store"
    BY <1>17 DEF StoreResult
  <2>4. Written(result[c], req[q].row, req[q].new).st = "PAID" => result[c].st = "PAID"
    BY <1>i DEF Written, NewIsNotPaid
  <2>5. \A e \in Employees : result'[e].st = "PAID" => result[e].st = "PAID"
    BY <2>4, <1>17, <1>t DEF StoreResult, TypeOK
  <2>6. PaidHasPayment'
    BY <2>5, <1>17, <1>i, NoNewPaid DEF StoreResult
  <2>. HIDE DEF r, c
  <2>. QED
    BY <2>2, <2>3, <2>6, <1>17, <1>n, QuietStep DEF StoreResult
<1>18. ASSUME NEW q \in Requests, StoreConflict(q) PROVE PaidInv'
  BY <1>18, <1>k, EndIsQuiet DEF StoreConflict
<1>19. ASSUME NEW q \in Requests, DropStale(q) PROVE PaidInv'
  <2>. DEFINE r == [req[q] EXCEPT !.pc = "prune", !.resp = FALSE]
  <2>1. r \in Request /\ r.pc = "prune" /\ r.new = req[q].new
    BY <1>t, <1>p DEF TypeOK, Request
  <2>2. PaidHasPayment'
    BY <1>19, <1>i, <1>n, NoNewPaid DEF DropStale, Kept
  <2>3. Put(q, r) /\ req[q].pc = "next" /\ payout' = payout
    BY <1>19 DEF DropStale
  <2>4. \A c \in calls' : c.kind = "payout" => c \in calls
    BY <1>19 DEF DropStale
  <2>. HIDE DEF r
  <2>. QED
    BY <2>1, <2>2, <2>3, <2>4, <1>i, QuietStep DEF NewIsNotPaid
<1>20. ASSUME NEW q \in Requests, Pruned(q) PROVE PaidInv'
  <2>. DEFINE r == [req[q] EXCEPT !.pc = "finish"]
  <2>1. r \in Request /\ r.pc = "finish" /\ r.new = req[q].new
    BY <1>t, <1>p DEF TypeOK, Request
  <2>. QED
    BY <2>1, <1>20, <1>i, <1>k, QuietStep DEF Pruned, NewIsNotPaid
<1>21. ASSUME NEW q \in Requests, PruneGivenUp(q) PROVE PaidInv'
  <2>. DEFINE r == [req[q] EXCEPT !.pc = "finish", !.resp = FALSE]
  <2>1. r \in Request /\ r.pc = "finish" /\ r.new = req[q].new
    BY <1>t, <1>p DEF TypeOK, Request
  <2>. QED
    BY <2>1, <1>21, <1>i, <1>k, QuietStep DEF PruneGivenUp, GiveUp, NewIsNotPaid
<1>22. ASSUME NEW q \in Requests, Finish(q) PROVE PaidInv'
  BY <1>22, <1>k, EndIsQuiet DEF Finish
<1>23. ASSUME NEW q \in Requests, MarkApproved(q) PROVE PaidInv'
  <2>. DEFINE r == [req[q] EXCEPT !.pc = "gather", !.st = "APPROVED"]
  <2>1. r \in Request /\ r.pc = "gather" /\ r.new = req[q].new
    BY <1>t, <1>s, <1>p DEF TypeOK, Request
  <2>. QED
    BY <2>1, <1>23, <1>i, <1>k, QuietStep DEF MarkApproved, NewIsNotPaid
<1>24. ASSUME NEW q \in Requests, SubmitPayout(q) PROVE PaidInv'
  <2>. DEFINE txns == ToPay
              r == [req[q] EXCEPT !.pc = "payout", !.txns = txns, !.resp = FALSE]
              call == [kind |-> "payout", from |-> q, txns |-> txns]
  <2>1. req[q] \in Request /\ txns \in SUBSET Txn
    BY <1>t DEF TypeOK, ToPay
  <2>2. r \in Request /\ r.pc = "payout" /\ r.txns = txns /\ r.new = req[q].new
        /\ r.resp = FALSE
    BY <2>1, <1>p DEF Request
  <2>3. Put(q, r) /\ req[q].pc = "gather" /\ calls' = calls \cup {call}
        /\ payout' = payout /\ result' = result
    BY <1>24 DEF SubmitPayout
  <2>4. call.from = q /\ call.txns = txns
    OBVIOUS
  <2>. HIDE DEF r, txns, call
  <2>5. req'[q] = r /\ \A p \in Requests : p # q => req'[p] = req[p]
    BY <2>2, <2>3, <1>t, PutType DEF TypeOK
  <2>6. NewIsNotPaid' /\ AnswerIsTrue' /\ PaidHasPayment'
    BY <2>2, <2>3, <2>5, <1>i, <1>k DEF NewIsNotPaid, AnswerIsTrue
  <2>7. ASSUME NEW c \in calls, c.kind = "payout"
        PROVE  c.from # q /\ c.from \in Requests
    BY <2>7, <2>3, <1>i, <1>t
       DEF OwnPayoutCall, TypeOK, Calls, ComputeCall, PruneCall, PayoutCall
  <2>8. OwnPayoutCall'
    BY <2>2, <2>3, <2>4, <2>5, <2>7, <1>i DEF OwnPayoutCall
  <2>. QED
    BY <2>6, <2>8 DEF PaidInv
<1>25. ASSUME NEW q \in Requests, PayoutGivenUp(q) PROVE PaidInv'
  BY <1>25, <1>k, EndIsQuiet DEF PayoutGivenUp, GiveUp
<1>26. ASSUME NEW q \in Requests, Settle(q) PROVE PaidInv'
  <2>1. req[q].txns \subseteq payout /\ payout \subseteq Txn
    BY <1>26, <1>i, <1>t DEF Settle, AnswerIsTrue, TypeOK
  <2>2. ASSUME NEW e \in Employees, result'[e].st = "PAID"
        PROVE  \E a \in Pays : <<e, a>> \in payout'
    <3>1. CASE \E t \in req[q].txns : t[1] = e
      <4>1. PICK t \in req[q].txns : t[1] = e
        BY <3>1
      <4>2. t \in payout /\ t = <<e, t[2]>> /\ t[2] \in Pays
        BY <4>1, <2>1 DEF Txn
      <4>. QED
        BY <4>2, <1>26 DEF Settle
    <3>2. CASE ~ \E t \in req[q].txns : t[1] = e
      BY <3>2, <2>2, <1>26, <1>i DEF Settle, Settled, PaidHasPayment
    <3>. QED
      BY <3>1, <3>2
  <2>3. PaidHasPayment'
    BY <2>2 DEF PaidHasPayment
  <2>. QED
    BY <2>3, <1>26, EndIsQuiet DEF Settle
<1>27. ASSUME NEW q \in Requests, ApproveConflict(q) PROVE PaidInv'
  BY <1>27, <1>k, EndIsQuiet DEF ApproveConflict
<1>28. ASSUME NEW q \in Requests, DeleteCycle(q) PROVE PaidInv'
  <2>1. PaidHasPayment'
    BY <1>28, <1>i, <1>n, NoNewPaid DEF DeleteCycle
  <2>. QED
    BY <2>1, <1>28, EndIsQuiet DEF DeleteCycle
<1>29. ASSUME NEW q \in Requests, DeleteGivenUp(q) PROVE PaidInv'
  BY <1>29, <1>k, EndIsQuiet DEF DeleteGivenUp, GiveUp
<1>30. ASSUME NEW q \in Requests, Crash(q) PROVE PaidInv'
  BY <1>30, <1>k, EndIsQuiet DEF Crash, GiveUp
<1>a. ASSUME NEW c \in calls, Answer(c), payout \subseteq payout', result' = result,
             c.kind = "payout" => c.txns \subseteq payout'
      PROVE  PaidInv'
  <2>. DEFINE r == [req[c.from] EXCEPT !.resp = TRUE]
  <2>1. c.from \in Requests
    BY <1>t DEF TypeOK, Calls, ComputeCall, PruneCall, PayoutCall
  <2>a. req[c.from] \in Request
    BY <2>1, <1>t DEF TypeOK
  <2>2. /\ r \in Request /\ r.pc = req[c.from].pc /\ r.new = req[c.from].new
        /\ r.txns = req[c.from].txns
    BY <2>a DEF Request
  <2>3. PaidHasPayment'
    BY <1>a, <1>i DEF PaidHasPayment
  <2>4. calls' \subseteq calls
    BY <1>a DEF Answer
  <2>5. CASE Waiting(c)
    <3>1. Put(c.from, r)
      BY <1>a, <2>5 DEF Answer
    <3>. HIDE DEF r
    <3>2. req'[c.from] = r /\ \A p \in Requests : p # c.from => req'[p] = req[p]
      BY <3>1, <2>1, <2>2, <1>t, PutType DEF TypeOK
    <3>3. ASSUME NEW p \in Requests
          PROVE  req'[p].pc = req[p].pc /\ req'[p].txns = req[p].txns
                 /\ req'[p].new = req[p].new
      BY <3>2, <2>2
    <3>4. \A d \in calls : d.from \in Requests
      BY <1>t DEF TypeOK, Calls, ComputeCall, PruneCall, PayoutCall
    <3>5. NewIsNotPaid' /\ OwnPayoutCall'
      BY <3>3, <3>4, <2>4, <1>i DEF NewIsNotPaid, OwnPayoutCall
    <3>6. r.pc = "payout" => r.txns \subseteq payout'
      BY <2>2, <2>5, <1>a, <1>i DEF Waiting, OwnPayoutCall
    <3>7. AnswerIsTrue'
      BY <3>2, <3>6, <1>a, <1>i DEF AnswerIsTrue
    <3>. QED
      BY <2>3, <3>5, <3>7 DEF PaidInv
  <2>6. CASE ~ Waiting(c)
    BY <2>3, <2>4, <2>6, <1>a, <1>i
       DEF Answer, PaidInv, NewIsNotPaid, OwnPayoutCall, AnswerIsTrue
  <2>. QED
    BY <2>5, <2>6
<1>31. ASSUME NEW c \in calls, ServeCompute(c) PROVE PaidInv'
  BY <1>31, <1>a DEF ServeCompute
<1>32. ASSUME NEW c \in calls, ServePrune(c) PROVE PaidInv'
  BY <1>32, <1>a DEF ServePrune
<1>33. ASSUME NEW c \in calls, ServePayout(c) PROVE PaidInv'
  BY <1>33, <1>a DEF ServePayout, Ledger!Pay
<1>34. ASSUME NEW e \in Employees, MoveEmployee(e) PROVE PaidInv'
  BY <1>34, <1>i DEF MoveEmployee, PaidInv, NewIsNotPaid, OwnPayoutCall,
     AnswerIsTrue, PaidHasPayment
<1>35. CASE UNCHANGED vars
  BY <1>35, <1>i DEF vars, PaidInv, NewIsNotPaid, OwnPayoutCall,
     AnswerIsTrue, PaidHasPayment
<1>. QED
  BY <1>1, <1>2, <1>3, <1>4, <1>5, <1>6, <1>7, <1>8, <1>9, <1>10, <1>11, <1>12,
     <1>13, <1>14, <1>15, <1>16, <1>17, <1>18, <1>19, <1>20, <1>21, <1>22, <1>23,
     <1>24, <1>25, <1>26, <1>27, <1>28, <1>29, <1>30, <1>31, <1>32, <1>33, <1>34,
     <1>35
     DEF Next, Start, Progress, Process, Serve, Idle

LEMMA PaidInit == Init => PaidInv
  BY DEF Init, PaidInv, NewIsNotPaid, OwnPayoutCall, AnswerIsTrue, PaidHasPayment,
         Blank, NoResult

\* A result marked PAID has its payment at payout-service, however the requests
\* for the cycle overlap, crash, time out and lose answers (approve_cycle).
THEOREM PaidImpliesPayment == Spec => []PaidHasPayment
<1>1. PaidInv => PaidHasPayment
  BY DEF PaidInv
<1>. QED
  BY <1>1, TypeInit, TypeStep, PaidInit, PaidStep, PTL DEF Spec

=============================================================================
