---------------------------- MODULE PayrollCycle ----------------------------
(***************************************************************************)
(* One payroll cycle and everything that is keyed by it: the cycle row and *)
(* its results (payroll-service), the contribution rows that               *)
(* compliance-service keeps for it, and the payments payout-service made   *)
(* for it.  The HTTP handlers that work on the cycle are requests that     *)
(* interleave at every await; each holds what its own database session     *)
(* loaded, which may be stale by the time it is written back.              *)
(*                                                                         *)
(* One request is one use of a handler and its database session.  What a   *)
(* session knows of the cycle is the status it loaded first: sessions are  *)
(* built with expire_on_commit=False, and SELECT ... FOR UPDATE without    *)
(* populate_existing does not refresh an object the session already holds, *)
(* so the status that assert_transition sees is the one _load_cycle read.  *)
(*                                                                         *)
(* Calls to other services are messages: a call that is under way may be   *)
(* executed at any time, its answer may be lost, and the caller may give   *)
(* up on it first (httpx timeout, connection error or an HTTP error).      *)
(***************************************************************************)
EXTENDS Naturals, FiniteSets, CycleStates

CONSTANTS
    Employees,  \* the client's employees
    Amounts,    \* net pays a computation may come to (positive numbers)
    Requests,   \* handler invocations, numbered in order of arrival (a bound)
    None,       \* no employee
    PageSize,   \* page_size of list_active_employees (200 in the code)
    Overlap,    \* TRUE: two requests for the cycle may be in flight at once
    LateCalls,  \* kinds of calls a service may execute after its caller gave up
    MayCrash,   \* TRUE: payroll-service may die, or a request raise, midway
    MaxMoves    \* bound on the employees joining or leaving the client

ASSUME AmountsAssumption   == Amounts \subseteq Nat \ {0}
ASSUME RequestsAssumption  == Requests \subseteq Nat
ASSUME NoneAssumption      == None \notin Employees
ASSUME PageSizeAssumption  == PageSize \in Nat \ {0}
ASSUME OverlapAssumption   == Overlap \in BOOLEAN
ASSUME LateCallsAssumption == LateCalls \subseteq {"compute", "prune", "payout"}
ASSUME MayCrashAssumption  == MayCrash \in BOOLEAN
ASSUME MaxMovesAssumption  == MaxMoves \in Nat

VARIABLES
    cycle,    \* payroll_cycles.status, or NONE / DELETED
    result,   \* payroll_results of the cycle, by employee
    comp,     \* compliance rows of the cycle, by employee (0: no rows)
    payout,   \* payout_transactions of the cycle: what has been paid
    active,   \* who employee-service lists as ACTIVE for the client
    moves,    \* how often active has changed (bounded by MaxMoves)
    calls,    \* calls to other services that are still to be executed
    req       \* the requests: what each handler and its session hold

vars == <<cycle, result, comp, payout, active, moves, calls, req>>

-----------------------------------------------------------------------------
(* Data *)

Pays == Amounts \cup {0}

\* A payroll_results row: its status and net_pay.
ResultRow == [st : {"NONE", "COMPUTED", "FAILED", "PAID"}, pay : Pays]
NoResult  == [st |-> "NONE", pay |-> 0]

\* A transaction to pay: with the cycle it makes the idempotency key.  The
\* bank account, part of the key too, is folded into the amount.
Txn == Employees \X Pays

Importing  == {"import_prefilled", "import_compute"}
Processing == {"run"} \cup Importing
Ops        == Processing \cup {"none", "approve", "delete"}

PCs == {"new", "begin", "list", "next", "compliance", "store", "prune",
        "finish", "mark", "gather", "payout", "delete", "done"}

\* A request: its handler (op), the await it stands at (pc), the status its
\* session holds for the cycle (st), the employees it was given (emps), those
\* still to do (todo), the one it works on (cur) with the row its session
\* loaded for them (row) and the row it wants to write (new), whether any
\* computed (ok) or failed (bad), whether the call it waits for has been
\* answered (resp), and the transactions it disburses (txns).
Request == [op : Ops, pc : PCs, st : Status, emps : SUBSET Employees,
            todo : SUBSET Employees, cur : Employees \cup {None},
            row : ResultRow, new : ResultRow, ok : BOOLEAN, bad : BOOLEAN,
            resp : BOOLEAN, txns : SUBSET Txn]

Blank == [op |-> "none", pc |-> "new", st |-> "DRAFT", emps |-> {},
          todo |-> {}, cur |-> None, row |-> NoResult, new |-> NoResult,
          ok |-> FALSE, bad |-> FALSE, resp |-> FALSE, txns |-> {}]

Ended == [Blank EXCEPT !.pc = "done"]

\* Calls: POST /compliance/compute, /compliance/cycles/{id}/prune and
\* /payouts/batches, with who made them.
ComputeCall == [kind : {"compute"}, from : Requests, emp : Employees, pay : Amounts]
PruneCall   == [kind : {"prune"}, from : Requests, keep : SUBSET Employees]
PayoutCall  == [kind : {"payout"}, from : Requests, txns : SUBSET Txn]
Calls       == ComputeCall \cup PruneCall \cup PayoutCall

-----------------------------------------------------------------------------
(* Requests *)

InFlight == {q \in Requests : req[q].pc \notin {"new", "done"}}
Exists   == cycle \in Status

\* The request moves on, holding r.
Put(q, r) == req' = [req EXCEPT ![q] = r]

\* The handler returns or raises; its session is closed.
End(q) == Put(q, Ended)

\* Request q arrives now, while the cycle exists (404 otherwise).
Arrives(q) == /\ req[q].pc = "new"
              /\ \A p \in Requests : p < q => req[p].pc # "new"
              /\ Overlap \/ InFlight = {}
              /\ Exists

\* _load_cycle: the session of q now holds the status of the cycle; rows are
\* the employees its body names.
Load(q, op, pc, rows) ==
    /\ Arrives(q)
    /\ Put(q, [Blank EXCEPT !.op = op, !.pc = pc, !.st = cycle, !.todo = rows])

\* The caller stops waiting: it timed out, lost the connection or was answered
\* with an error.  The call, if it was not executed yet, is dropped, or stays
\* under way where the service does not notice that nobody waits.
GiveUp(q) == calls' = {c \in calls : c.from = q => c.kind \in LateCalls}

\* What payroll-service cannot change by itself.
OthersKeep == UNCHANGED <<payout, active, moves, comp>>

-----------------------------------------------------------------------------
(* POST /payroll/cycles *)

CreateCycle ==
    /\ cycle = "NONE"
    /\ cycle' = "DRAFT"
    /\ UNCHANGED <<result, calls, req>> /\ OthersKeep

-----------------------------------------------------------------------------
(* POST /payroll/cycles/{id}/run and .../import-register *)

StartRun(q) ==
    /\ Load(q, "run", "begin", {})
    /\ UNCHANGED <<cycle, result, calls>> /\ OthersKeep

\* A register without rows is refused (400).
StartImport(q, op, rows) ==
    /\ rows # {}
    /\ Load(q, op, "begin", rows)
    /\ UNCHANGED <<cycle, result, calls>> /\ OthersKeep

\* SELECT ... FOR UPDATE, the guard on the status the session holds, and the
\* UPDATE to COMPUTING, in one transaction.
MayBegin_Reopens(q) == req[q].st \in Runnable \cup {"APPROVED"}  \* mutation
MayBegin(q) == /\ CanTransition(req[q].st, "LOCKED")
               /\ CanTransition("LOCKED", "COMPUTING")

Begin(q) ==
    /\ req[q].pc = "begin"
    /\ MayBegin(q) /\ Exists
    /\ cycle' = "COMPUTING"
    /\ Put(q, [req[q] EXCEPT !.pc = "list", !.st = "COMPUTING"])
    /\ UNCHANGED <<result, calls>> /\ OthersKeep

\* 409; or the row is gone and the UPDATE matches nothing (500).
Refuse(q) ==
    /\ req[q].pc = "begin"
    /\ ~ (MayBegin(q) /\ Exists)
    /\ End(q)
    /\ UNCHANGED <<cycle, result, calls>> /\ OthersKeep

\* The first page of the ACTIVE employees is all there is to a run.
Page(page) == /\ page \subseteq active
              /\ IF Cardinality(active) <= PageSize THEN page = active
                 ELSE Cardinality(page) = PageSize

ListEmployees(q, page) ==
    /\ req[q].pc = "list"
    /\ Page(page)
    /\ Put(q, [req[q] EXCEPT !.pc = "next", !.emps = page,
                             !.todo = IF req[q].op = "run" THEN page ELSE @])
    /\ UNCHANGED <<cycle, result, calls>> /\ OthersKeep

\* ServiceCallError: the cycle becomes FAILED (500 if the row is gone).
ListFails_NoCommit(q) ==                                        \* mutation
    req[q].pc = "list" /\ End(q) /\ UNCHANGED <<cycle, result, calls>> /\ OthersKeep
ListFails(q) ==
    /\ req[q].pc = "list"
    /\ cycle' = IF Exists THEN "FAILED" ELSE cycle
    /\ End(q)
    /\ UNCHANGED <<result, calls>> /\ OthersKeep

\* The SELECT of _upsert_result for employee e: the session holds the row it
\* found and goes on to write `new`.
SelectRow(q, e, new) ==
    Put(q, [req[q] EXCEPT !.pc = "store", !.cur = e, !.row = result[e],
                          !.new = new, !.resp = FALSE])

Computed(a) == [st |-> "COMPUTED", pay |-> a]
Failed      == [st |-> "FAILED", pay |-> 0]

\* An employee of this request's list that it has still to process.
Due(q, e) == req[q].pc = "next" /\ e \in req[q].todo /\ e \in req[q].emps

\* A register row of someone who is not an active employee counts as failed
\* and writes nothing.
UnknownRow(q, e) ==
    /\ req[q].op \in Importing
    /\ req[q].pc = "next" /\ e \in req[q].todo \ req[q].emps
    /\ Put(q, [req[q] EXCEPT !.todo = @ \ {e}, !.bad = TRUE])
    /\ UNCHANGED <<cycle, result, calls>> /\ OthersKeep

\* Salary or attendance cannot be read, or there is no rate card: the
\* employee fails before compliance is called.
ComputeFails(q, e) ==
    /\ req[q].op = "run" /\ Due(q, e)
    /\ SelectRow(q, e, Failed)
    /\ UNCHANGED <<cycle, result, calls>> /\ OthersKeep

\* A daily-rated employee without paid days: zero pay, compliance not called.
ComputeUnpaid(q, e) ==
    /\ req[q].op = "run" /\ Due(q, e)
    /\ SelectRow(q, e, Computed(0))
    /\ UNCHANGED <<cycle, result, calls>> /\ OthersKeep

\* A prefilled register row carries its own deductions and net pay.
UsePrefilled(q, e, a) ==
    /\ req[q].op = "import_prefilled" /\ Due(q, e)
    /\ SelectRow(q, e, Computed(a))
    /\ UNCHANGED <<cycle, result, calls>> /\ OthersKeep

\* Everyone else: PF, ESI, PT and LWF come from compliance-service.
CallCompliance(q, e, a) ==
    /\ req[q].op \in {"run", "import_compute"} /\ Due(q, e)
    /\ calls' = calls \cup {[kind |-> "compute", from |-> q, emp |-> e, pay |-> a]}
    /\ Put(q, [req[q] EXCEPT !.pc = "compliance", !.cur = e,
                             !.new = Computed(a), !.resp = FALSE])
    /\ UNCHANGED <<cycle, result>> /\ OthersKeep

ComplianceAnswered(q) ==
    /\ req[q].pc = "compliance" /\ req[q].resp
    /\ SelectRow(q, req[q].cur, req[q].new)
    /\ UNCHANGED <<cycle, result, calls>> /\ OthersKeep

\* ServiceCallError: a zero FAILED row takes the place of the result.
ComplianceGivenUp(q) ==
    /\ req[q].pc = "compliance"
    /\ GiveUp(q)
    /\ SelectRow(q, req[q].cur, Failed)
    /\ UNCHANGED <<cycle, result>> /\ OthersKeep

\* The flush after the SELECT meets another transaction's work: an INSERT of
\* a row that now exists (uq_result_cycle_emp) or below a deleted cycle, or
\* an UPDATE of a row that is gone.
Conflict(q) ==
    LET here == result[req[q].cur].st # "NONE" IN
    IF req[q].row = NoResult THEN here \/ ~ Exists
    ELSE ~ here /\ req[q].row # req[q].new

\* What the row becomes: an INSERT, or an UPDATE of the columns that differ
\* from what the session loaded.
Written(old, row, new) ==
    IF row = NoResult THEN new
    ELSE IF old = NoResult THEN old
    ELSE [st  |-> IF new.st  = row.st  THEN old.st  ELSE new.st,
          pay |-> IF new.pay = row.pay THEN old.pay ELSE new.pay]

StoreResult(q) ==
    /\ req[q].pc = "store"
    /\ ~ Conflict(q)
    /\ result' = [result EXCEPT ![req[q].cur] =
                    Written(result[req[q].cur], req[q].row, req[q].new)]
    /\ Put(q, [req[q] EXCEPT !.pc = "next", !.todo = @ \ {req[q].cur},
                             !.ok  = @ \/ req[q].new.st = "COMPUTED",
                             !.bad = @ \/ req[q].new.st = "FAILED",
                             !.cur = None, !.row = NoResult, !.new = NoResult])
    /\ UNCHANGED <<cycle, calls>> /\ OthersKeep

\* The session is unusable after the failed flush: the request ends in 500.
StoreConflict(q) ==
    /\ req[q].pc = "store"
    /\ Conflict(q)
    /\ End(q)
    /\ UNCHANGED <<cycle, result, calls>> /\ OthersKeep

\* The results a run keeps: of the employees it was given.
Kept_All(q) == result                                           \* mutation
Kept(q) == [e \in Employees |-> IF e \in req[q].emps THEN result[e] ELSE NoResult]

\* End of a run's loop: results of people the run did not cover go, then
\* compliance is asked to forget them too.  The rows to delete are chosen by
\* employee only, so the SELECT and the DELETE are one step here.
DropStale(q) ==
    /\ req[q].op = "run" /\ req[q].pc = "next" /\ req[q].todo = {}
    /\ result' = Kept(q)
    /\ calls' = calls \cup {[kind |-> "prune", from |-> q, keep |-> req[q].emps]}
    /\ Put(q, [req[q] EXCEPT !.pc = "prune", !.resp = FALSE])
    /\ UNCHANGED cycle /\ OthersKeep

Pruned(q) ==
    /\ req[q].pc = "prune" /\ req[q].resp
    /\ Put(q, [req[q] EXCEPT !.pc = "finish"])
    /\ UNCHANGED <<cycle, result, calls>> /\ OthersKeep

\* Any error of the prune is logged and forgotten.
PruneGivenUp(q) ==
    /\ req[q].pc = "prune"
    /\ GiveUp(q)
    /\ Put(q, [req[q] EXCEPT !.pc = "finish", !.resp = FALSE])
    /\ UNCHANGED <<cycle, result>> /\ OthersKeep

\* COMPUTED if anyone computed or nobody failed.
Outcome_NewStatus(r) == IF r.ok THEN "COMPUTED" ELSE "PARTIAL"  \* mutation
Outcome(r) == IF r.ok \/ ~ r.bad THEN "COMPUTED" ELSE "FAILED"

\* The last commit of a run or an import writes the outcome whatever the row
\* holds by then; if the row is gone the UPDATE fails.
Finish(q) ==
    /\ \/ req[q].op = "run" /\ req[q].pc = "finish"
       \/ req[q].op \in Importing /\ req[q].pc = "next" /\ req[q].todo = {}
    /\ cycle' = IF Exists THEN Outcome(req[q]) ELSE cycle
    /\ End(q)
    /\ UNCHANGED <<result, calls>> /\ OthersKeep

-----------------------------------------------------------------------------
(* POST /payroll/cycles/{id}/approve *)

\* A status other than COMPUTED and APPROVED is answered 409.
StartApprove(q) ==
    /\ cycle \in {"COMPUTED", "APPROVED"}
    /\ Load(q, "approve", IF cycle = "COMPUTED" THEN "mark" ELSE "gather", {})
    /\ UNCHANGED <<cycle, result, calls>> /\ OthersKeep

\* COMPUTED -> APPROVED, without looking at the row again.
MarkApproved(q) ==
    /\ req[q].pc = "mark" /\ Exists
    /\ cycle' = "APPROVED"
    /\ Put(q, [req[q] EXCEPT !.pc = "gather", !.st = "APPROVED"])
    /\ UNCHANGED <<result, calls>> /\ OthersKeep

\* What the COMPUTED results come to.
ToPay == {t \in Txn : result[t[1]] = Computed(t[2])}

\* Select the COMPUTED results and submit them to payout-service.
SubmitPayout(q) ==
    /\ req[q].pc = "gather"
    /\ calls' = calls \cup {[kind |-> "payout", from |-> q, txns |-> ToPay]}
    /\ Put(q, [req[q] EXCEPT !.pc = "payout", !.txns = ToPay, !.resp = FALSE])
    /\ UNCHANGED <<cycle, result>> /\ OthersKeep

\* ServiceCallError: 502, the cycle stays APPROVED for a retry.
PayoutGivenUp_Swallowed(q) ==                                   \* mutation
    /\ req[q].pc = "payout" /\ Put(q, [req[q] EXCEPT !.resp = TRUE])
    /\ UNCHANGED <<cycle, result, calls>> /\ OthersKeep
PayoutGivenUp_NoTimeout(q) ==                                   \* mutation
    /\ req[q].pc = "payout" /\ req[q].resp /\ End(q)
    /\ UNCHANGED <<cycle, result, calls>> /\ OthersKeep
PayoutGivenUp(q) ==
    /\ req[q].pc = "payout"
    /\ GiveUp(q)
    /\ End(q)
    /\ UNCHANGED <<cycle, result>> /\ OthersKeep

\* The rows the session selected are there to be updated.
CanSettle(q) == Exists /\ \A t \in req[q].txns : result[t[1]] # NoResult

\* The results once those of the submitted transactions are PAID.
Settled_All(q) == [e \in Employees |->                          \* mutation
    IF result[e] # NoResult THEN [result[e] EXCEPT !.st = "PAID"] ELSE result[e]]
Settled(q) == [e \in Employees |->
    IF \E t \in req[q].txns : t[1] = e
    THEN [result[e] EXCEPT !.st = "PAID"] ELSE result[e]]

\* After the payout (and the payslips, whose failure changes nothing here):
\* results PAID, cycle DISBURSED.  Only the two status columns are written.
Settle(q) ==
    /\ req[q].pc = "payout" /\ req[q].resp
    /\ CanSettle(q)
    /\ result' = Settled(q)
    /\ CanTransition(req[q].st, "DISBURSED")
    /\ cycle' = "DISBURSED"
    /\ End(q)
    /\ UNCHANGED calls /\ OthersKeep

\* A row is gone: the last commit of the approval fails, or its first one.
ApproveConflict(q) ==
    /\ \/ req[q].pc = "payout" /\ req[q].resp /\ ~ CanSettle(q)
       \/ req[q].pc = "mark" /\ ~ Exists
    /\ End(q)
    /\ UNCHANGED <<cycle, result, calls>> /\ OthersKeep

-----------------------------------------------------------------------------
(* DELETE /payroll/cycles/{id} *)

\* DISBURSED is refused (409); everything else is cleared from compliance.
StartDelete_Unguarded(q) ==                                     \* mutation
    /\ Load(q, "delete", "delete", {})
    /\ calls' = calls \cup {[kind |-> "prune", from |-> q, keep |-> {}]}
    /\ UNCHANGED <<cycle, result>> /\ OthersKeep
StartDelete(q) ==
    /\ cycle # "DISBURSED"
    /\ Load(q, "delete", "delete", {})
    /\ calls' = calls \cup {[kind |-> "prune", from |-> q, keep |-> {}]}
    /\ UNCHANGED <<cycle, result>> /\ OthersKeep

\* The row goes and the results cascade from it.
DeleteCycle(q) ==
    /\ req[q].pc = "delete" /\ req[q].resp
    /\ cycle' = "DELETED"
    /\ result' = [e \in Employees |-> NoResult]
    /\ End(q)
    /\ UNCHANGED calls /\ OthersKeep

\* ServiceCallError: 502, the cycle is kept.
DeleteGivenUp(q) ==
    /\ req[q].pc = "delete"
    /\ GiveUp(q)
    /\ End(q)
    /\ UNCHANGED <<cycle, result>> /\ OthersKeep

-----------------------------------------------------------------------------
(* The other services *)

\* The call c is executed; its caller hears of it if it is still waiting.
Waiting(c) == \/ c.kind = "compute" /\ req[c.from].pc = "compliance"
                 /\ req[c.from].cur = c.emp
              \/ c.kind = "prune" /\ req[c.from].pc \in {"prune", "delete"}
              \/ c.kind = "payout" /\ req[c.from].pc = "payout"

Answer(c) ==
    /\ calls' = calls \ {c}
    /\ IF Waiting(c) THEN Put(c.from, [req[c.from] EXCEPT !.resp = TRUE])
       ELSE UNCHANGED req

\* compliance-service compute: delete and rewrite the employee's rows.
ServeCompute(c) ==
    /\ c.kind = "compute"
    /\ comp' = [comp EXCEPT ![c.emp] = c.pay]
    /\ Answer(c)
    /\ UNCHANGED <<cycle, result, payout, active, moves>>

\* compliance-service prune_cycle: rows of everyone not kept go.
ServePrune(c) ==
    /\ c.kind = "prune"
    /\ comp' = [e \in Employees |-> IF e \in c.keep THEN comp[e] ELSE 0]
    /\ Answer(c)
    /\ UNCHANGED <<cycle, result, payout, active, moves>>

\* payout-service create_batch, by the promise PayoutService is shown to keep:
\* the whole list is paid, and what was paid before stays paid.
Ledger == INSTANCE Payments WITH Lists <- SUBSET Txn, paid <- payout

ServePayout(c) ==
    /\ c.kind = "payout"
    /\ Ledger!Pay(c.txns)
    /\ Answer(c)
    /\ UNCHANGED <<cycle, result, comp, active, moves>>

\* employee-service: someone joins, separates or moves to another client.
MoveEmployee(e) ==
    /\ moves < MaxMoves
    /\ moves' = moves + 1
    /\ active' = IF e \in active THEN active \ {e} ELSE active \cup {e}
    /\ UNCHANGED <<cycle, result, comp, payout, calls, req>>

\* The process dies, or the request raises something it does not catch.
Crash(q) ==
    /\ MayCrash
    /\ q \in InFlight
    /\ GiveUp(q)
    /\ End(q)
    /\ UNCHANGED <<cycle, result>> /\ OthersKeep

\* Nothing in flight: the service waits for requests.
Idle == InFlight = {} /\ UNCHANGED vars

-----------------------------------------------------------------------------
Init ==
    /\ cycle = "NONE"
    /\ result = [e \in Employees |-> NoResult]
    /\ comp = [e \in Employees |-> 0]
    /\ payout = {}
    /\ active = Employees
    /\ moves = 0
    /\ calls = {}
    /\ req = [q \in Requests |-> Blank]

\* Somebody sends a request.
Start(q) ==
    \/ StartRun(q)
    \/ \E op \in Importing, rows \in SUBSET Employees : StartImport(q, op, rows)
    \/ StartApprove(q)
    \/ StartDelete(q)

\* One employee of a run or an import.
Process(q) ==
    \/ \E e \in Employees : \/ UnknownRow(q, e)
                            \/ ComputeFails(q, e)
                            \/ ComputeUnpaid(q, e)
                            \/ \E a \in Amounts : \/ UsePrefilled(q, e, a)
                                                  \/ CallCompliance(q, e, a)
    \/ ComplianceAnswered(q) \/ ComplianceGivenUp(q)
    \/ StoreResult(q) \/ StoreConflict(q)

\* Everything a request does once it has started.
Progress(q) ==
    \/ Begin(q) \/ Refuse(q)
    \/ \E page \in SUBSET Employees : ListEmployees(q, page)
    \/ ListFails(q)
    \/ Process(q)
    \/ DropStale(q) \/ Pruned(q) \/ PruneGivenUp(q) \/ Finish(q)
    \/ MarkApproved(q) \/ SubmitPayout(q) \/ PayoutGivenUp(q)
    \/ Settle(q) \/ ApproveConflict(q)
    \/ DeleteCycle(q) \/ DeleteGivenUp(q)

Serve == \E c \in calls : ServeCompute(c) \/ ServePrune(c) \/ ServePayout(c)

Next == \/ CreateCycle
        \/ \E q \in Requests : Start(q) \/ Progress(q) \/ Crash(q)
        \/ Serve
        \/ \E e \in Employees : MoveEmployee(e)
        \/ Idle

Spec == Init /\ [][Next]_vars

\* A handler that waits is answered or times out (httpx has a timeout on every
\* call), and the event loop runs every handler that is ready.
Fairness == \A q \in Requests : WF_vars(Progress(q))

FairSpec == Spec /\ Fairness

-----------------------------------------------------------------------------
(* Properties *)

TypeOK ==
    /\ cycle \in Status \cup Absent
    /\ result \in [Employees -> ResultRow]
    /\ comp \in [Employees -> Pays]
    /\ payout \subseteq Txn
    /\ active \subseteq Employees
    /\ moves \in 0..MaxMoves
    /\ calls \subseteq Calls
    /\ req \in [Requests -> Request]


\* A PAID result has its payment, whatever interleaves: results are marked
\* PAID only after payout-service has confirmed the batch they are in
\* (approve_cycle, orchestrator.py 811-873).
PaidHasPayment ==
    \A e \in Employees : result[e].st = "PAID" =>
        \E a \in Pays : <<e, a>> \in payout

\* No employee is paid twice for a cycle, although approval is retried after
\* lost answers and crashes, and although the idempotency key of payout-service
\* does not stop a second payment of another amount.
PaidOnce ==
    \A e \in Employees, a, b \in Pays :
        <<e, a>> \in payout /\ <<e, b>> \in payout => a = b

\* Once DISBURSED, what was paid is exactly what the cycle records as PAID, and
\* nothing that was computed has been left out.
DisbursedMatchesPayments ==
    cycle = "DISBURSED" =>
        /\ payout = {t \in Txn : result[t[1]] = [st |-> "PAID", pay |-> t[2]]}
        /\ ToPay = {}

\* The figures that were approved are the figures that are paid: from APPROVED
\* on no net pay changes and no result appears or goes, unless with the cycle.
SettlesOrKeeps(e) ==
    \/ result'[e] = result[e]
    \/ result[e].st = "COMPUTED" /\ result'[e] = [result[e] EXCEPT !.st = "PAID"]
ResultsFrozen ==
    cycle \in {"APPROVED", "DISBURSED"} /\ cycle' # "DELETED"
      => \A e \in Employees : SettlesOrKeeps(e)
ApprovedIsFrozen == [][ResultsFrozen]_vars

\* When a run is about to publish its outcome, the results it leaves are those
\* of the employees it was given, every pay it computed has the contribution
\* rows computed with it, and if the prune was answered no one else has any.
RunLeavesConsistentBooks ==
    \A q \in Requests : req[q].op = "run" /\ req[q].pc = "finish" =>
        /\ \A e \in Employees : result[e] # NoResult <=> e \in req[q].emps
        /\ \A e \in Employees : result[e].st = "COMPUTED" /\ result[e].pay # 0 =>
                                  comp[e] = result[e].pay
        /\ req[q].resp => \A e \in Employees : comp[e] # 0 => e \in req[q].emps

\* The cycle follows the status machine of app/state.py.
Lifecycle == INSTANCE CycleLifecycle WITH status <- cycle
FollowsLifecycle == Lifecycle!Spec

\* A run or an import never leaves its cycle at COMPUTING: no status lets a run
\* start from there, so nobody but a delete could free it.
ComputingEnds == cycle = "COMPUTING" ~> cycle # "COMPUTING"

\* Requests end, with an answer, an error or a conflict: no interleaving leaves
\* one waiting for ever (there are finitely many, so all of them end).
RequestsEnd == InFlight # {} ~> InFlight = {}

(* Statements of the code and its documents that runs refute *)

\* "The second concurrent run observes COMPUTING here and assert_transition
\* raises 409 instead of re-processing" (orchestrator.py 642-644): two requests
\* are never processing the cycle at once.
OneRunAtATime ==
    \A p, q \in Requests :
        /\ req[p].op \in Processing /\ req[p].pc # "begin"
        /\ req[q].op \in Processing /\ req[q].pc # "begin"
        => p = q

\* "A DISBURSED cycle is refused: the money has left the account ... deleting
\* it would leave payouts pointing at nothing" (routes.py 163-165): a deleted
\* cycle has no payments.
DeletedHasNoPayments == cycle = "DELETED" => payout = {}

\* "Payroll calls this after a run with the employees it actually computed;
\* everything else attached to the cycle goes" (compliance routes.py 254-255):
\* after a run whose prune was answered, only computed employees have rows.
OnlyComputedHaveContributions ==
    \A q \in Requests : req[q].op = "run" /\ req[q].pc = "finish" /\ req[q].resp =>
        \A e \in Employees : comp[e] # 0 => result[e].st = "COMPUTED"

=============================================================================
