# Verification of hr_payroll

`hr_payroll` is a payroll platform for several client companies: FastAPI
microservices behind a gateway, one PostgreSQL schema per service, and a React
front end, the console. This directory holds TLA+ models of the parts where money,
statutory figures and other people's data can go wrong, the TLC runs that check
them on small instances and the proofs, checked by TLAPS, that hold for every
instance.

    tlasany PayrollCycle.tla
    tlc -workers 2 -config MCCycleSerial.cfg MCPayrollCycle.tla
    tlc -workers 2 -config MCConsoleForms.cfg MCConsolePages.tla
    tlapm ConsolePagesProofs.tla

`PROJECT.json` lists the components, the runs, the source lines behind every
definition, the hazards and the theorems.

## 1. Inventory

| Component | State it keeps | Operations that change it | Hard part |
|---|---|---|---|
| payroll-service | cycle (status machine), one result per employee and cycle | create, run, import-register, approve, delete | long handlers with an await per employee; commits in between; calls to four services; retries of approval |
| payout-service | one batch per cycle (meant), transactions with a unique idempotency key | create_batch | concurrent and retried submissions; find-or-create; deadlock on the unique index |
| compliance-service | PF/ESI/PT/LWF rows per employee and cycle, rate settings | compute, prune_cycle, settings | called once per employee by a run, and again by re-runs; rows keep no foreign key to the cycle |
| employee-service | employees, departments, rate cards, financial years, workflow instances | CRUD, bulk import, activate year, act on workflow | read-then-write on one row; chunked commits |
| attendance-service | attendance per employee and month, month control row, leave requests, balances, ledger | upsert, bulk, validate, lock, unlock; submit, approve, reject, cancel | writes racing a lock; balance updates |
| salary-service | salary structures, one active per employee | create, revise | two revisions at once |
| blobstore-service | objects in MinIO, rows, outbox, employee documents, document registry | upload, delete, restore, purge, relay, verify, reconcile | three stores without a common transaction; background jobs |
| reporting-service | generated payslips (row and blob) | generate, regenerate | cache of figures that may change |
| auth-service | tenants, users, roles | register, create user, roles, deactivate | the last administrator |
| gateway | a cache of client ownership | proxy | staleness |
| client-service | clients, portal credentials, records of client documents | create, update, archive, restore, delete; upsert a credential; record, verify, reject | deletion beside everything else |
| console: session | token and selected client in localStorage, shared by tabs; query cache and roles in each tab | sign in and out, select a client, every query and save, a 401 | answers of an earlier account or client; two tabs |
| console: pages | rows and forms on screen, dialogs, what the query cache holds | edit, save, upload, parse, import, confirm, poll | saves of several calls that fail half way; rows, forms and cache entries that outlive what they were made for |
| tds-service (disconnected), deployment, scripts, migrations | | | no state machine of their own |

How they interact: the gateway authenticates a request and forwards it.
payroll-service is the only orchestrator: a *run* asks employee-service for the
active employees, then for each one salary- and attendance-service for input and
compliance-service for contributions (which writes rows of its own), stores a
result, and finally has compliance-service prune whom the run did not cover. An
*approval* commits APPROVED, has payout-service pay the COMPUTED results, asks
reporting-service for payslips and commits results PAID and cycle DISBURSED.
A *delete* prunes compliance first and then removes the cycle with its results.
All calls are plain HTTP with a timeout: no call is retried automatically, and a
service does not notice that its caller has stopped waiting. Inside a service
every handler has its own database session; handlers interleave at every `await`.
The console calls the services through the gateway, with the token and the client
it finds in localStorage at that moment. Its pages share one query cache per tab
whose keys carry no client; a save that spans two services is a sequence of calls
made by the page, and what puts a half-done one right is pressing the button again.

What makes each part correct, in one line:

* payroll: the status machine of `app/state.py` is followed; a result is PAID only
  if it was paid; an employee is paid once per cycle; approved figures do not
  change; a run leaves results and contributions that agree; nothing is stuck.
* payout: a batch is paid whole or not at all, an answered caller has been paid for,
  the same payment is never made twice.
* compliance: the rows of a cycle are those of the employees it covers.
* attendance: a locked month does not change; a leave request moves the balance once
  and the ledger agrees with it.
* blobstore: a row has its object, a committed change has its event, an event is
  delivered at least once or parked, an employee has one active document per kind.
* salary, financial years: exactly one is active. auth: a tenant keeps an admin.
* console session: a page is shown by the roles of the account its calls are made as,
  the cache holds data of the client it is taken to be of, a valid session gets in.
* console pages: what was typed for one month, person or client is never stored for
  another; what is shown as saved or current is; a half-done save can be repeated
  without doing its first half twice, or the user was told.

## 2. Modules

| Module | What it is |
|---|---|
| `CycleStates` | the statuses, `_ALLOWED` and `assert_transition` of `payroll-service/app/state.py` |
| `CycleLifecycle` | the abstract specification of one cycle: only the status column |
| `PayrollCycle` | one cycle in detail: every handler, one action per stretch of code between two awaits that matter, and the three services it calls |
| `Payments` | the abstract specification of payout-service that `PayrollCycle` uses |
| `PayoutService` | `create_batch` in detail: sessions, autoflush, the unique index |
| `MCPayrollCycle`, `MCPayoutService` | constant values for TLC |
| `PayrollCycleProofs` | theorems about `PayrollCycle` that hold whatever interleaves |
| `PayrollCycleSerialProofs` | theorems about it for one request at a time: the refinement of `CycleLifecycle`, the money, and the books a run leaves |
| `PayoutServiceProofs` | theorems about `PayoutService`: the refinement of `Payments`, one batch for a list and its total |
| `ConsoleSession` | tabs, localStorage, the gateway's check of the client header |
| `AttendancePage` | the attendance page (grid, quick entry, workbook) and the month handlers of attendance-service |
| `AttendanceSheet` | one row of it: day codes, totals, what the page shows as payable and what the service computes |
| `BulkImport` | the employee import wizard over employee- and salary-service |
| `RegisterImport` | the register import of a cycle: parsing, matching names, reassigning rows |
| `EmployeeDocuments` | the document panel of an employee and the document router of blobstore-service |
| `ClientDocuments` | the document panel of a client over blobstore- and client-service |
| `CycleDesk` | the list of cycles, the page of one and the registers over the query cache |
| `EmployeesPage` | the form of an employee and their CTC, separation and deletion |
| `ClientsPage` | the form of a client and its portal passwords, the reveal panel, archive and delete |
| `ConsolePages` | the nine modules of pages in one specification, a behaviour being the session of one page, and what their constants are assumed to be |
| `MCConsoleSession`, `MCConsolePages`, `MCAttendancePage` | constant values for TLC |
| `ConsoleSessionProofs` | theorems about `ConsoleSession` |
| `AttendancePageProofs`, `EmployeesPageProofs`, `ClientsPageProofs` | the inductions for the module of that name |
| `ConsolePagesProofs` | the inductions for the other pages, and the theorems about `ConsolePages`: every safety property of every page |

`PayrollCycle` composes payroll-service with the others. Its `ServePayout` is the
`Pay` step of `Payments` by INSTANCE, and `PayoutService` is checked to implement
`Payments` (`KeepsPromise`), so what is assumed of payout-service in one module is
shown in the other. `PayrollCycle` is in turn checked to implement
`CycleLifecycle` (`FollowsLifecycle`), with `status <- cycle`.

`CycleDesk` shares `CycleStates` with `PayrollCycle` and stands on it twice: its
server only makes the moves of the status machine, and its fairness of `RunEnds` is
`PayrollCycle`'s `ComputingEnds`. The other pages of the console meet only in
`ConsoleSession` and in the services, so each is a module that contains the handlers
it calls; what colleagues do at those services is an action of the page's module.
`ConsolePages` instantiates them all with the same `view` and `server`; its `Next` is
the next-state relation of the page that is open. The three pages with a proof module
of their own are instantiated through that module, so that `ConsolePagesProofs` can
cite what was proved there.

### PayrollCycle and the code

| State | Code |
|---|---|
| `cycle` | `payroll_cycles.status`; NONE before the row exists, DELETED after |
| `result[e]` | the `payroll_results` row of the cycle: status and net pay |
| `comp[e]` | the PF/ESI/PT/LWF rows compliance-service holds for the employee and cycle, by the pay they were computed with (0: none) |
| `payout` | the committed `payout_transactions` of the cycle |
| `active` | whom employee-service lists as ACTIVE |
| `calls` | HTTP calls that were sent and not yet executed |
| `req[q]` | one handler invocation: where it stands, and what its session holds |

A request is `Load`ed with the status `_load_cycle` read and keeps it (`st`):
sessions are made with `expire_on_commit=False` and the `SELECT ... FOR UPDATE` of
`run_cycle` and `import_register` does not refresh an object the session already
holds. `row` is the result row `_upsert_result` found and `new` what it goes on to
write; an UPDATE writes only the columns that differ from what was loaded
(`Written`), an INSERT or an UPDATE can meet another session's work (`Conflict`).

| Code | Actions |
|---|---|
| `create_cycle` | `CreateCycle` |
| `run_cycle`, `import_register` | `StartRun`/`StartImport`, `Begin`/`Refuse`, `ListEmployees`/`ListFails`; per employee `UnknownRow`, `ComputeFails`, `ComputeUnpaid`, `UsePrefilled`, `CallCompliance` with `ComplianceAnswered`/`ComplianceGivenUp`, then `StoreResult`/`StoreConflict`; `DropStale`, `Pruned`/`PruneGivenUp`; `Finish` |
| `approve_cycle` | `StartApprove`, `MarkApproved`, `SubmitPayout`, `Settle`/`PayoutGivenUp`/`ApproveConflict` |
| `delete_cycle` | `StartDelete`, `DeleteCycle`/`DeleteGivenUp` |
| compliance `compute`, `prune_cycle`; payout `create_batch` | `ServeCompute`, `ServePrune`, `ServePayout` |
| process death, uncaught exception | `Crash` |

Abstractions: the amount of a result is one of `Amounts`, chosen freely by each
computation (so a re-run may come to another figure), the bank account is folded
into it; salary and attendance reads change nothing and are part of the step that
uses them; the employees of a run are processed in any order (the code uses the
order of the list), which includes the real one; a register names an employee at
most once; payslips, notifications and the audit log are left out because nothing
here reads them. `is_dry_run` is stored by the code but read by no handler of the
cycle, so it is not modelled. The two constants that select the environment are
`Overlap` (may two requests for the cycle be in flight at once) and `LateCalls`
(which calls may still be executed after their caller gave up).

### PayoutService and the code

One cycle; a key stands for the idempotency key. `PickBatch` is the lookup of the
batch, `Look` the lookup of one transaction, `Insert` the autoflush of the row that
was added before, which waits for a transaction that holds the same key
(`Waits`), fails when that one has committed (`Duplicate`) or is aborted in a
deadlock (`DeadlockAbort`); `Commit` writes the total and commits. A batch is named
after the request that created it. `retry_transaction` is left out: transactions
are inserted as SUCCESS and no code writes another status, so it only answers
errors.

### The console and the code

Every page module has two variables: `view`, a record with the state of the React
component (its `useState`s, the mutation under way, and what the query cache holds
for it), and `server`, what the services it calls have stored. A call is sent by
one action, handled by another and answered by a third, so it can be lost before
or after it was handled, and the user goes on meanwhile wherever the component
lets them. A handler of a service is one step (each is one transaction) where nothing it read
can change before it commits in a way a property sees. Two are more: the month
handlers of attendance-service (reads, then commit) and the document upload of
blobstore-service (three). What is typed is
abstracted to where it was typed: a CTC or a portal password is the number of the
form it was typed in, an attendance row an opaque value.

| Module | `view` | `server` | Actions and code |
|---|---|---|---|
| `ConsoleSession` (`lib/auth.ts`, `lib/api.ts`, `lib/ClientContext.tsx`, `ProtectedRoute`, `Login`, gateway `proxy`) | `tab[t]`: token in memory, page, roles, tracked client, cached data, calls in flight; `stored`, `storedClient`: localStorage | `existing` clients, `Tenant` | `Load`, `SubmitLogin`/`LoginAccepted`/`LoginRefused`/`LoginFailed`, `Logout`, `Redirect`, `SelectClient`; `FetchMe`, `FetchQuery`, `SubmitPassword` and their answers, `AnswerUnauthorized` (the 401 interceptor) |
| `AttendancePage` (`Attendance.tsx`) | month, tab, grid, quick and upload rows with what month they were built for, cache, calls | status and records of each month, handlers between their reads and their commit | `PickMonth`, `OpenTab`, `LoadGrid`, `EditCell`, `EditQuick`, `SaveGrid`, `SaveQuick`, `PickFile`/`ParseFile`/`SaveUpload`; lock, unlock, validate by `Ask`/`Confirm`; `Begin`/`Commit`/`Fail` (`bulk_upsert`, `upsert_manual`, `validate_month`, `lock_month`, `unlock_month`), `Answer`, `Forget`; `Colleague` begins a handler the page does not wait for |
| `AttendanceSheet` (`summariseDays`, `quickTotals`, `buildGrid`; `_calc`) | day codes or totals of one row | the record, in half days | `EditDay`, `EditTotal`, `SaveGrid`, `SaveQuick`, `Rebuild` |
| `BulkImport` (`BulkImportModal.tsx`) | step, file, rows, pay choices, result | employees, CTCs | `PickFile`, `Parsed`, `ChoosePay`, `CreateCard`, `Import`, `Post`, `Answer`, `Pay`, `PayAnswer`, `Fails` |
| `RegisterImport` (`ExcelRegisterImportModal.tsx`) | files being parsed, rows and whom they are matched to | where each result is from | `PickFile`, `FileParsed`, `SetRowEmployee`, `ChooseMode`, `Import`, `Handle`, `Answer` |
| `EmployeeDocuments` (`EmployeeDocumentsPanel.tsx`, `employee_doc_router.py`) | list, upload, preview, calls | versions in order of upload | `Upload`, `Store`, `Commit`, `Verify`, `Reject`, `Delete`, `Review`, `OpenPreview`/`PreviewArrives`, `Others` |
| `ClientDocuments` (`ClientDocumentsPanel.tsx`) | category, list, form, upload | files stored, records | `StoreFile`, `SendRecord`, `CreateRecord`, `Decide`/`Verify`, `Fails` |
| `CycleDesk` (`Cycles.tsx`, `CycleDetail.tsx`) | page, cache entries, stale marks, fetches under way | the cycle's status | `Open`, `Ask`/`Arrive` for each key, `Run`, `ImportRegister`, `Approve`, `Delete`, `Create`, `Handle`, `Answer`, `Fail`, `RunEnds`, `ApprovalEnds`, `Colleague` |
| `EmployeesPage` (`Employees.tsx`) | form, CTC field, save under way, removal | who exists, made and saved by which form, paid by which | `Open`, `Edit`, `CardArrives`, `Submit`, `WriteEmployee`, `CreateStructure`, `SaveSucceeds`/`SaveFails`, `Ask`/`Confirm`/`Remove` |
| `ClientsPage` (`Clients.tsx`) | form, save under way, drawer, reveal panel, dialog | status, forms and secrets of each client | `OpenForm`, `TypeCredential`, `Submit`, `WriteClient`, `WriteCredential`, `SaveSucceeds`/`SaveFails`; `OpenPanel`, `AskSecret`/`SecretArrives`, `Mask`, `Tick`; `AskConfirm`, `SendAct`, `HandleAct` |

Two facts of the code that shape these modules. A save that succeeds closes the
form that is open *then*: `SaveSucceeds` clears the form even when it is another
one, opened after the first was cancelled (`Employees.tsx:280`, `Clients.tsx`). And
react-query restarts a fetch only for an entry a mounted page observes, so in
`CycleDesk` the fetch of a page left behind still arrives and then counts as fresh. An invalidation
cancels a fetch under way only when the entry has data already (TanStack Query v5), so
the first fetch of an entry survives it too.

What is left to chance in `AttendancePage` is what the code leaves to it. No handler
locks the month it has read, so any two of them interleave at their commit. A commit
writes the columns that differ from the record as it was found: where another save
came between, the outcome is any of the mixtures (`BooksAfter`), and the status is
written only by a handler that changes the one it read (`StatusAfter`). Only
`upsert_manual` may add a record to a VALIDATED month without resetting it; it has no
page of its own and belongs to `Colleague`.

In `BulkImport` a row is recognised by a code, mobile, Aadhaar number or e-mail
(`marked`). One that has none of them makes an employee each time it is imported,
numbered by `Twins`, of whom nothing in the code says that they are the same person.

## 3. Runs

| Run | Instance | Shows |
|---|---|---|
| `cycle_serial` | 2 employees (symmetric), 2 amounts, 4 requests one at a time, crashes, late payouts, one employee leaving or returning; 97 598 states | `TypeOK`, `PaidHasPayment`, `PaidOnce`, `DisbursedMatchesPayments`, `RunLeavesConsistentBooks`, `ApprovedIsFrozen`, `FollowsLifecycle` |
| `cycle_overlap` | 1 employee, 1 amount, 3 requests that overlap freely, fair; about 226 000 states | `PaidHasPayment`, `ComputingEnds`, `RequestsEnd` |
| `payout` | 3 requests for the same 2 transactions, fair; 1 232 states | `TypeOK`, `AnsweredIsPaid`, `BatchHoldsTheList`, `BatchTotalIsItsSum`, `RequestsEnd`, `KeepsPromise` |
| `session` | 1 tab, 2 accounts of 2 tenants with 2 and 1 clients, 2 calls in flight, fair; 56 048 states | `TypeOK`, `RolesAreOfTheToken`, `CacheHoldsTrackedClient`, `LetInWithValidClient` |
| `console_forms` | attendance, sheet, both imports, both kinds of documents, employees: one page in a behaviour; about 3 130 000 states | `GridSavesItsOwnMonth`, `SettledMonthIsFrozen`, `QuickShowsStoredPayable`, `GridShowsStoredPayable`, `NobodyLeftUnpaid`, `EachRowIsSomeone`, `VersionsReplaceEachOther`, `RecordsHaveTheirFiles`, `PaidAsTyped`, `OneSaveOneEmployee`, `TypeOK` |
| `console_desks` | clients and the payroll desk, fair; about 900 000 states | `SecretsAsTyped`, `SecretIsHidden`, `OwnRunIsShown`, `DeletedIsForgotten`, `ComputingIsLeft`, `TypeOK` |
| `two_runs` | 2 overlapping requests | refutes `OneRunAtATime` |
| `delete_paid` | 3 serial requests | refutes `DeletedHasNoPayments` |
| `prune_failed` | 2 serial requests | refutes `OnlyComputedHaveContributions` |
| `two_batches` | as `payout` | refutes `OneBatchPerCycle` |
| `quick_entry` | 1 employee, 2 months | refutes `QuickSavesItsOwnMonth` |
| `two_tabs` | as `session`, 2 tabs, 1 call each | refutes `CacheHoldsTrackedClient` |

Bounds of the services. Four serial requests are enough for the longest story the
properties tell apart: run, re-run or import, approval that loses its answer,
approval again (and, with one fewer, delete). Two employees separate "this one" from
"another one", so that stale, failed and dropped results coexist with good ones; two
amounts make a second payment of another figure possible. Three overlapping requests
are the fewest with which one can undo what two others did together. Three
submissions of two keys are the fewest with which a deadlock, a duplicate and a
success occur in one behaviour. `Requests` also ends every behaviour: requests are
used once, in order.

Bounds of the console (in the cfg files and the MC modules).

* `session`: two clients of one tenant make switching possible, one of another
  makes a remembered client invalid; two calls are the fewest with which an old
  answer meets a new question. One tab, because with two the cache property is
  false (finding 6).
* attendance: one employee, two months (symmetric), one call of the page under way, and
  one way of entry in a session; or no entry but the lock and validate dialogs, beside
  one handler the page does not wait for (`MaxOthers`), a colleague's or its own whose
  answer was lost: the two overtake each other. A record is the default or missing, so
  what a write does shows where it adds one (months begin empty or full); the theorems
  are for any values. Figures are `AttendanceSheet`'s, with a month of three days of
  which one is a Sunday and totals of 0, 1 and 4 half days (a half day, and more than
  the month has).
* imports: two people, two files each, one person on the books already; the files
  hold a monthly and a daily row, an unknown rate card, an exact, a fuzzy and a
  failed match and two rows of one employee; one row of two is not recognised, and
  makes two employees at most (`MaxTwins`), enough for the one left behind.
* documents: two versions of one slot, or two files, with two calls at once.
* employees and clients: two forms, one failure of each, so that a form is retried
  while or after another was opened; ids for two forms and a retry; two portals, so
  that a save can fail between them; two seconds of reveal.
* payroll desk: a session between the list and the cycle, or the list and the
  registers, with one fetch under way beside the cycle's own.

What the environment may do. In `cycle_serial` a payout that was given up on may be
executed at any later time, also after the retried approval; that is the case the
money properties are about. Compute and prune calls are not late there: the code
has no defence against them (a compute call of a request that died, executed after
a later run, overwrites the later rows, and a late prune removes them), so
`RunLeavesConsistentBooks` is a statement about runs whose compliance calls do not
outlive their request. `PaidOnce`, `DisbursedMatchesPayments`, `ApprovedIsFrozen`,
`RunLeavesConsistentBooks` and `FollowsLifecycle` do not hold between overlapping
requests, because the guard of a run does not (finding 1): two runs that both hold
DRAFT may continue beside an approval that one of them made possible.

What properties leave out, because the code does.

* `SettledMonthIsFrozen` excepts two things: a handler that read the status before the
  lock or the validation was committed (`Overtaken`: nothing locks the control row
  between, `attendance-service/app/routes.py:232`, `:359`, `:380`), and the record
  `upsert_manual` adds to a VALIDATED month (`Added`). What remains is that any other
  handler obeys the status, and that an edit resets a validation.
* `NobodyLeftUnpaid` is about those whom the import *made*. When its second half
  failed and the file is imported again, a recognised employee is a duplicate and gets
  the CTC of the file as a new structure, although the page says duplicates are skipped
  (`BulkImportModal.tsx:180`, `:1057`); an unrecognised row makes a second employee, and
  the first stays unpaid, as the result page of the first import said. No property
  promises anything of either.
* `OwnRunIsShown` and `DeletedIsForgotten` except a fetch that nothing cancels: the
  first one of an entry, and that of a page left behind. What such a fetch brings was
  read before and is taken for current. After a deletion the registers may be asked for
  again, for compliance-service answers 200 with the rows there are: that is "after".
* `OneSaveOneEmployee` allows one employee more for every failure that was told. The
  same retry of the client form makes another client, and no property limits it.
* `GridShowsStoredPayable` excludes half days and some records of quick entry
  (`Faithful`): for these the grid shows another payable figure than attendance-service
  stores.
* `LetInWithValidClient` excludes a remembered client of another tenant or deleted: the
  "me" query then gets 403 and the user goes round between login and redirect, since
  only the selector inside changes the client.
* `ComputingIsLeft` is about a cycle that exists: if a colleague deletes it under the
  page, the poll is answered 404 and the page goes on showing the computing cycle.

Fairness. `WF_vars(Progress(q))` for each request: every wait of a handler is an
HTTP call with a timeout (15 s, 300 s for payslips) or a database statement, so a
handler that can take a step is eventually scheduled by the event loop. No fairness
is assumed of the services, of crashes, of users or of employees moving. For
payout-service the same, the database giving up deadlocks being one of the steps.
`ComputingEnds` is checked without crashes: a crash between the first and the last
commit of a run does leave the cycle at COMPUTING, from which no run may start
(hazard list). In the console: the interval of the reveal panel fires every second
(`Tick`); the poll of a computing cycle fires and is answered (`Ask("cycle")`,
`Arrive("cycle")`) and a run ends (`RunEnds`, which `ComputingEnds` provides). In
`ConsoleSession` the browser renders redirects, asks for "me" and reports a failure
(weak); somebody keeps signing in and a call that can be answered well again and
again is (strong), and the page is not reloaded by hand for ever: nothing else would
let anybody in. Only `LetInWithValidClient` uses it.

CHECK_DEADLOCK stays on for the services: `Idle` is enabled exactly when nothing is
in flight, so a request that could neither go on nor end would be reported. The runs
of the pages turn it off, because there the bounds (forms opened, files, versions)
really end a session.

## 4. Findings

1. `two_runs`: the guard behind the row lock judges the status loaded *before* the
   lock (`orchestrator.py:634`), so two runs can process one cycle together. The
   comment there and `docs/ISSUES.md` (M4) say the second gets 409.
2. `delete_paid`: a cycle whose payout went through but whose approval did not hear
   of it is APPROVED, and `delete_cycle` refuses only DISBURSED
   (`routes.py:176`): payments are left without the cycle they belong to.
3. `prune_failed`: the prune after a run keeps every *listed* employee, not, as
   `prune_cycle` documents, those *computed*; a failed employee keeps old
   contribution rows.
4. `two_batches`: overlapping first submissions make two batches for a cycle. (One
   of them stays empty: `BatchHoldsTheList`.)
5. `quick_entry`: the month picker resets the grid but not quick entry
   (`Attendance.tsx:957`), so its rows, built from the records of one month, are
   saved into the month picked afterwards.
6. `two_tabs`: the client header is read from localStorage when a call is sent
   (`api.ts:23`), which another tab may have changed since: a tab caches and saves
   for another client than the one it shows. With two tabs the roles of another
   account can stay on screen as well, after a 401 met on the login page.

## 5. Proofs

The theorems hold for every value of the constants that satisfies the named
assumptions beside them: any employees, positive amounts, page size, any number of
requests, tabs, months, forms, files and calls in flight, any length of a month, any
`LateCalls` and `MayCrash` unless a hypothesis says otherwise. No bound of a run enters
a proof. Every invariant and action property of the passing runs is stated by a theorem.

| Theorem | Property | Assumes |
|---|---|---|
| `Typing` | `TypeOK` of `PayrollCycle` | |
| `PaidImpliesPayment` | `PaidHasPayment` | |
| `FollowsTheLifecycle` | `FollowsLifecycle`: `PayrollCycle` implements `CycleLifecycle` | `Overlap = FALSE` |
| `NobodyIsPaidTwice` | `PaidOnce` | `Overlap = FALSE` |
| `DisbursedIsWhatWasPaid` | `DisbursedMatchesPayments` | `Overlap = FALSE` |
| `ApprovedStaysFrozen` | `ApprovedIsFrozen` | `Overlap = FALSE` |
| `PayoutTyping` | `TypeOK` of `PayoutService` | |
| `AnsweredHasBeenPaid` | `AnsweredIsPaid` | |
| `PromiseIsKept` | `KeepsPromise`: `PayoutService` implements `Payments` | |
| `OneBatchHoldsTheList`, `TotalIsTheSum` | `BatchHoldsTheList`, `BatchTotalIsItsSum` | a submitted list is finite |
| `BooksOfARun` | `RunLeavesConsistentBooks` | `Serially`: `Overlap = FALSE`, no late compute or prune |
| `SessionTyping` | `TypeOK` of `ConsoleSession` | |
| `OneTabRoles`, `OneTabCache` | `RolesAreOfTheToken`, `CacheHoldsTrackedClient` | `OneTab` |
| `ConsoleTyping` | `TypeOK` of `ConsolePages`, which is that of every page | |
| `GridMonthOnConsole`, `FrozenMonthOnConsole` | `GridSavesItsOwnMonth`, `SettledMonthIsFrozen` (an action property) | `Std \in Values` |
| `QuickEntryAgrees`, `GridAgrees` | `QuickShowsStoredPayable`, `GridShowsStoredPayable` | a month has a day at least |
| `EveryoneImportedIsPaid`, `RegisterRowsAreMatched` | `NobodyLeftUnpaid`, `EachRowIsSomeone` | a register has finitely many rows |
| `OneVersionCurrent`, `PapersAreFiled` | `VersionsReplaceEachOther`, `RecordsHaveTheirFiles` | the bounds are natural numbers |
| `PayOnConsole`, `EmployeesOnConsole` | `PaidAsTyped`, `OneSaveOneEmployee` | so are these, and ids are finitely many |
| `SecretsOnConsole` | `SecretsAsTyped` | the same |
| `OwnResultsAreNew`, `DeletedStaysForgotten` | `OwnRunIsShown`, `DeletedIsForgotten` | |

`Overlap = FALSE`, `Serially` and `OneTab` are not conveniences: the statements are
false without them (section 3, findings 1 and 6), and the theorems say that overlap,
late calls and a second tab are the only things that can break them. The rest are
types of constants (`AttendanceAssumption` to `FormsAssumption` of `ConsolePages`,
`ListsAssumption` of `PayoutService`, each checked by TLC for the values of its runs):
a file, a list and a table are finite, and `Missing`, which stands for a null, is none
of the values it may stand beside.

The argument, invariant by invariant:

* `TypeInv` adds to `TypeOK` that a request that waits for compliance or is about to
  store works on an employee (`CurKnown`); without it storing could leave `result`
  outside its type.
* `PaidInv` carries `PaidHasPayment`: a row about to be written is never PAID
  (`NewIsNotPaid`), a payout call that is under way from a request that still waits
  names what the request waits for (`OwnPayoutCall`), and so an answered approval
  has its transactions paid (`AnswerIsTrue`) when it marks them.
* `SerialInv` says that there is at most one request in flight, that its session's
  status is the cycle's, and which status its place in the handler implies (`Fits`):
  COMPUTING between the two commits of a run, APPROVED while paying. It is what
  overlap destroys. Each step then maps to a step of `CycleLifecycle` or a stutter.
* `MoneyInv` speaks of what is *submitted*: paid already or named by a payout call
  that may still be executed, its caller long gone. Before the approval nothing is
  submitted; while APPROVED everything submitted is what the results come to, since
  results cannot change any more; once DISBURSED everything submitted is paid and
  PAID. `PaidOnce` needs the calls under way in the invariant, because a late one
  pays after the approval was retried; and it needs `OneEach` by itself, because a
  late payout may still arrive for a deleted cycle.
* `PayInv` accounts for every transaction of a list a request has passed: inserted,
  about to be, or paid before. At the commit none is left, so the whole list is paid
  in one step; every other step leaves the committed rows alone.
* `TotalInv` says that a request in its loop has summed what it is done with and that a
  committed total is the sum of the list; it may be left, or set by a request that found
  everything paid, because every list has one sum. That a sum may be taken in any order
  is proved of the fold itself: a set on which two orders differed, of the fewest
  elements, would have a smaller one (`LeastSet`, `SumExists`, `SumAdds`), which takes
  well-foundedness of inclusion on finite sets instead of an induction theorem.
* `BooksInv` follows a run: from the moment its employees are listed everyone it is
  done with is *booked* (their result, if computed and not zero, has its contribution
  rows), through the call to compliance, whose execution may or may not have been
  heard of, to the row about to be stored. It needs the calls in it (`CallFits`): a
  call under way is for exactly what the one request in flight waits for, so that
  executing it can only make those rows right; hence `LateCalls`.
* `BatchInv` rests on who holds which key: an uncommitted row locks it (`LocksInv`),
  so a request that committed part of the list has committed all of it, and whoever
  comes second finds every key taken.
* `SessionInv` says of the only tab that the roles it has or asks for are of the token
  in use (`MineOf`) and that data, tracked client and header agree (`CacheOf`); a call
  whose answer would break that has been dropped from the cache's calls by the reset.
* The pages follow a number. In `AttendancePage` the month a grid was built for is the
  month picked for as long as it is loaded, and goes into the call with the rows. In
  `EmployeesPage` and `ClientsPage` the number of a form goes into the save that takes
  its closure, and is among those of whoever the first call wrote before the second
  call uses it (`SaveInv`).
* In `AttendancePage` a handler at work was allowed to by the status it *read*
  (`HandlerInv`), and nobody but its own reads says so: a step of `Commit` therefore
  either changes the status, or is overtaken, or read a settled month, and then it
  writes no record unless it resets the validation or adds one (`upsert_manual`).
* That a form makes one employee is not inductive as it stands: a form can be
  sent as long as it is open, so `CountInv` says how much a form that *can* still be
  sent, or is under way, has made: no more than the failures it told of. A form that
  has not been opened has made nothing.
* `SheetInv`: a clean row was built from the record or saved as it, and a record is what
  `_calc` made of its figures. What is left is arithmetic (the two rules for payable
  half days agree) and counting: `Overlay` lays holidays and then losses over the
  default working days from the end of the month, numbering those days (`Place`) is a
  bijection with 1..N, and so each code gets as many days as the interval it covers.
* `ImportInv` follows the rows of an import through its two calls: employee-service
  reports whom it made or recognised, salary-service pays those of them with a monthly
  CTC (`RunInv`), under the id of the report, and pay is never taken away, so what the result page says stays true (`ResultInv`).
* `RegisterInv`: rows are someone's only by an exact match or a choice from the moment
  they are rows (`RowsInv`), a late parse replaces them all, and what is sent is among
  them.
* `DocumentsInv`: between its two commits an upload has a version of its own, in the
  slot of those it will retire (`CallInv`), and versions keep their slot and their row
  (`Grows`); so retiring them leaves one that stands for them.
* `PapersInv`: between its two calls an upload holds a file that no record names
  (`UploadInv`), whatever is lost and repeated.
* `CyclesInv` is about fetches: results are asked for only by a page that has read the
  cycle past its draft (`ReadInv`), and what was read before a run or a deletion is told
  apart from what is read after. When the answer is heard with no old fetch left but
  those the invalidation cancels (`NoneLeft`), none is under way afterwards and what is
  cached is stale (`HeardInv`, `ForgotInv`); a later fetch can only bring what is new,
  since a deleted cycle never comes back.
* `ConsoleInv` puts them together: the invariant of the page that is open.

Only model-checked: the liveness properties `ComputingEnds`, both `RequestsEnd`,
`LetInWithValidClient`, `SecretIsHidden` and `ComputingIsLeft`, since fairness and
ENABLED are beyond the prover. The refuted properties are of course not proved.

## 6. Plan and what is not modelled

Done: `PayrollCycle`, `PayoutService` and their abstractions; the console's session
and every page of it that writes, except those below; a theorem for every safety
property of the runs (section 5).

Next, in this order:

1. `Leave` (requests, balances and ledger), and what `AttendancePage` still takes as one
   read: the creation of a month's control row, which two handlers may race for.
2. `BlobStore` (object, row and event over crashes; purge against restore), `Outbox`
   (relay, attempts, DLQ) and the extraction registry.
3. `OneActive` (salary structures, financial years) and `Workflow`.
4. `PayRules`: rounding, PF with its ceiling and EPS split, ESI, PT and LWF slabs,
   salary breakdown, as operators checked against reference definitions.
5. `Admins`, `Payslips` (cache against recomputation), the 60 s for which the gateway
   reuses a positive answer about a client, and the chunked commits of a bulk import.

Known and not covered by a property: `delete_cycle` prunes compliance before the
cycle is gone, so a delete that fails afterwards leaves the cycle without
contributions (`routes.py:190`; the model does it, no property promises otherwise);
only the first page of 200 employees is read (`client.py:76`; `PageSize` in the
model, no run makes it bite); an edit made in the attendance rows while their save
is under way is marked clean by its answer (`Attendance.tsx:778`); a client form sent
again after its passwords failed makes another client, since the form has no code the
service could refuse (`Clients.tsx:311`).

Not modelled: the pages that only read (dashboard, reports, registers as such,
audit), the console's settings, users, leave, rate-card and financial-year pages,
layout and formatting; HTTP routing, hashing and the content of tokens, encryption,
PDF rendering, migrations, tds-service (disconnected) and the deployment. The event
stream of payroll-service is a heartbeat stub (`DEPLOYMENT_GUIDE.md:272`), so
`usePayrollSSE` never invalidates anything and `CycleDesk` does without it.
