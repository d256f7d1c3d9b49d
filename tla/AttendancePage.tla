--------------------------- MODULE AttendancePage ---------------------------
(***************************************************************************)
(* The attendance page of the console, for one client company, and the    *)
(* month handlers of attendance-service it calls.                          *)
(*                                                                         *)
(* The page edits a month in three ways: day by day in a grid, as totals   *)
(* in "quick entry", or from an uploaded workbook.  Each keeps rows of its *)
(* own, built once from whatever the query cache held, and sends them to   *)
(* the same bulk handler.  What is written in a row is an opaque value; a  *)
(* read of the page is atomic (an invalidation restarts a fetch under way, *)
(* so no older answer wins).                                               *)
(*                                                                         *)
(* A handler of the service is two steps, for it takes no lock: it reads   *)
(* the month's status and the records, and some awaits later it commits    *)
(* what it made of them.  Others commit in between.                        *)
(***************************************************************************)
EXTENDS Naturals, FiniteSets

CONSTANTS
    Emps,       \* the client's active employees
    Months,
    Std,        \* the default row: present, weekly off on Sundays
    Values,     \* what a row can say, Std among them
    Missing,    \* no record, or nothing in the cache: neither a value nor a month
    Ways,       \* bound: the sets of ways of entry used in one session, "others"
                \* among them when handlers it does not wait for work too
    MaxCalls,   \* bound: mutations in flight
    MaxOthers   \* bound: handlers at work that the page does not wait for

VARIABLES
    view,       \* the page
    server      \* attendance-service: the status and the records of each month,
                \* and the handlers at work

vars == <<view, server>>

Blank == "blank"            \* a quick row nobody filled
Statuses == {"DRAFT", "VALIDATED", "LOCKED"}
Book == [Emps -> Values \cup {Missing}]
Row == [value : Values \cup {Blank}, dirty : BOOLEAN]

\* A mutation under way, one of a kind at a time: not read by the server yet, at
\* work there, or committed.
Kinds == {"grid", "quick", "upload", "lock", "unlock", "validate"}
Call == [kind : Kinds, month : Months, rows : Book,
         of : Months,               \* the month the rows were built for
         stage : {"sent", "working", "done"}]

\* A handler between its reads and its commit.
Handler == [kind : Kinds \cup {"manual"}, month : Months, rows : Book,
            read : Statuses,        \* the month's status, as it found it
            found : Book,           \* and the records it is to write
            waited : BOOLEAN]       \* the page waits for it, with its call of the kind

View == [ways : Ways,
         month : Months,
         tab : {"summary", "quick", "grid"},
         monthly : Book \cup {Missing},        \* query data for that month
         status : Statuses \cup {Missing},
         grid : [Emps -> Row], gridLoaded : BOOLEAN, gridOf : Months,
         quick : [Emps -> Row], quickLoaded : BOOLEAN, quickOf : Months,
         upload : Months \cup {Missing},    \* the month a workbook is parsed for
         dialog : {"none", "lock", "unlock", "validate", "preview"},
         calls : SUBSET Call]

TypeOK ==
    /\ view \in View
    /\ server \in [status : [Months -> Statuses], records : [Months -> Book],
                   handlers : SUBSET Handler]

NoBook == [e \in Emps |-> Missing]
NoRows == [e \in Emps |-> [value |-> Blank, dirty |-> FALSE]]

Init ==
    /\ \E w \in Ways, m \in Months :
         view = [ways |-> w, month |-> m, tab |-> "summary",
                 monthly |-> Missing, status |-> Missing,
                 grid |-> NoRows, gridLoaded |-> FALSE, gridOf |-> m,
                 quick |-> NoRows, quickLoaded |-> FALSE, quickOf |-> m,
                 upload |-> Missing,
                 dialog |-> "none", calls |-> {}]
    /\ \E b \in {NoBook, [e \in Emps |-> Std]} :
         server = [status |-> [n \in Months |-> "DRAFT"],
                   records |-> [n \in Months |-> b], handlers |-> {}]

-----------------------------------------------------------------------------
(* The page *)

\* The month shown is unlocked, or its status is not known yet ("DRAFT").
CanEdit == view.status # "LOCKED"

MonthlyRecords == IF view.monthly = Missing THEN NoBook ELSE view.monthly

Pending(kind) == \E c \in view.calls : c.kind = kind
Room == Cardinality(view.calls) < MaxCalls

\* buildGrid(): a row per employee, from the record the cache holds (clean) or,
\* where it holds none, the default days (dirty).
BuildGrid(v) ==
    [v EXCEPT !.grid = [e \in Emps |->
                          LET rec == MonthlyRecords[e] IN
                          IF rec # Missing THEN [value |-> rec, dirty |-> FALSE]
                                           ELSE [value |-> Std, dirty |-> TRUE]],
              !.gridLoaded = TRUE, !.gridOf = v.month]

\* buildQuick(): the same for the totals, blank where there is no record.
BuildQuick(v) ==
    [v EXCEPT !.quick = [e \in Emps |->
                           LET rec == MonthlyRecords[e] IN
                           [value |-> IF rec = Missing THEN Blank ELSE rec,
                            dirty |-> FALSE]],
              !.quickLoaded = TRUE, !.quickOf = v.month]

\* (Mutant: the grid stays with the rows it has.)
PickMonth_KeepsGrid(m) ==
    /\ m # view.month /\ view.dialog = "none"
    /\ view' = [view EXCEPT !.month = m, !.monthly = Missing, !.status = Missing]
    /\ UNCHANGED server

\* The month picker.  The grid's rows stay in memory, unseen, until they are
\* built again; the quick rows stay on screen.  What the cache still held of the
\* month picked is forgotten: it is asked for again.
PickMonth(m) ==
    /\ m # view.month /\ view.dialog = "none"
    /\ view' = [view EXCEPT !.month = m, !.gridLoaded = FALSE, !.grid = NoRows,
                            !.monthly = Missing, !.status = Missing]
    /\ UNCHANGED server

OpenTab(t) ==
    /\ view.dialog = "none" /\ t # view.tab /\ t \in view.ways \cup {"summary"}
    /\ LET v == [view EXCEPT !.tab = t]
       IN view' = IF t = "grid" /\ ~v.gridLoaded THEN BuildGrid(v)
                  ELSE IF t = "quick" /\ ~v.quickLoaded THEN BuildQuick(v)
                  ELSE v
    /\ UNCHANGED server

\* "Load grid", shown where the grid of a month just picked would be.
LoadGrid ==
    /\ view.tab = "grid" /\ ~view.gridLoaded /\ view.dialog = "none"
    /\ view' = BuildGrid(view)
    /\ UNCHANGED server

\* handleCellChange()
EditCell(e, x) ==
    /\ view.tab = "grid" /\ view.gridLoaded /\ view.dialog = "none" /\ CanEdit
    /\ view' = [view EXCEPT !.grid[e] = [value |-> x, dirty |-> TRUE]]
    /\ UNCHANGED server

EditQuick(e, x) ==
    /\ view.tab = "quick" /\ view.quickLoaded /\ view.dialog = "none" /\ CanEdit
    /\ view' = [view EXCEPT !.quick[e] = [value |-> x, dirty |-> TRUE]]
    /\ UNCHANGED server

\* The dirty rows; bulkUpsert is always sent for the month now picked.
DirtyRows(rows) == [e \in Emps |-> IF rows[e].dirty THEN rows[e].value ELSE Missing]
Send(kind, rows, of) ==
    [kind |-> kind, month |-> view.month, rows |-> rows, of |-> of, stage |-> "sent"]

\* saveAllDirty()
SaveGrid ==
    /\ view.tab = "grid" /\ view.gridLoaded /\ view.dialog = "none" /\ CanEdit
    /\ ~Pending("grid") /\ Room
    /\ \E e \in Emps : view.grid[e].dirty
    /\ view' = [view EXCEPT !.calls =
                  @ \cup {Send("grid", DirtyRows(view.grid), view.gridOf)}]
    /\ UNCHANGED server

SaveQuick ==
    /\ view.tab = "quick" /\ view.dialog = "none" /\ CanEdit
    /\ ~Pending("quick") /\ Room
    /\ \E e \in Emps : view.quick[e].dirty
    /\ view' = [view EXCEPT !.calls =
                  @ \cup {Send("quick", DirtyRows(view.quick), view.quickOf)}]
    /\ UNCHANGED server

\* handleFileUpload(): the workbook is read and parsed for the month shown when
\* it was picked; the preview opens when that is done.
PickFile ==
    /\ view.dialog = "none" /\ CanEdit /\ "upload" \in view.ways
    /\ view' = [view EXCEPT !.upload = view.month]
    /\ UNCHANGED server

ParseFile ==
    /\ view.upload # Missing /\ view.dialog = "none"
    /\ view' = [view EXCEPT !.dialog = "preview"]
    /\ UNCHANGED server

\* The preview does not look at the month's status: the server does.
SaveUpload ==
    /\ view.dialog = "preview" /\ ~Pending("upload") /\ Room
    /\ \E rows \in Book \ {NoBook} :
         view' = [view EXCEPT !.calls = @ \cup {Send("upload", rows, view.upload)}]
    /\ UNCHANGED server

\* "Validate" for a draft, "Lock" for any month not locked, "Unlock" for admins.
Offered(d) ==
    CASE d = "validate" -> view.status \in {"DRAFT", Missing}
      [] d = "lock"     -> CanEdit
      [] d = "unlock"   -> ~CanEdit

Ask(d) ==
    /\ view.dialog = "none" /\ Offered(d)
    /\ view' = [view EXCEPT !.dialog = d]
    /\ UNCHANGED server

Close(v, d) == IF v.dialog = d THEN [v EXCEPT !.dialog = "none"] ELSE v

Cancel ==
    /\ view.dialog # "none"
    /\ view' = [Close(view, view.dialog) EXCEPT
                   !.upload = IF view.dialog = "preview" THEN Missing ELSE @]
    /\ UNCHANGED server

Confirm ==
    /\ view.dialog \in {"lock", "unlock", "validate"}
    /\ ~Pending(view.dialog) /\ Room
    /\ view' = [view EXCEPT !.calls = @ \cup {Send(view.dialog, NoBook, view.month)}]
    /\ UNCHANGED server

\* The queries of the month shown.
ReadMonthly ==
    /\ view' = [view EXCEPT !.monthly = server.records[view.month]]
    /\ UNCHANGED server
ReadStatus ==
    /\ view' = [view EXCEPT !.status = server.status[view.month]]
    /\ UNCHANGED server

-----------------------------------------------------------------------------
(* attendance-service *)

\* "DRAFT" is also a month that has no control row yet.
Allowed(kind, status) == kind = "unlock" <=> status = "LOCKED"

Opened(kind, m, rows, waited) ==
    [kind |-> kind, month |-> m, rows |-> rows, read |-> server.status[m],
     found |-> [e \in Emps |-> IF rows[e] = Missing THEN Missing ELSE server.records[m][e]],
     waited |-> waited]

\* A handler loads the month; it answers 409 where the status does not allow it.
Begin(c) ==
    /\ c \in view.calls /\ c.stage = "sent"
    /\ IF Allowed(c.kind, server.status[c.month])
       THEN /\ server' = [server EXCEPT !.handlers =
                            @ \cup {Opened(c.kind, c.month, c.rows, TRUE)}]
            /\ view' = [view EXCEPT !.calls =
                          (@ \ {c}) \cup {[c EXCEPT !.stage = "working"]}]
       ELSE view' = [view EXCEPT !.calls = @ \ {c}] /\ UNCHANGED server

Saves == {"grid", "quick", "upload", "manual"}      \* bulk_upsert(), upsert_manual()
OneRow(rows) == Cardinality({e \in Emps : rows[e] # Missing}) = 1

OtherRoom ==
    "others" \in view.ways /\ Cardinality({h \in server.handlers : ~h.waited}) < MaxOthers

\* Somebody else of the same company; upsert_manual() has no page of its own.
Colleague(kind, m, rows) ==
    /\ rows = NoBook <=> kind \notin Saves
    /\ kind = "manual" => OneRow(rows)
    /\ Allowed(kind, server.status[m]) /\ OtherRoom
    /\ server' = [server EXCEPT !.handlers = @ \cup {Opened(kind, m, rows, FALSE)}]
    /\ UNCHANGED view

\* (Mutant: an edit leaves the validation as it was.)
Resets_Never(h) == FALSE

\* "edit resets validation", of a month read as validated; a record that
\* upsert_manual() adds does not.  (A record added by somebody else since it was
\* looked for is either found after all, or the insert fails.)
Resets(h) ==
    /\ h.read = "VALIDATED"
    /\ h.kind = "manual" =>
         \E e \in Emps : h.rows[e] # Missing /\ server.records[h.month][e] # Missing

\* The status is written only by a handler that changes the one it read.
StatusAfter(h) ==
    CASE h.kind = "lock"     -> "LOCKED"
      [] h.kind = "unlock"   -> "DRAFT"
      [] h.kind = "validate" -> IF h.read = "VALIDATED" THEN server.status[h.month]
                                                        ELSE "VALIDATED"
      [] h.kind \in Saves    -> IF Resets(h) THEN "DRAFT" ELSE server.status[h.month]

\* The columns written are those that differ from the record as it was found: of
\* one changed in the meantime the two saves may leave a mixture.
BooksAfter(h) ==
    {b \in Book :
       \A e \in Emps :
         LET now == server.records[h.month][e] IN
         IF h.rows[e] = Missing THEN b[e] = now
         ELSE IF h.found[e] \in {now, Missing} THEN b[e] = h.rows[e]
         ELSE b[e] # Missing}

Commit(h) ==
    /\ h \in server.handlers
    /\ \E b \in BooksAfter(h) :
         server' = [server EXCEPT !.records[h.month] = b,
                                  !.status[h.month] = StatusAfter(h),
                                  !.handlers = @ \ {h}]
    /\ view' = [view EXCEPT !.calls =
                  {IF h.waited /\ c.kind = h.kind THEN [c EXCEPT !.stage = "done"] ELSE c
                     : c \in @}]

\* Rolled back: a deadlock, two who create the same row, a lost connection.
Fail(h) ==
    /\ h \in server.handlers
    /\ server' = [server EXCEPT !.handlers = @ \ {h}]
    /\ view' = [view EXCEPT !.calls = {c \in @ : ~(h.waited /\ c.kind = h.kind)}]

-----------------------------------------------------------------------------
(* Answers *)

Clean(rows) == [e \in Emps |-> [rows[e] EXCEPT !.dirty = FALSE]]

\* A save marks every row clean, also one edited since it was sent.
Succeed(v, kind) ==
    CASE kind = "grid"   -> [v EXCEPT !.grid = Clean(@)]
      [] kind = "quick"  -> [v EXCEPT !.quick = Clean(@)]
      [] kind = "upload" -> [Close(v, "preview") EXCEPT !.upload = Missing]
      [] OTHER           -> Close(v, kind)

\* onSuccess
Answer(c) ==
    /\ c \in view.calls /\ c.stage = "done"
    /\ view' = Succeed([view EXCEPT !.calls = @ \ {c}], c.kind)
    /\ UNCHANGED server

\* onError, of a request or an answer that is lost: a toast, and the button works
\* again.  A handler at work goes on.
Forget(c) ==
    /\ c \in view.calls
    /\ c.stage = "working" => OtherRoom
    /\ view' = [view EXCEPT !.calls = @ \ {c}]
    /\ server' = [server EXCEPT !.handlers =
                    {IF h.kind = c.kind THEN [h EXCEPT !.waited = FALSE] ELSE h : h \in @}]

-----------------------------------------------------------------------------
Next ==
    \/ \E m \in Months : PickMonth(m)
    \/ \E t \in {"summary", "quick", "grid"} : OpenTab(t)
    \/ \E e \in Emps, x \in Values : EditCell(e, x) \/ EditQuick(e, x)
    \/ LoadGrid \/ SaveGrid \/ SaveQuick \/ PickFile \/ ParseFile \/ SaveUpload
    \/ \E d \in {"lock", "unlock", "validate"} : Ask(d)
    \/ Cancel \/ Confirm \/ ReadMonthly \/ ReadStatus
    \/ \E c \in view.calls : Begin(c) \/ Answer(c) \/ Forget(c)
    \/ \E kind \in {"upload", "manual", "lock", "unlock", "validate"}, m \in Months,
          rows \in Book : Colleague(kind, m, rows)
    \/ \E h \in server.handlers : Commit(h) \/ Fail(h)

Spec == Init /\ [][Next]_vars

-----------------------------------------------------------------------------
(* Properties *)

\* The rows of the grid are only ever saved into the month they were built for
\* (defaults differ by month, and so do the records they came from).
GridSavesItsOwnMonth ==
    \A c \in view.calls : c.kind = "grid" => c.of = c.month

\* The same of quick entry, whose rows are "[seeded] from what is already saved
\* so re-opening the tab shows the real state".
QuickSavesItsOwnMonth ==
    \A c \in view.calls : c.kind = "quick" => c.of = c.month

\* Who was done in this step, and who of them had read the month's status before it
\* became what it is.
Done(m) == {h \in server.handlers \ server'.handlers : h.month = m}
Overtaken(m) == \E h \in Done(m) : h.read # server.status[m]

\* A record upsert_manual() adds to a validated month.
Added(m, e) ==
    /\ server.status[m] = "VALIDATED" /\ server.records[m][e] = Missing
    /\ \E h \in Done(m) : h.kind = "manual"

Frozen(m) ==
    /\ \/ server'.status[m] # server.status[m]
       \/ \A e \in Emps : server'.records[m][e] = server.records[m][e] \/ Added(m, e)
    /\ \/ server.status[m] # "LOCKED"
       \/ server'.status[m] = "LOCKED"
       \/ \E h \in Done(m) : h.kind = "unlock"

MonthsAreFrozen ==
    \A m \in Months :
      server.status[m] \in {"VALIDATED", "LOCKED"} => Frozen(m) \/ Overtaken(m)

\* While a month stays validated or locked its records do not change, and only an
\* unlock ends a lock ("Block writes on locked month", "edit resets validation"):
\* but for handlers that read the status before it was set, and for the record
\* upsert_manual() adds to a validated month.
SettledMonthIsFrozen == [][MonthsAreFrozen]_vars

=============================================================================
