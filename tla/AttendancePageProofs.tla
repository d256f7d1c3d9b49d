------------------------ MODULE AttendancePageProofs ------------------------
(***************************************************************************)
(* The attendance page for any employees, months and values: its typing,   *)
(* that the grid saves into the month it was built for, and that only a    *)
(* handler overtaken by a lock or a validation changes what they settled.  *)
(* The first two go together: that no blank row is sent, and that a        *)
(* workbook is saved for some month, are what the typing of a call rests   *)
(* on.  The last rests on what a handler at work has read and may do.      *)
(***************************************************************************)
EXTENDS AttendancePage, TLAPS

Server == [status : [Months -> Statuses], records : [Months -> Book],
           handlers : SUBSET Handler]

\* What an edit leaves in a row to be sent is a value.
Sendable(rows) == \A e \in Emps : rows[e].dirty => rows[e].value \in Values

\* What is saved has rows of its month; nothing else has rows.
CallInv(c) ==
    /\ c.kind = "grid" => c.of = c.month
    /\ c.kind \notin Saves => c.rows = NoBook

\* A handler at work was allowed to by what it read.
HandlerInv(h) ==
    /\ Allowed(h.kind, h.read)
    /\ h.kind \notin Saves => h.rows = NoBook

ViewInv(v) ==
    /\ v \in View
    /\ v.dialog = "preview" => v.upload \in Months
    /\ v.gridLoaded => v.gridOf = v.month
    /\ Sendable(v.grid) /\ Sendable(v.quick)
    /\ \A c \in v.calls : CallInv(c)

ServerInv(s) == s \in Server /\ \A h \in s.handlers : HandlerInv(h)

PageInv == ViewInv(view) /\ ServerInv(server)

-----------------------------------------------------------------------------
(* Rows and calls *)

LEMMA MonthlyRecordsType ==
  ASSUME view \in View PROVE MonthlyRecords \in Book
  BY DEF MonthlyRecords, View, NoBook, Book

LEMMA BuildGridInv ==
  ASSUME Std \in Values, NEW v, ViewInv(v), view \in View PROVE ViewInv(BuildGrid(v))
<1> DEFINE g == [e \in Emps |->
                   LET rec == MonthlyRecords[e] IN
                   IF rec # Missing THEN [value |-> rec, dirty |-> FALSE]
                                    ELSE [value |-> Std, dirty |-> TRUE]]
           r == [v EXCEPT !.grid = g, !.gridLoaded = TRUE, !.gridOf = v.month]
<1>1. \A e \in Emps : MonthlyRecords[e] \in Values \cup {Missing}
  BY MonthlyRecordsType DEF Book
<1> HIDE DEF MonthlyRecords
<1>2. g \in [Emps -> Row]
  BY <1>1 DEF Row
<1>3. Sendable(g)
  BY DEF Sendable
<1>4. BuildGrid(v) = r
  BY DEF BuildGrid
<1> HIDE DEF g
<1>5. /\ r \in View
      /\ r.grid = g /\ r.gridOf = r.month /\ r.dialog = v.dialog
      /\ r.upload = v.upload /\ r.quick = v.quick /\ r.calls = v.calls
  BY <1>2 DEF ViewInv, View
<1> HIDE DEF r
<1> QED
  BY <1>3, <1>4, <1>5 DEF ViewInv

LEMMA BuildQuickInv ==
  ASSUME NEW v, ViewInv(v), view \in View PROVE ViewInv(BuildQuick(v))
<1> DEFINE q == [e \in Emps |->
                   LET rec == MonthlyRecords[e] IN
                   [value |-> IF rec = Missing THEN Blank ELSE rec, dirty |-> FALSE]]
           r == [v EXCEPT !.quick = q, !.quickLoaded = TRUE, !.quickOf = v.month]
<1>1. \A e \in Emps : MonthlyRecords[e] \in Values \cup {Missing}
  BY MonthlyRecordsType DEF Book
<1>2. q \in [Emps -> Row]
  BY <1>1 DEF Row
<1>3. Sendable(q)
  BY DEF Sendable
<1>4. BuildQuick(v) = r
  BY DEF BuildQuick
<1> HIDE DEF q
<1>5. /\ r \in View
      /\ r.grid = v.grid /\ r.gridOf = v.gridOf /\ r.month = v.month
      /\ r.gridLoaded = v.gridLoaded /\ r.dialog = v.dialog
      /\ r.upload = v.upload /\ r.quick = q /\ r.calls = v.calls
  BY <1>2 DEF ViewInv, View
<1> HIDE DEF r
<1> QED
  BY <1>3, <1>4, <1>5 DEF ViewInv

\* The rows of an edit are values, or are not sent.
LEMMA DirtyRowsType ==
  ASSUME NEW rows \in [Emps -> Row], Sendable(rows) PROVE DirtyRows(rows) \in Book
  BY DEF DirtyRows, Book, Sendable, Row

LEMMA EditType ==
  ASSUME NEW rows \in [Emps -> Row], Sendable(rows), NEW e \in Emps, NEW x \in Values
  PROVE  /\ [rows EXCEPT ![e] = [value |-> x, dirty |-> TRUE]] \in [Emps -> Row]
         /\ Sendable([rows EXCEPT ![e] = [value |-> x, dirty |-> TRUE]])
  BY DEF Row, Sendable

LEMMA CleanType ==
  ASSUME NEW rows \in [Emps -> Row]
  PROVE  Clean(rows) \in [Emps -> Row] /\ Sendable(Clean(rows))
  BY DEF Clean, Row, Sendable

\* A call joins those in flight.
LEMMA SendInv ==
  ASSUME ViewInv(view),
         NEW kind \in Kinds, NEW rows \in Book, NEW of \in Months,
         kind = "grid" => of = view.month, kind \notin Saves => rows = NoBook,
         view' = [view EXCEPT !.calls = @ \cup {Send(kind, rows, of)}]
  PROVE  ViewInv(view')
<1> DEFINE c == Send(kind, rows, of)
<1>1. c \in Call /\ CallInv(c)
  BY DEF Send, Call, CallInv, ViewInv, View
<1> HIDE DEF c
<1>2. /\ view' \in View
      /\ view'.calls = view.calls \cup {c}
      /\ view'.dialog = view.dialog /\ view'.upload = view.upload
      /\ view'.gridLoaded = view.gridLoaded /\ view'.gridOf = view.gridOf
      /\ view'.month = view.month /\ view'.grid = view.grid /\ view'.quick = view.quick
  <2> DEFINE r == [view EXCEPT !.calls = @ \cup {c}]
  <2>1. view' = r
    BY DEF c
  <2>2. /\ r \in View
        /\ r.calls = view.calls \cup {c}
        /\ r.dialog = view.dialog /\ r.upload = view.upload
        /\ r.gridLoaded = view.gridLoaded /\ r.gridOf = view.gridOf
        /\ r.month = view.month /\ r.grid = view.grid /\ r.quick = view.quick
    BY <1>1 DEF ViewInv, View
  <2> HIDE DEF r
  <2> QED
    BY <2>1, <2>2
<1> QED
  BY <1>1, <1>2 DEF ViewInv

\* A call is lost, or is handled.
LEMMA CallsInv ==
  ASSUME NEW v, ViewInv(v), NEW calls \in SUBSET Call, \A c \in calls : CallInv(c)
  PROVE  ViewInv([v EXCEPT !.calls = calls])
<1> DEFINE r == [v EXCEPT !.calls = calls]
<1>1. /\ r \in View /\ r.calls = calls
      /\ r.dialog = v.dialog /\ r.upload = v.upload
      /\ r.gridLoaded = v.gridLoaded /\ r.gridOf = v.gridOf
      /\ r.month = v.month /\ r.grid = v.grid /\ r.quick = v.quick
  BY DEF ViewInv, View
<1> HIDE DEF r
<1>2. ViewInv(r)
  BY <1>1 DEF ViewInv
<1> QED
  BY <1>2 DEF r

\* A dialog closes.
LEMMA CloseInv ==
  ASSUME NEW v, ViewInv(v), NEW d PROVE ViewInv(Close(v, d))
<1> DEFINE r == [v EXCEPT !.dialog = "none"]
<1>1. /\ r \in View /\ r.dialog = "none" /\ r.upload = v.upload
      /\ r.gridLoaded = v.gridLoaded /\ r.gridOf = v.gridOf
      /\ r.month = v.month /\ r.grid = v.grid /\ r.quick = v.quick /\ r.calls = v.calls
  BY DEF ViewInv, View
<1>2. Close(v, d) = r \/ Close(v, d) = v
  BY DEF Close
<1> HIDE DEF r
<1> QED
  BY <1>1, <1>2 DEF ViewInv

\* ... and with it what was going to be uploaded.
LEMMA NoUploadInv ==
  ASSUME NEW v, ViewInv(v), v.dialog # "preview", NEW u \in Months \cup {Missing}
  PROVE  ViewInv([v EXCEPT !.upload = u])
<1> DEFINE r == [v EXCEPT !.upload = u]
<1>1. /\ r \in View /\ r.dialog = v.dialog
      /\ r.gridLoaded = v.gridLoaded /\ r.gridOf = v.gridOf
      /\ r.month = v.month /\ r.grid = v.grid /\ r.quick = v.quick /\ r.calls = v.calls
  BY DEF ViewInv, View
<1> HIDE DEF r
<1>2. ViewInv(r)
  BY <1>1 DEF ViewInv
<1> QED
  BY <1>2 DEF r

-----------------------------------------------------------------------------
(* What the person in front of the page does *)

\* What there is to show of an action that leaves the server alone.
LEMMA ViewStep ==
  ASSUME PageInv, NEW r, ViewInv(r), view' = r, UNCHANGED server PROVE PageInv'
  BY DEF PageInv, ViewInv, ServerInv, Sendable

LEMMA MoveInv ==
  ASSUME Std \in Values, PageInv,
         \/ \E m \in Months : PickMonth(m)
         \/ \E t \in {"summary", "quick", "grid"} : OpenTab(t)
         \/ LoadGrid
  PROVE  PageInv'
<1>v. view \in View /\ ViewInv(view)
  BY DEF PageInv, ViewInv
<1>1. ASSUME NEW m \in Months, PickMonth(m) PROVE PageInv'
  <2> DEFINE r == [view EXCEPT !.month = m, !.gridLoaded = FALSE, !.grid = NoRows,
                               !.monthly = Missing, !.status = Missing]
  <2>1. NoRows \in [Emps -> Row] /\ Sendable(NoRows)
    BY DEF NoRows, Row, Sendable
  <2>2. /\ r \in View /\ r.gridLoaded = FALSE /\ r.grid = NoRows
        /\ r.dialog = view.dialog /\ r.upload = view.upload
        /\ r.quick = view.quick /\ r.calls = view.calls
    BY <1>v, <2>1 DEF View
  <2>3. view' = r /\ UNCHANGED server
    BY <1>1 DEF PickMonth
  <2> HIDE DEF r
  <2>4. ViewInv(r)
    BY <1>v, <2>1, <2>2 DEF ViewInv
  <2> QED
    BY <2>3, <2>4, ViewStep
<1>2. ASSUME NEW t \in {"summary", "quick", "grid"}, OpenTab(t) PROVE PageInv'
  <2> DEFINE r == [view EXCEPT !.tab = t]
  <2>1. /\ r \in View
        /\ r.dialog = view.dialog /\ r.upload = view.upload
        /\ r.gridLoaded = view.gridLoaded /\ r.gridOf = view.gridOf
        /\ r.month = view.month /\ r.grid = view.grid /\ r.quick = view.quick
        /\ r.calls = view.calls
    BY <1>v DEF View
  <2>2. /\ view' = BuildGrid(r) \/ view' = BuildQuick(r) \/ view' = r
        /\ UNCHANGED server
    BY <1>2 DEF OpenTab
  <2> HIDE DEF r
  <2>3. ViewInv(r)
    BY <1>v, <2>1 DEF ViewInv
  <2> QED
    BY <1>v, <2>2, <2>3, BuildGridInv, BuildQuickInv, ViewStep
<1>3. ASSUME LoadGrid PROVE PageInv'
  BY <1>3, <1>v, BuildGridInv, ViewStep DEF LoadGrid
<1> QED
  BY <1>1, <1>2, <1>3

LEMMA EditInv ==
  ASSUME PageInv, NEW e \in Emps, NEW x \in Values, EditCell(e, x) \/ EditQuick(e, x)
  PROVE  PageInv'
<1>v. view \in View /\ ViewInv(view)
  BY DEF PageInv, ViewInv
<1> DEFINE g == [view.grid EXCEPT ![e] = [value |-> x, dirty |-> TRUE]]
           q == [view.quick EXCEPT ![e] = [value |-> x, dirty |-> TRUE]]
<1>1. CASE EditCell(e, x)
  <2> DEFINE r == [view EXCEPT !.grid = g]
  <2>1. view' = r /\ UNCHANGED server
    BY <1>1 DEF EditCell
  <2>2. g \in [Emps -> Row] /\ Sendable(g)
    BY <1>v, EditType DEF ViewInv, View
  <2> HIDE DEF g
  <2>3. /\ r \in View /\ r.grid = g
        /\ r.dialog = view.dialog /\ r.upload = view.upload
        /\ r.gridLoaded = view.gridLoaded /\ r.gridOf = view.gridOf
        /\ r.month = view.month /\ r.quick = view.quick /\ r.calls = view.calls
    BY <1>v, <2>2 DEF View
  <2> HIDE DEF r
  <2>4. ViewInv(r)
    BY <1>v, <2>2, <2>3 DEF ViewInv
  <2> QED
    BY <2>1, <2>4, ViewStep
<1>2. CASE EditQuick(e, x)
  <2> DEFINE r == [view EXCEPT !.quick = q]
  <2>1. view' = r /\ UNCHANGED server
    BY <1>2 DEF EditQuick
  <2>2. q \in [Emps -> Row] /\ Sendable(q)
    BY <1>v, EditType DEF ViewInv, View
  <2> HIDE DEF q
  <2>3. /\ r \in View /\ r.quick = q
        /\ r.dialog = view.dialog /\ r.upload = view.upload
        /\ r.gridLoaded = view.gridLoaded /\ r.gridOf = view.gridOf
        /\ r.month = view.month /\ r.grid = view.grid /\ r.calls = view.calls
    BY <1>v, <2>2 DEF View
  <2> HIDE DEF r
  <2>4. ViewInv(r)
    BY <1>v, <2>2, <2>3 DEF ViewInv
  <2> QED
    BY <2>1, <2>4, ViewStep
<1> QED
  BY <1>1, <1>2

LEMMA SaveInv ==
  ASSUME PageInv, SaveGrid \/ SaveQuick \/ SaveUpload \/ Confirm PROVE PageInv'
<1>v. /\ view \in View /\ ViewInv(view) /\ ServerInv(server)
      /\ view.grid \in [Emps -> Row] /\ view.quick \in [Emps -> Row]
      /\ view.month \in Months /\ view.quickOf \in Months
  BY DEF PageInv, ViewInv, View
<1>1. ASSUME SaveGrid PROVE PageInv'
  BY <1>1, <1>v, DirtyRowsType, SendInv DEF SaveGrid, PageInv, ViewInv, Kinds, Saves
<1>2. ASSUME SaveQuick PROVE PageInv'
  BY <1>2, <1>v, DirtyRowsType, SendInv DEF SaveQuick, PageInv, ViewInv, Kinds, Saves
<1>3. ASSUME SaveUpload PROVE PageInv'
  BY <1>3, <1>v, SendInv DEF SaveUpload, PageInv, ViewInv, Kinds, Saves
<1>4. ASSUME Confirm PROVE PageInv'
  <2>1. NoBook \in Book
    BY DEF NoBook, Book
  <2> QED
    BY <1>4, <1>v, <2>1, SendInv DEF Confirm, PageInv, Kinds
<1> QED
  BY <1>1, <1>2, <1>3, <1>4

LEMMA DialogInv ==
  ASSUME PageInv,
         \/ PickFile \/ ParseFile \/ Cancel
         \/ \E d \in {"lock", "unlock", "validate"} : Ask(d)
  PROVE  PageInv'
<1>v. view \in View /\ ViewInv(view) /\ view.month \in Months
  BY DEF PageInv, ViewInv, View
<1>1. ASSUME PickFile PROVE PageInv'
  <2>1. ViewInv([view EXCEPT !.upload = view.month])
    BY <1>1, <1>v, NoUploadInv DEF PickFile
  <2> QED
    BY <1>1, <2>1, ViewStep DEF PickFile
<1>2. ASSUME NEW d \in {"preview", "lock", "unlock", "validate"},
             d = "preview" => view.upload # Missing,
             view' = [view EXCEPT !.dialog = d], UNCHANGED server
      PROVE  PageInv'
  <2> DEFINE r == [view EXCEPT !.dialog = d]
  <2>1. /\ r \in View /\ r.dialog = d /\ r.upload = view.upload
        /\ r.gridLoaded = view.gridLoaded /\ r.gridOf = view.gridOf
        /\ r.month = view.month /\ r.grid = view.grid /\ r.quick = view.quick
        /\ r.calls = view.calls
    BY <1>v DEF View
  <2>2. view.upload \in Months \cup {Missing}
    BY <1>v DEF View
  <2> HIDE DEF r
  <2>3. ViewInv(r)
    BY <1>2, <1>v, <2>1, <2>2 DEF ViewInv
  <2> QED
    BY <1>2, <2>3, ViewStep DEF r
<1>3. ASSUME Cancel PROVE PageInv'
  <2> DEFINE v == Close(view, view.dialog)
             u == IF view.dialog = "preview" THEN Missing ELSE v.upload
  <2>1. ViewInv(v)
    BY <1>v, CloseInv
  <2>2. v.dialog # "preview" /\ v.upload \in Months \cup {Missing}
    BY <1>v DEF Close, View
  <2>3. view' = [v EXCEPT !.upload = u] /\ UNCHANGED server
    BY <1>3 DEF Cancel
  <2>4. ViewInv([v EXCEPT !.upload = u])
    <3> HIDE DEF v
    <3> QED
      BY <2>1, <2>2, NoUploadInv
  <2> HIDE DEF v, u
  <2> QED
    BY <2>3, <2>4, ViewStep
<1> QED
  BY <1>1, <1>2, <1>3 DEF ParseFile, Ask

LEMMA ReadInv == ASSUME PageInv, ReadMonthly \/ ReadStatus PROVE PageInv'
<1>v. view \in View /\ ViewInv(view)
  BY DEF PageInv, ViewInv
<1>1. /\ server.records[view.month] \in Book
      /\ server.status[view.month] \in Statuses
  BY <1>v DEF PageInv, ServerInv, Server, View
<1> DEFINE r == [view EXCEPT !.monthly = server.records[view.month]]
           s == [view EXCEPT !.status = server.status[view.month]]
<1>2. /\ r \in View /\ r.dialog = view.dialog /\ r.upload = view.upload
      /\ r.gridLoaded = view.gridLoaded /\ r.gridOf = view.gridOf
      /\ r.month = view.month /\ r.grid = view.grid /\ r.quick = view.quick
      /\ r.calls = view.calls
  BY <1>v, <1>1 DEF View
<1>3. /\ s \in View /\ s.dialog = view.dialog /\ s.upload = view.upload
      /\ s.gridLoaded = view.gridLoaded /\ s.gridOf = view.gridOf
      /\ s.month = view.month /\ s.grid = view.grid /\ s.quick = view.quick
      /\ s.calls = view.calls
  BY <1>v, <1>1 DEF View
<1>4. (view' = r \/ view' = s) /\ UNCHANGED server
  BY DEF ReadMonthly, ReadStatus
<1> HIDE DEF r, s
<1>5. ViewInv(r) /\ ViewInv(s)
  BY <1>v, <1>2, <1>3 DEF ViewInv
<1> QED
  BY <1>4, <1>5, ViewStep

-----------------------------------------------------------------------------
(* attendance-service, and its answers *)

\* Calls and handlers that only change their stage.
LEMMA StageType ==
  ASSUME NEW c \in Call, CallInv(c), NEW x \in {"sent", "working", "done"}
  PROVE  [c EXCEPT !.stage = x] \in Call /\ CallInv([c EXCEPT !.stage = x])
  BY DEF Call, CallInv

LEMMA WaitedType ==
  ASSUME NEW h \in Handler, HandlerInv(h), NEW x \in BOOLEAN
  PROVE  [h EXCEPT !.waited = x] \in Handler /\ HandlerInv([h EXCEPT !.waited = x])
<1> DEFINE g == [h EXCEPT !.waited = x]
<1>1. g \in Handler /\ g.kind = h.kind /\ g.read = h.read /\ g.rows = h.rows
  BY DEF Handler
<1> HIDE DEF g
<1>2. HandlerInv(g)
  BY <1>1 DEF HandlerInv
<1> QED
  BY <1>1, <1>2 DEF g

\* A handler that starts.
LEMMA OpenedType ==
  ASSUME ServerInv(server), NEW kind \in Kinds \cup {"manual"}, NEW m \in Months,
         NEW rows \in Book, NEW w \in BOOLEAN, Allowed(kind, server.status[m]),
         kind \notin Saves => rows = NoBook
  PROVE  LET h == Opened(kind, m, rows, w) IN h \in Handler /\ HandlerInv(h)
<1> DEFINE f == [e \in Emps |-> IF rows[e] = Missing THEN Missing ELSE server.records[m][e]]
<1>1. server.status[m] \in Statuses /\ server.records[m] \in Book
  BY DEF ServerInv, Server
<1>2. f \in Book
  BY <1>1 DEF Book
<1> QED
  BY <1>1, <1>2 DEF Opened, Handler, HandlerInv

LEMMA HandlersInv ==
  ASSUME ServerInv(server), NEW hs \in SUBSET Handler, \A h \in hs : HandlerInv(h)
  PROVE  LET s == [server EXCEPT !.handlers = hs]
         IN ServerInv(s) /\ s.status = server.status /\ s.records = server.records
  BY DEF ServerInv, Server

\* Where statuses and records stay, nothing settled is changed.
LEMMA SettledStays ==
  ASSUME server'.status = server.status, server'.records = server.records
  PROVE  MonthsAreFrozen
  BY DEF MonthsAreFrozen, Frozen

LEMMA BeginStep == ASSUME PageInv, NEW c, Begin(c) PROVE PageInv' /\ MonthsAreFrozen
<1>v. /\ view \in View /\ ViewInv(view) /\ ServerInv(server) /\ server.handlers \subseteq Handler
      /\ view.calls \in SUBSET Call /\ c \in Call /\ c \in view.calls /\ CallInv(c)
      /\ c.kind \in Kinds /\ c.month \in Months /\ c.rows \in Book
  BY DEF PageInv, ViewInv, View, Begin, Call, ServerInv, Server
<1>1. CASE Allowed(c.kind, server.status[c.month])
  <2> DEFINE d == [c EXCEPT !.stage = "working"]
             calls == (view.calls \ {c}) \cup {d}
             h == Opened(c.kind, c.month, c.rows, TRUE)
             hs == server.handlers \cup {h}
  <2>1. view' = [view EXCEPT !.calls = calls] /\ server' = [server EXCEPT !.handlers = hs]
    BY <1>1 DEF Begin
  <2>2. d \in Call /\ CallInv(d)
    BY <1>v, StageType
  <2>3. h \in Handler /\ HandlerInv(h)
    BY <1>1, <1>v, OpenedType DEF CallInv
  <2> HIDE DEF d, h
  <2>4. calls \in SUBSET Call /\ \A k \in calls : CallInv(k)
    BY <1>v, <2>2 DEF ViewInv
  <2>5. hs \in SUBSET Handler /\ \A k \in hs : HandlerInv(k)
    BY <1>v, <2>3 DEF ServerInv
  <2> HIDE DEF calls, hs
  <2>6. ViewInv(view')
    BY <1>v, <2>1, <2>4, CallsInv
  <2> QED
    BY <1>v, <2>1, <2>5, <2>6, HandlersInv, SettledStays
    DEF PageInv, ServerInv, ViewInv, Sendable
<1>2. CASE ~Allowed(c.kind, server.status[c.month])
  <2>1. view' = [view EXCEPT !.calls = @ \ {c}] /\ UNCHANGED server
    BY <1>2 DEF Begin
  <2>2. ViewInv([view EXCEPT !.calls = view.calls \ {c}])
    BY <1>v, CallsInv DEF ViewInv
  <2> QED
    BY <2>1, <2>2, ViewStep, SettledStays
<1> QED
  BY <1>1, <1>2

LEMMA ColleagueStep ==
  ASSUME PageInv, NEW kind \in {"upload", "manual", "lock", "unlock", "validate"},
         NEW m \in Months, NEW rows \in Book, Colleague(kind, m, rows)
  PROVE  PageInv' /\ MonthsAreFrozen
<1> DEFINE h == Opened(kind, m, rows, FALSE)
           hs == server.handlers \cup {h}
<1>1. /\ server' = [server EXCEPT !.handlers = hs] /\ UNCHANGED view
      /\ Allowed(kind, server.status[m]) /\ (kind \notin Saves => rows = NoBook)
  BY DEF Colleague
<1>2. ServerInv(server) /\ server.handlers \subseteq Handler
  BY DEF PageInv, ServerInv, Server
<1>3. h \in Handler /\ HandlerInv(h)
  BY <1>1, <1>2, OpenedType DEF Kinds
<1> HIDE DEF h
<1>4. hs \in SUBSET Handler /\ \A k \in hs : HandlerInv(k)
  BY <1>2, <1>3 DEF ServerInv
<1> HIDE DEF hs
<1> QED
  BY <1>1, <1>2, <1>4, HandlersInv, SettledStays DEF PageInv, ServerInv, ViewInv, Sendable

\* What a commit makes of the months.
LEMMA CommitIs ==
  ASSUME ServerInv(server), NEW h \in server.handlers, NEW b \in BooksAfter(h),
         server' = [server EXCEPT !.records[h.month] = b,
                                  !.status[h.month] = StatusAfter(h),
                                  !.handlers = @ \ {h}]
  PROVE  /\ ServerInv(server')
         /\ h.month \in Months
         /\ server'.status[h.month] = StatusAfter(h)
         /\ server'.records[h.month] = b
         /\ \A m \in Months : m # h.month => /\ server'.status[m] = server.status[m]
                                             /\ server'.records[m] = server.records[m]
         /\ h \in Done(h.month)
<1>1. /\ h \in Handler /\ h.month \in Months /\ b \in Book
      /\ server \in Server /\ server.status[h.month] \in Statuses
  BY DEF ServerInv, Server, Handler, BooksAfter
<1>2. StatusAfter(h) \in Statuses
  BY <1>1 DEF StatusAfter, Statuses, Saves, Handler, Kinds
<1> DEFINE x == StatusAfter(h)
           s == [server EXCEPT !.records[h.month] = b, !.status[h.month] = x,
                               !.handlers = server.handlers \ {h}]
<1>3. server' = s
  OBVIOUS
<1> HIDE DEF x
<1>4. /\ s \in Server /\ s.handlers = server.handlers \ {h}
      /\ s.status[h.month] = x /\ s.records[h.month] = b
      /\ \A m \in Months : m # h.month => /\ s.status[m] = server.status[m]
                                          /\ s.records[m] = server.records[m]
  BY <1>1, <1>2 DEF Server, x
<1> HIDE DEF s
<1> QED
  BY <1>1, <1>3, <1>4 DEF ServerInv, Done, x

LEMMA CommitStep == ASSUME PageInv, NEW h, Commit(h) PROVE PageInv' /\ MonthsAreFrozen
<1>v. /\ view \in View /\ ViewInv(view) /\ ServerInv(server)
      /\ view.calls \in SUBSET Call
      /\ h \in server.handlers /\ h \in Handler /\ HandlerInv(h)
  BY DEF PageInv, ViewInv, View, Commit, ServerInv, Server
<1> PICK b \in BooksAfter(h) :
      server' = [server EXCEPT !.records[h.month] = b, !.status[h.month] = StatusAfter(h),
                               !.handlers = @ \ {h}]
  BY DEF Commit
<1>1. /\ ServerInv(server') /\ h.month \in Months
      /\ server'.status[h.month] = StatusAfter(h)
      /\ server'.records[h.month] = b
      /\ \A m \in Months : m # h.month => /\ server'.status[m] = server.status[m]
                                          /\ server'.records[m] = server.records[m]
      /\ h \in Done(h.month)
  BY <1>v, CommitIs
<1>2. ViewInv(view')
  <2> DEFINE next(c) == IF h.waited /\ c.kind = h.kind THEN [c EXCEPT !.stage = "done"] ELSE c
             calls == {next(c) : c \in view.calls}
  <2>1. \A c \in view.calls : next(c) \in Call /\ CallInv(next(c))
    BY <1>v, StageType DEF ViewInv
  <2>2. view' = [view EXCEPT !.calls = calls]
    BY DEF Commit
  <2> HIDE DEF next
  <2>3. calls \in SUBSET Call /\ \A k \in calls : CallInv(k)
    BY <2>1
  <2> HIDE DEF calls
  <2> QED
    BY <1>v, <2>2, <2>3, CallsInv
<1>3. ASSUME NEW m \in Months, server.status[m] \in {"VALIDATED", "LOCKED"}, ~Overtaken(m)
      PROVE  Frozen(m)
  <2>1. CASE m # h.month
    BY <1>1, <2>1 DEF Frozen
  <2>2. CASE m = h.month
    <3>1. h.read = server.status[m] /\ h \in Done(m)
      BY <1>1, <1>3, <2>2 DEF Overtaken
    <3>2. CASE server.status[m] = "LOCKED"
      <4>1. h.kind = "unlock" /\ server'.status[m] = "DRAFT"
        <5>1. h.kind = "unlock"
          BY <1>v, <3>1, <3>2 DEF HandlerInv, Allowed
        <5>2. StatusAfter(h) = "DRAFT"
          BY <5>1 DEF StatusAfter, Saves
        <5> QED
          BY <1>1, <2>2, <5>1, <5>2
      <4> QED
        BY <3>1, <3>2, <4>1 DEF Frozen
    <3>3. CASE server.status[m] = "VALIDATED"
      <4>1. CASE h.kind \notin Saves
        <5>1. \A e \in Emps : h.rows[e] = Missing
          BY <1>v, <4>1 DEF HandlerInv, NoBook
        <5>2. \A e \in Emps : b[e] = server.records[m][e]
          BY <2>2, <5>1 DEF BooksAfter
        <5> QED
          BY <1>1, <2>2, <3>3, <5>2 DEF Frozen
      <4>2. CASE h.kind \in Saves /\ Resets(h)
        <5>1. server'.status[m] = "DRAFT"
          BY <1>1, <2>2, <4>2 DEF StatusAfter, Saves
        <5> QED
          BY <3>3, <5>1 DEF Frozen
      <4>3. CASE h.kind \in Saves /\ ~Resets(h)
        <5>1. h.kind = "manual" /\ \A e \in Emps :
                h.rows[e] # Missing => server.records[m][e] = Missing
          BY <2>2, <3>1, <3>3, <4>3 DEF Resets
        <5>2. \A e \in Emps : b[e] = server.records[m][e] \/ Added(m, e)
          BY <2>2, <3>1, <3>3, <5>1 DEF BooksAfter, Added
        <5> QED
          BY <1>1, <2>2, <3>3, <5>2 DEF Frozen
      <4> QED
        BY <4>1, <4>2, <4>3
    <3> QED
      BY <1>3, <3>2, <3>3
  <2> QED
    BY <2>1, <2>2
<1> QED
  BY <1>1, <1>2, <1>3 DEF PageInv, ServerInv, ViewInv, Sendable, MonthsAreFrozen

\* Whoever waited for a handler that failed, or gave up on one at work.
LEMMA LostStep ==
  ASSUME PageInv, (\E h \in server.handlers : Fail(h)) \/ (\E c \in view.calls : Forget(c))
  PROVE  PageInv' /\ MonthsAreFrozen
<1>v. /\ view \in View /\ ViewInv(view) /\ ServerInv(server)
      /\ view.calls \in SUBSET Call /\ server.handlers \subseteq Handler
  BY DEF PageInv, ViewInv, View, ServerInv, Server
<1>1. ASSUME NEW calls \in SUBSET view.calls, NEW hs \in SUBSET Handler,
             \A k \in hs : HandlerInv(k),
             view' = [view EXCEPT !.calls = calls],
             server' = [server EXCEPT !.handlers = hs]
      PROVE  PageInv' /\ MonthsAreFrozen
  <2>1. ViewInv(view')
    BY <1>1, <1>v, CallsInv DEF ViewInv
  <2> QED
    BY <1>1, <1>v, <2>1, HandlersInv, SettledStays DEF PageInv, ServerInv, ViewInv, Sendable
<1>2. ASSUME NEW h \in server.handlers, Fail(h) PROVE PageInv' /\ MonthsAreFrozen
  <2> DEFINE calls == {c \in view.calls : ~(h.waited /\ c.kind = h.kind)}
             hs == server.handlers \ {h}
  <2>1. /\ view' = [view EXCEPT !.calls = calls]
        /\ server' = [server EXCEPT !.handlers = hs]
    BY <1>2 DEF Fail
  <2>2. calls \in SUBSET view.calls /\ hs \in SUBSET Handler /\ \A k \in hs : HandlerInv(k)
    BY <1>v DEF ServerInv
  <2> HIDE DEF calls, hs
  <2> QED
    BY <1>1, <2>1, <2>2
<1>3. ASSUME NEW c \in view.calls, Forget(c) PROVE PageInv' /\ MonthsAreFrozen
  <2> DEFINE next(h) == IF h.kind = c.kind THEN [h EXCEPT !.waited = FALSE] ELSE h
             hs == {next(h) : h \in server.handlers}
             calls == view.calls \ {c}
  <2>1. /\ view' = [view EXCEPT !.calls = calls]
        /\ server' = [server EXCEPT !.handlers = hs]
    BY <1>3 DEF Forget
  <2>2. \A h \in server.handlers : next(h) \in Handler /\ HandlerInv(next(h))
    BY <1>v, WaitedType DEF ServerInv
  <2> HIDE DEF next
  <2>3. calls \in SUBSET view.calls /\ hs \in SUBSET Handler /\ \A k \in hs : HandlerInv(k)
    BY <2>2
  <2> HIDE DEF calls, hs
  <2> QED
    BY <1>1, <2>1, <2>3
<1> QED
  BY <1>2, <1>3

LEMMA AnswerInv == ASSUME PageInv, NEW c, Answer(c) PROVE PageInv'
<1> DEFINE v == [view EXCEPT !.calls = view.calls \ {c}]
<1>v. view \in View /\ ViewInv(view) /\ c \in Call
  BY DEF PageInv, ViewInv, View, Answer
<1>1. ViewInv(v)
  BY <1>v, CallsInv DEF ViewInv, View
<1>2. view' = Succeed(v, c.kind) /\ UNCHANGED server
  BY DEF Answer
<1> HIDE DEF v
<1>3. ViewInv(Succeed(v, c.kind))
  <2>1. CASE c.kind = "grid"
    <3> DEFINE g == Clean(v.grid)
               r == [v EXCEPT !.grid = g]
    <3>1. g \in [Emps -> Row] /\ Sendable(g)
      BY <1>1, CleanType DEF ViewInv, View
    <3>2. Succeed(v, c.kind) = r
      BY <2>1 DEF Succeed
    <3> HIDE DEF g
    <3>3. /\ r \in View /\ r.grid = g /\ r.dialog = v.dialog /\ r.upload = v.upload
          /\ r.gridLoaded = v.gridLoaded /\ r.gridOf = v.gridOf
          /\ r.month = v.month /\ r.quick = v.quick /\ r.calls = v.calls
      BY <1>1, <3>1 DEF ViewInv, View
    <3> HIDE DEF r
    <3> QED
      BY <1>1, <3>1, <3>2, <3>3 DEF ViewInv
  <2>2. CASE c.kind = "quick"
    <3> DEFINE q == Clean(v.quick)
               r == [v EXCEPT !.quick = q]
    <3>1. q \in [Emps -> Row] /\ Sendable(q)
      BY <1>1, CleanType DEF ViewInv, View
    <3>2. Succeed(v, c.kind) = r
      BY <2>2 DEF Succeed
    <3> HIDE DEF q
    <3>3. /\ r \in View /\ r.quick = q /\ r.dialog = v.dialog /\ r.upload = v.upload
          /\ r.gridLoaded = v.gridLoaded /\ r.gridOf = v.gridOf
          /\ r.month = v.month /\ r.grid = v.grid /\ r.calls = v.calls
      BY <1>1, <3>1 DEF ViewInv, View
    <3> HIDE DEF r
    <3> QED
      BY <1>1, <3>1, <3>2, <3>3 DEF ViewInv
  <2>3. CASE c.kind = "upload"
    <3> DEFINE w == Close(v, "preview")
    <3>1. ViewInv(w)
      BY <1>1, CloseInv
    <3>2. w.dialog # "preview"
      BY <1>1 DEF Close, ViewInv, View
    <3>3. Succeed(v, c.kind) = [w EXCEPT !.upload = Missing]
      BY <2>3 DEF Succeed
    <3> HIDE DEF w
    <3> QED
      BY <3>1, <3>2, <3>3, NoUploadInv
  <2>4. CASE c.kind \notin {"grid", "quick", "upload"}
    BY <1>1, <2>4, CloseInv DEF Succeed
  <2> QED
    BY <2>1, <2>2, <2>3, <2>4
<1> QED
  BY <1>1, <1>2, <1>3, ViewStep

-----------------------------------------------------------------------------
(* Theorems *)

LEMMA PageStep ==
  ASSUME Std \in Values, PageInv, [Next]_vars PROVE PageInv' /\ MonthsAreFrozen
<1>1. CASE UNCHANGED vars
  BY <1>1 DEF vars, PageInv, ViewInv, ServerInv, Sendable, MonthsAreFrozen, Frozen
<1>2. ASSUME NEW c, Begin(c) PROVE PageInv' /\ MonthsAreFrozen
  BY <1>2, BeginStep
<1>3. ASSUME NEW kind \in {"upload", "manual", "lock", "unlock", "validate"},
             NEW m \in Months, NEW rows \in Book, Colleague(kind, m, rows)
      PROVE  PageInv' /\ MonthsAreFrozen
  BY <1>3, ColleagueStep
<1>4. ASSUME NEW c, Answer(c) PROVE PageInv' /\ MonthsAreFrozen
  BY <1>4, AnswerInv DEF Answer, MonthsAreFrozen, Frozen
<1>10. ASSUME NEW h, Commit(h) PROVE PageInv' /\ MonthsAreFrozen
  BY <1>10, CommitStep
<1>11. CASE (\E h \in server.handlers : Fail(h)) \/ (\E c \in view.calls : Forget(c))
  BY <1>11, LostStep
<1>5. CASE \/ \E m \in Months : PickMonth(m)
           \/ \E t \in {"summary", "quick", "grid"} : OpenTab(t)
           \/ LoadGrid
  BY <1>5, MoveInv DEF PickMonth, OpenTab, LoadGrid, MonthsAreFrozen, Frozen
<1>6. CASE \E e \in Emps, x \in Values : EditCell(e, x) \/ EditQuick(e, x)
  BY <1>6, EditInv DEF EditCell, EditQuick, MonthsAreFrozen, Frozen
<1>7. CASE SaveGrid \/ SaveQuick \/ SaveUpload \/ Confirm
  BY <1>7, SaveInv DEF SaveGrid, SaveQuick, SaveUpload, Confirm, MonthsAreFrozen, Frozen
<1>8. CASE \/ PickFile \/ ParseFile \/ Cancel
           \/ \E d \in {"lock", "unlock", "validate"} : Ask(d)
  BY <1>8, DialogInv DEF PickFile, ParseFile, Cancel, Ask, MonthsAreFrozen, Frozen
<1>9. CASE ReadMonthly \/ ReadStatus
  BY <1>9, ReadInv DEF ReadMonthly, ReadStatus, MonthsAreFrozen, Frozen
<1> QED
  BY <1>1, <1>2, <1>3, <1>4, <1>5, <1>6, <1>7, <1>8, <1>9, <1>10, <1>11 DEF Next

LEMMA PageInit == ASSUME Std \in Values, Init PROVE PageInv
<1>1. /\ NoRows \in [Emps -> Row] /\ Sendable(NoRows)
      /\ NoBook \in Book /\ [e \in Emps |-> Std] \in Book
  BY DEF NoRows, Row, Sendable, NoBook, Book
<1>2. PICK w \in Ways, m \in Months :
        view = [ways |-> w, month |-> m, tab |-> "summary",
               monthly |-> Missing, status |-> Missing,
               grid |-> NoRows, gridLoaded |-> FALSE, gridOf |-> m,
               quick |-> NoRows, quickLoaded |-> FALSE, quickOf |-> m,
               upload |-> Missing,
               dialog |-> "none", calls |-> {}]
  BY DEF Init
<1>3. ViewInv(view)
  BY <1>1, <1>2 DEF ViewInv, View
<1>4. ServerInv(server)
  BY <1>1 DEF Init, ServerInv, Server, Statuses
<1> QED
  BY <1>3, <1>4 DEF PageInv

LEMMA PageIsEnough == ASSUME PageInv PROVE TypeOK /\ GridSavesItsOwnMonth
  BY DEF PageInv, ViewInv, ServerInv, CallInv, TypeOK, Server, GridSavesItsOwnMonth

LEMMA PageAlways ==
  ASSUME Std \in Values PROVE Spec => []PageInv /\ [][MonthsAreFrozen]_vars
<1>1. Init => PageInv
  BY PageInit
<1>2. PageInv /\ [Next]_vars => PageInv' /\ MonthsAreFrozen
  BY PageStep
<1> QED
  BY <1>1, <1>2, PTL DEF Spec

\* The page and the service are well typed: no row nobody filled is ever sent, and
\* nothing is sent for a month the page does not know.
THEOREM AttendanceTyping ==
  ASSUME Std \in Values PROVE Spec => []TypeOK
<1>1. PageInv => TypeOK
  BY PageIsEnough
<1> QED
  BY <1>1, PageAlways, PTL

\* Whatever months are picked while the grid is being filled, saved or answered,
\* saveAllDirty() sends rows to the month they were built for (Attendance.tsx).
THEOREM GridMonth ==
  ASSUME Std \in Values PROVE Spec => []GridSavesItsOwnMonth
<1>1. PageInv => GridSavesItsOwnMonth
  BY PageIsEnough
<1> QED
  BY <1>1, PageAlways, PTL

\* Nobody but a handler that read the status before it was set changes the records
\* of a month that stays validated or locked, or ends a lock that nobody unlocks;
\* upsert_manual() alone adds to a validated one (attendance-service routes.py).
THEOREM FrozenMonth ==
  ASSUME Std \in Values PROVE Spec => SettledMonthIsFrozen
  BY PageAlways, PTL DEF SettledMonthIsFrozen

=============================================================================
