----------------------------- MODULE CycleDesk -----------------------------
(***************************************************************************)
(* The payroll desk of the console: the list of cycles, the page of one   *)
(* cycle and the statutory registers, over the query cache they share,    *)
(* and the cycle as payroll-service keeps it (the statuses of CycleStates; *)
(* LOCKED is never committed).  One cycle is followed.                     *)
(*                                                                         *)
(* The cache is the difficulty.  A fetch is answered by the server at one  *)
(* moment and arrives at a later one; an invalidation marks an entry stale *)
(* and restarts its fetch only when a mounted page shows it and it has been *)
(* read before, so a first fetch, and one of a page left behind, still      *)
(* arrives, and then counts as fresh.                                       *)
(***************************************************************************)
EXTENDS Naturals, FiniteSets, CycleStates

CONSTANTS
    Missing,    \* nothing in the cache, or no fetch under way
    Tours,      \* bound: the sets of pages a user moves between in one session
    MaxFlights  \* bound: fetches under way, beside one of the cycle

VARIABLES
    view,
    server      \* the status of the cycle in payroll-service

vars == <<view, server>>

Pages == {"list", "detail", "registers"}
Kinds == {"create", "run", "import", "approve", "delete"}

\* The query keys ["cycles"], ["cycle", id], ["cycle", id, "summary"], and that of
\* the registers, ["compliance", id].
Keys == {"cycles", "cycle", "summary", "registers"}
Row == (Status \cup Absent) \ {"LOCKED"}
Listed == {"none", "open", "paid"}      \* the cycle on the list
Cache == [cycles : Listed \cup {Missing}, cycle : Row \cup {Missing},
          summary : {"before", "since", Missing},
          registers : {"known", "after", Missing}]     \* before and after the deletion

View == [tour : Tours, page : Pages,
         dialog : {"none", "new", "delete", "import"},
         polling : BOOLEAN,
         cache : Cache, stale : SUBSET Keys, flights : Cache,
         call : [kind : Kinds, stage : {"sent", "working", "done"}] \cup {Missing},
         heard : BOOLEAN,       \* its last run was answered and the page stays
         forgot : BOOLEAN]      \* a deletion was heard of

TypeOK ==
    /\ view \in View
    /\ server \in Row

Empty == [k \in Keys |-> Missing]

Init ==
    /\ \E t \in Tours :
       view = [tour |-> t, page |-> "list", dialog |-> "none", polling |-> FALSE,
               cache |-> Empty, stale |-> {}, flights |-> Empty,
               call |-> Missing, heard |-> FALSE, forgot |-> FALSE]
    /\ server = "NONE"

-----------------------------------------------------------------------------
(* The query cache *)

\* (Mutant: a cycle is polled only while it is locked.)
Working_Locked == {"LOCKED"}

Working == {"COMPUTING", "LOCKED"}
Exists(s) == s \notin Absent

\* The queries mounted and enabled: the registers choose their cycle from the
\* list, the detail page asks for results once there can be some.
Observed(v) ==
    CASE v.page = "list" -> {"cycles"}
      [] v.page = "detail" ->
           {"cycle"} \cup (IF v.cache.cycle \notin {Missing, "DRAFT", "LOCKED"}
                           THEN {"summary"} ELSE {})
      [] v.page = "registers" ->
           {"cycles"} \cup (IF v.cache.cycles \in {"open", "paid"}
                            THEN {"registers"} ELSE {})

\* (Mutant: only for itself.)
Prefixed_Exact(keys) == keys

\* invalidateQueries(): a key stands for every key it is a prefix of.  A fetch under
\* way is cancelled if the query is mounted and has data; a first fetch is kept.
Prefixed(keys) == keys \cup (IF "cycle" \in keys THEN {"summary"} ELSE {})
Held(v, keys) == {k \in Prefixed(keys) : v.cache[k] # Missing}
Invalidate(v, keys) ==
    [v EXCEPT !.stale = @ \cup Held(v, keys),
              !.flights = [k \in Keys |->
                  IF k \in Held(v, keys) \cap Observed(v) THEN Missing ELSE @[k]]]

\* What the servers answer.  payroll-service has a 404 for a cycle that is gone, and
\* the data stays; compliance-service answers with the rows there are, now none.
Read(k) ==
    CASE k = "cycles"  -> IF ~Exists(server) THEN "none"
                         ELSE IF server = "DISBURSED" THEN "paid" ELSE "open"
      [] k = "cycle"   -> server
      [] k = "summary" -> "since"
      [] OTHER         -> IF Exists(server) THEN "known" ELSE "after"

\* A mounted query that has nothing, something stale, or an interval to poll by.
Ask(k) ==
    /\ k \in Observed(view) /\ view.flights[k] = Missing
    /\ \/ k = "cycle"
       \/ Cardinality({j \in Keys \ {"cycle"} : view.flights[j] # Missing}) < MaxFlights
    /\ \/ view.cache[k] = Missing
       \/ k \in view.stale
       \/ k = "cycle" /\ view.polling
    /\ k \in {"cycles", "registers"} \/ Exists(server)
    /\ view' = [view EXCEPT !.flights[k] = Read(k)]
    /\ UNCHANGED server

\* The effect on the status: poll while the cycle is computing.
Polls(old, new, polling) ==
    IF new # old THEN new \in Working ELSE polling

Arrive(k) ==
    /\ view.flights[k] # Missing
    /\ view' = [view EXCEPT
                  !.cache[k] = view.flights[k], !.flights[k] = Missing,
                  !.stale = @ \ {k},
                  !.polling = IF k = "cycle" /\ view.page = "detail"
                              THEN Polls(view.cache.cycle, view.flights[k], @)
                              ELSE @]
    /\ UNCHANGED server

\* Another page; what it shows may have aged past its stale time meanwhile.
Opened(v, p) ==
    [v EXCEPT !.page = p, !.dialog = "none", !.heard = FALSE,
              !.polling = p = "detail" /\ v.cache.cycle \in Working]

Open(p) ==
    /\ p # view.page /\ p \in view.tour
    /\ p = "detail" => view.cache.cycles \in {"open", "paid"}
    /\ \E aged \in {{}, {k \in Keys : view.cache[k] # Missing}} :
         view' = Opened([view EXCEPT !.stale = @ \cup aged], p)
    /\ UNCHANGED server

-----------------------------------------------------------------------------
(* What the pages send.  Bound: one request of this console under way. *)

Send(kind) == /\ view.call = Missing
              /\ view' = [view EXCEPT !.call = [kind |-> kind, stage |-> "sent"]]

\* The request under way has come that far.
At(kind, stage) == view.call = [kind |-> kind, stage |-> stage]

\* "New cycle", in a dialog; an overlapping period is only warned about.
Create ==
    /\ view.page = "list" /\ view.dialog = "new" /\ "detail" \in view.tour
    /\ Send("create") /\ UNCHANGED server

\* canRun; the readiness list advises and blocks nothing.
CanRun == view.page = "detail" /\ view.cache.cycle \in Runnable

Run == CanRun /\ view.dialog = "none" /\ Send("run") /\ UNCHANGED server

ImportRegister ==
    /\ view.page = "detail" /\ view.dialog = "import"
    /\ Send("import") /\ UNCHANGED server

Approve ==
    /\ view.page = "detail" /\ view.dialog = "none"
    /\ view.cache.cycle = "COMPUTED"
    /\ Send("approve") /\ UNCHANGED server

Delete ==
    /\ view.page = "list" /\ view.dialog = "delete"
    /\ Send("delete") /\ UNCHANGED server

Dialog ==
    /\ \/ view.dialog = "none" /\ view.page = "list"
          /\ \/ view' = [view EXCEPT !.dialog = "new"]
             \/ /\ view.cache.cycles = "open"
                /\ view' = [view EXCEPT !.dialog = "delete"]
       \/ view.dialog = "none" /\ CanRun /\ view' = [view EXCEPT !.dialog = "import"]
       \/ view.dialog # "none" /\ view' = [view EXCEPT !.dialog = "none"]
    /\ UNCHANGED server

-----------------------------------------------------------------------------
(* payroll-service *)

\* A request starts: 409 when the status does not allow it.
Starts(kind) ==
    CASE kind = "create"          -> server = "NONE"
      [] kind \in {"run", "import"} -> server \in Runnable
      [] kind = "approve"         -> server = "COMPUTED"
      [] kind = "delete"          -> Exists(server) /\ server # "DISBURSED"

Started(kind) ==
    CASE kind = "create"  -> "DRAFT"
      [] kind = "approve" -> "APPROVED"
      [] kind = "delete"  -> "DELETED"
      [] OTHER            -> "COMPUTING"

Handle(kind) ==
    /\ At(kind, "sent") /\ Starts(kind)
    /\ server' = Started(kind)
    /\ view' = [view EXCEPT !.call.stage =
                  IF kind \in {"create", "delete"} THEN "done" ELSE "working"]

\* The other users of the company.
Colleague(kind) ==
    /\ Starts(kind)
    /\ server' = Started(kind)
    /\ UNCHANGED view

\* What was read of the results, or is on its way, is from before the last run
\* of this console.
Outdated(c) == [c EXCEPT !.summary = IF @ = Missing THEN Missing ELSE "before"]

\* A run, its own or a colleague's, ends with results or without.
RunEnds ==
    /\ server = "COMPUTING"
    /\ server' \in {"COMPUTED", "FAILED"}
    /\ view' = IF At("run", "working") \/ At("import", "working")
               THEN [view EXCEPT !.call.stage = "done", !.cache = Outdated(@),
                                 !.flights = Outdated(@), !.heard = FALSE]
               ELSE view

\* Everyone is paid.
ApprovalEnds ==
    /\ server = "APPROVED" /\ server' = "DISBURSED"
    /\ view' = IF At("approve", "working") THEN [view EXCEPT !.call.stage = "done"]
                                            ELSE view

-----------------------------------------------------------------------------
(* Answers *)

OnDetail(v, v2) == IF v.page = "detail" THEN v2 ELSE v

\* (Mutant: deleting refreshes the list alone.)
Affects_ListOnly(kind) ==
    CASE kind \in {"create", "delete"} -> {"cycles"}
      [] kind = "run"                  -> {"cycle"}
      [] OTHER                         -> {"cycle", "cycles"}

\* The keys each of the five mutations invalidates.
Affects(kind) ==
    CASE kind = "create" -> {"cycles"}
      [] kind = "run"    -> {"cycle"}
      [] kind = "delete" -> {"cycles", "registers"}
      [] OTHER           -> {"cycle", "cycles"}

\* No fetch is under way of the entry as it was, or one that will be cancelled.
NoneLeft(v, k, old) ==
    v.flights[k] # old \/ (k \in Observed(v) /\ v.cache[k] # Missing)

\* Their onSuccess.  It runs although the page that sent the request is gone: a
\* cycle created is opened from wherever the user now is.
Succeed(v, kind) ==
    LET w == Invalidate(v, Affects(kind))
        heard == NoneLeft(v, "summary", "before")
    IN CASE kind = "create"  -> Opened(w, "detail")
         [] kind = "run"     -> OnDetail(w, [w EXCEPT !.polling = TRUE, !.heard = heard])
         [] kind = "import"  -> OnDetail(w, [w EXCEPT !.heard = heard])
         [] kind = "approve" -> w
         [] kind = "delete"  -> [w EXCEPT !.dialog = IF @ = "delete" THEN "none" ELSE @,
                                          !.forgot = NoneLeft(v, "registers", "known")]

Answer(kind) ==
    /\ At(kind, "done")
    /\ view' = Succeed([view EXCEPT !.call = Missing], kind)
    /\ UNCHANGED server

\* onError: refused, cut off at any stage, or failed; run and approve look again.
Fail(kind) ==
    /\ \E stage \in {"sent", "working", "done"} : At(kind, stage)
    /\ LET v == [view EXCEPT !.call = Missing]
       IN view' = IF kind \in {"run", "approve"} THEN Invalidate(v, {"cycle"}) ELSE v
    /\ UNCHANGED server

-----------------------------------------------------------------------------
Next ==
    \/ \E k \in Keys : Ask(k) \/ Arrive(k)
    \/ \E p \in Pages : Open(p)
    \/ Create \/ Run \/ ImportRegister \/ Approve \/ Delete \/ Dialog
    \/ \E kind \in Kinds : Handle(kind) \/ Colleague(kind) \/ Answer(kind) \/ Fail(kind)
    \/ RunEnds \/ ApprovalEnds

\* The interval fires again and again, a fetch is answered, and a run ends
\* (PayrollCycle!ComputingEnds).
Fairness == /\ WF_vars(Ask("cycle")) /\ WF_vars(Arrive("cycle"))
            /\ WF_vars(RunEnds)

Spec == Init /\ [][Next]_vars /\ Fairness

-----------------------------------------------------------------------------
(* Properties *)

\* Whoever ran the cycle, or imported its register, from its page and stays there is
\* not shown results from before that run as current: the answer invalidates them by
\* the prefix of their key, and cancels their fetch.  (Not if nothing had been read of
\* them yet and their first fetch was under way: that one is kept, and is taken for
\* current although it was answered before.)
OwnRunIsShown ==
    view.heard /\ "summary" \notin view.stale => view.cache.summary # "before"

\* "The compliance registers and the ESIC/ECR panels read this cycle too, so their
\* caches go with it": what they showed of a deleted cycle is not taken for current
\* again, only what is read after it (unless a fetch of a page left behind, or a
\* first one, was under way: nothing cancels those).
DeletedIsForgotten ==
    view.forgot => "registers" \in view.stale \/ view.cache.registers # "known"

Settled == server # "COMPUTING" /\ Exists(server)
ComputingShown == view.page = "detail" /\ view.cache.cycle = "COMPUTING"

\* Once nobody runs the cycle any more, a page that shows it computing stops doing
\* so (or is left), whoever's run it was and whenever the page was opened.  (When
\* the cycle is deleted under the page, a poll is answered 404 and it never does.)
ComputingIsLeft == <>[]Settled => []<>~ComputingShown

=============================================================================
