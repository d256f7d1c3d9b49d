------------------------- MODULE EmployeeDocuments -------------------------
(***************************************************************************)
(* The documents of one employee: the panel on the employee's page and the *)
(* handlers of blobstore-service behind it.  A document has a slot (its    *)
(* category and label); a new upload to a slot replaces the version there. *)
(* An upload is three steps of the service: the current version is read,   *)
(* the bytes are stored, and one transaction retires the version read and  *)
(* inserts the new one, under a unique index of one current version a slot.*)
(***************************************************************************)
EXTENDS Naturals, FiniteSets

CONSTANTS
    Slots,
    Missing,
    Ways,       \* what a session does beside uploading: "review", "preview"
    MaxDocs,    \* bound: versions stored
    MaxCalls    \* bound: requests under way, of this panel and of others

VARIABLES
    view,       \* the panel
    server      \* blobstore-service: the versions, in order of upload

vars == <<view, server>>

Ids == 1..MaxDocs
Status == {"PENDING", "VERIFIED", "REJECTED"}

\* life: "stored" bytes without a row; then current, or retired by a newer
\* version, or removed by a user.
Doc == [slot : Slots, status : Status,
        life : {"stored", "current", "replaced", "removed"}]

\* A request under way; "over" are the versions an upload is going to retire.
Call == [kind : {"upload", "verify", "reject", "delete"}, mine : BOOLEAN,
         slot : Slots \cup {Missing}, doc : Ids \cup {Missing},
         over : SUBSET Ids, stage : {"sent", "stored", "done"}]

\* What a query answers for a version.
Shown == [doc : Ids, slot : Slots, status : Status]

View == [ways : Ways,
         list : SUBSET Shown, file : BOOLEAN, slot : Slots,
         rejecting : Ids \cup {Missing},
         opening : BOOLEAN, preview : BOOLEAN,
         calls : SUBSET Call]

TypeOK ==
    /\ view \in View
    /\ \E n \in 0..MaxDocs : server \in [1..n -> Doc]

Init ==
    /\ \E w \in Ways, s \in Slots :
         view = [ways |-> w, list |-> {}, file |-> FALSE, slot |-> s,
                 rejecting |-> Missing, opening |-> FALSE, preview |-> FALSE,
                 calls |-> {}]
    /\ server = [d \in {} |-> Missing]

-----------------------------------------------------------------------------
(* The panel *)

Current(s) == {d \in DOMAIN server : server[d].life = "current" /\ server[d].slot = s}

Pending(kinds) == \E c \in view.calls : c.mine /\ c.kind \in kinds
IsActing == Pending({"verify", "reject", "delete"})
Room == Cardinality(view.calls) < MaxCalls
Free == ~view.preview /\ view.rejecting = Missing
\* canManage: the user has a role that reviews.
MayReview == "review" \in view.ways /\ Free /\ ~IsActing

Call0(kind, mine) == [kind |-> kind, mine |-> mine, slot |-> Missing, doc |-> Missing,
                      over |-> {}, stage |-> "sent"]
Send(v, c) == [v EXCEPT !.calls = @ \cup {c}]

\* The list; the completion, statistics and history are read from the same rows.
ReadList ==
    /\ view' = [view EXCEPT !.list =
          {[doc |-> d, slot |-> server[d].slot, status |-> server[d].status] :
              d \in {d \in DOMAIN server : server[d].life = "current"}}]
    /\ UNCHANGED server

\* A file picked or dropped, a category and a label.
ChooseUpload ==
    /\ Free
    /\ \/ view' = [view EXCEPT !.file = TRUE]
       \/ \E s \in Slots : view' = [view EXCEPT !.slot = s]
    /\ UNCHANGED server

Upload ==
    /\ Free /\ view.file /\ ~Pending({"upload"}) /\ Room
    /\ view' = Send(view, [Call0("upload", TRUE) EXCEPT !.slot = view.slot])
    /\ UNCHANGED server

\* The buttons of a row: those a status leaves to do, one at a time.
Verify(r) ==
    /\ MayReview /\ r.status # "VERIFIED" /\ Room
    /\ view' = Send(view, [Call0("verify", TRUE) EXCEPT !.doc = r.doc])
    /\ UNCHANGED server

AskReject(r) ==
    /\ MayReview /\ r.status # "REJECTED"
    /\ view' = [view EXCEPT !.rejecting = r.doc]
    /\ UNCHANGED server

Reject ==
    /\ view.rejecting # Missing /\ ~Pending({"reject"}) /\ Room
    /\ view' = Send(view, [Call0("reject", TRUE) EXCEPT !.doc = view.rejecting])
    /\ UNCHANGED server

Delete(r) ==
    /\ MayReview /\ Room
    /\ view' = Send(view, [Call0("delete", TRUE) EXCEPT !.doc = r.doc])
    /\ UNCHANGED server

\* openPreview(): nothing stops a second one, or orders their answers (which of
\* the documents asked for is shown is left out).
OpenPreview ==
    /\ Free /\ "preview" \in view.ways /\ view.list # {}
    /\ view' = [view EXCEPT !.opening = TRUE]
    /\ UNCHANGED server

PreviewArrives ==
    /\ view.opening
    /\ \E more, shown \in BOOLEAN :
         view' = [view EXCEPT !.opening = more, !.preview = @ \/ shown]
    /\ UNCHANGED server

Close == /\ view' = [view EXCEPT !.preview = FALSE, !.rejecting = Missing]
         /\ UNCHANGED server

\* The same panel, before another user.
Others ==
    /\ Room
    /\ \/ \E s \in Slots : view' = Send(view, [Call0("upload", FALSE) EXCEPT !.slot = s])
       \/ \E d \in DOMAIN server :
            view' = Send(view, [Call0("delete", FALSE) EXCEPT !.doc = d])
    /\ UNCHANGED server

-----------------------------------------------------------------------------
(* blobstore-service *)

Step(c, d) == [view EXCEPT !.calls = (@ \ {c}) \cup {d}]

\* upload_employee_doc(): _supersede_previous() reads, then the bytes are stored.
Store(c) ==
    /\ c.kind = "upload" /\ c.stage = "sent" /\ Cardinality(DOMAIN server) < MaxDocs
    /\ LET n == Cardinality(DOMAIN server) + 1
       IN /\ server' = [d \in 1..n |->
                IF d = n THEN [slot |-> c.slot, status |-> "PENDING", life |-> "stored"]
                         ELSE server[d]]
          /\ view' = Step(c, [c EXCEPT !.stage = "stored", !.doc = n,
                                       !.over = Current(c.slot)])

\* The commit that retires the versions read and inserts the row.
Retire(s, over) == [d \in DOMAIN s |-> IF d \in over THEN [s[d] EXCEPT !.life = "replaced"]
                                                     ELSE s[d]]
\* (Mutant: there is no such index.)
Unique_Not(s, slot) == TRUE

\* uq_emp_active_document
Unique(s, slot) ==
    Cardinality({d \in DOMAIN s : s[d].life = "current" /\ s[d].slot = slot}) <= 1
Inserted(c) == [Retire(server, c.over) EXCEPT ![c.doc].life = "current"]

Commit(c) ==
    /\ c.kind = "upload" /\ c.stage = "stored"
    /\ Unique(Inserted(c), c.slot)
    /\ server' = Inserted(c)
    /\ view' = Step(c, [c EXCEPT !.stage = "done", !.over = {}])

\* verify_doc(), reject_doc(), delete_employee_doc(): 404 unless it is current.
Review(c) ==
    /\ c.kind # "upload" /\ c.stage = "sent"
    /\ server[c.doc].life = "current"
    /\ server' = CASE c.kind = "verify" -> [server EXCEPT ![c.doc].status = "VERIFIED"]
                   [] c.kind = "reject" -> [server EXCEPT ![c.doc].status = "REJECTED"]
                   [] c.kind = "delete" -> [server EXCEPT ![c.doc].life = "removed"]
    /\ view' = Step(c, [c EXCEPT !.stage = "done"])

-----------------------------------------------------------------------------
(* Answers *)

\* onSuccess; the queries are invalidated, ReadList follows.
Succeed(v, c) ==
    CASE c.mine /\ c.kind = "upload" -> [v EXCEPT !.file = FALSE]
      [] c.mine /\ c.kind = "reject" -> [v EXCEPT !.rejecting = Missing]
      [] OTHER -> v

\* Refused, failed or cut off at any stage, or done: a toast.
Answer(c) ==
    /\ LET v == [view EXCEPT !.calls = @ \ {c}]
       IN view' = v \/ (c.stage = "done" /\ view' = Succeed(v, c))
    /\ UNCHANGED server

Next ==
    \/ ReadList \/ ChooseUpload \/ Upload \/ Reject \/ Close \/ Others
    \/ \E r \in view.list : Verify(r) \/ AskReject(r) \/ Delete(r)
    \/ OpenPreview \/ PreviewArrives
    \/ \E c \in view.calls : Store(c) \/ Commit(c) \/ Review(c) \/ Answer(c)

Spec == Init /\ [][Next]_vars

-----------------------------------------------------------------------------
(* Properties *)

\* "Uploading the same document type replaces the previous version": a slot has
\* one current version, and a version is only retired when there is a newer one to
\* stand for it, whoever uploads meanwhile and wherever an upload is cut off.
VersionsReplaceEachOther ==
    /\ \A s \in Slots : Cardinality(Current(s)) <= 1
    /\ \A d \in DOMAIN server : server[d].life = "replaced" =>
         \E e \in DOMAIN server : /\ e # d /\ server[e].slot = server[d].slot
                                  /\ server[e].life # "stored"

=============================================================================
