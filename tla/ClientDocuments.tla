-------------------------- MODULE ClientDocuments --------------------------
(***************************************************************************)
(* The documents of a client company: the panel on the client's page, the  *)
(* blobstore that takes the file and client-service that keeps the record. *)
(* An upload is two calls, one after the other, and nothing undoes the     *)
(* first when the second fails.  The list has one entry in the query       *)
(* cache, whatever category it was asked for.                              *)
(***************************************************************************)
EXTENDS Naturals, FiniteSets

CONSTANTS
    Categories,
    Missing,
    MaxFiles    \* bound: files stored

VARIABLES
    view,       \* the panel
    server      \* files: how many are stored; records: the documents listed

vars == <<view, server>>

Tabs == Categories \cup {"ALL"}
Record == [file : 1..MaxFiles, category : Categories,
           status : {"PENDING", "APPROVED", "REJECTED"}]

\* A decision sent for a document, and whether it has been taken down.
Decision == [file : 1..MaxFiles, status : {"APPROVED", "REJECTED"}, done : BOOLEAN]

View == [tab : Tabs, stale : BOOLEAN,
         list : (SUBSET Record) \cup {Missing},       \* what the cache holds
         form : BOOLEAN, picked : BOOLEAN, category : Categories,
         upload : [at : {"idle", "store", "stored", "record", "recorded"},
                   category : Categories \cup {Missing},
                   file : (1..MaxFiles) \cup {Missing}],
         review : Decision \cup {Missing}]

TypeOK ==
    /\ view \in View
    /\ server \in [files : 0..MaxFiles, records : SUBSET Record]

NoUpload == [at |-> "idle", category |-> Missing, file |-> Missing]

Init ==
    /\ \E c \in Categories :
         view = [tab |-> "ALL", stale |-> FALSE, list |-> Missing,
                 form |-> FALSE, picked |-> FALSE, category |-> c,
                 upload |-> NoUpload, review |-> Missing]
    /\ server = [files |-> 0, records |-> {}]

-----------------------------------------------------------------------------
(* The panel *)

\* The tab is not part of the query's key: what is shown stays until the entry
\* is invalidated (or the panel is opened again, after its stale time).
ChooseTab ==
    /\ \E t \in Tabs \ {view.tab}, aged \in BOOLEAN :
         view' = [view EXCEPT !.tab = t, !.stale = @ \/ aged]
    /\ UNCHANGED server

ReadList ==
    /\ view.list = Missing \/ view.stale
    /\ view' = [view EXCEPT !.stale = FALSE,
          !.list = {r \in server.records : view.tab \in {"ALL", r.category}}]
    /\ UNCHANGED server

\* "Upload document" opens and closes the form; what was filled in stays.
FillForm ==
    /\ \/ view' = [view EXCEPT !.form = ~@]
       \/ view.form /\ view' = [view EXCEPT !.picked = TRUE]
       \/ view.form /\ \E c \in Categories : view' = [view EXCEPT !.category = c]
    /\ UNCHANGED server

\* (Mutant: a file stored by an upload that failed is not stored again.)
Upload_ReusesFile ==
    /\ view.form /\ view.picked /\ view.upload.at = "idle"
    /\ view' = [view EXCEPT !.upload =
                  [at |-> IF server.files > 0 THEN "stored" ELSE "store",
                   category |-> view.category,
                   file |-> IF server.files > 0 THEN server.files ELSE Missing]]
    /\ UNCHANGED server

Upload ==
    /\ view.form /\ view.picked /\ view.upload.at = "idle"
    /\ view' = [view EXCEPT !.upload.at = "store", !.upload.category = view.category]
    /\ UNCHANGED server

\* The buttons of a pending document are never disabled.  (Bound: one decision
\* under way.)
Decide(r) ==
    /\ r.status = "PENDING" /\ view.review = Missing
    /\ \E d \in {"APPROVED", "REJECTED"} :
         view' = [view EXCEPT !.review = [file |-> r.file, status |-> d, done |-> FALSE]]
    /\ UNCHANGED server

-----------------------------------------------------------------------------
(* blobstore-service and client-service *)

\* POST /blobs/upload.
StoreFile ==
    /\ view.upload.at = "store" /\ server.files < MaxFiles
    /\ server' = [server EXCEPT !.files = @ + 1]
    /\ view' = [view EXCEPT !.upload.at = "stored", !.upload.file = server.files + 1]

\* createDocument() with the blob of the answer and the form as it was when Upload
\* was pressed.
SendRecord ==
    /\ view.upload.at = "stored" /\ view' = [view EXCEPT !.upload.at = "record"]
    /\ UNCHANGED server

\* upload_client_document()
CreateRecord ==
    /\ view.upload.at = "record"
    /\ server' = [server EXCEPT !.records =
          @ \cup {[file |-> view.upload.file, category |-> view.upload.category,
                   status |-> "PENDING"]}]
    /\ view' = [view EXCEPT !.upload.at = "recorded"]

\* verify_client_document() does not look at what was decided before.
Verify ==
    /\ view.review # Missing /\ ~view.review.done
    /\ server' = [server EXCEPT !.records =
          {IF r.file = view.review.file THEN [r EXCEPT !.status = view.review.status]
                                       ELSE r : r \in @}]
    /\ view' = [view EXCEPT !.review.done = TRUE]

\* Another administrator decides.
Colleague(r) ==
    /\ \E d \in {"APPROVED", "REJECTED"} :
         server' = [server EXCEPT !.records = (@ \ {r}) \cup {[r EXCEPT !.status = d]}]
    /\ UNCHANGED view

-----------------------------------------------------------------------------
(* Answers *)

\* onSuccess closes the form, and drops a file picked since.
Uploaded ==
    /\ view.upload.at = "recorded"
    /\ view' = [view EXCEPT !.upload = NoUpload, !.stale = TRUE,
                            !.form = FALSE, !.picked = FALSE]
    /\ UNCHANGED server

Verified ==
    /\ view.review # Missing /\ view.review.done
    /\ view' = [view EXCEPT !.review = Missing, !.stale = TRUE]
    /\ UNCHANGED server

\* Either call of the two, or the decision, fails or its answer is lost.
Fails ==
    /\ \/ view.upload.at # "idle" /\ view' = [view EXCEPT !.upload = NoUpload]
       \/ view.review # Missing /\ view' = [view EXCEPT !.review = Missing]
    /\ UNCHANGED server

Next ==
    \/ ChooseTab \/ ReadList \/ FillForm \/ Upload \/ StoreFile \/ SendRecord
    \/ CreateRecord \/ Verify \/ Uploaded \/ Verified \/ Fails
    \/ \E r \in server.records : Colleague(r)
    \/ view.list # Missing /\ \E r \in view.list : Decide(r)

Spec == Init /\ [][Next]_vars

-----------------------------------------------------------------------------
(* Properties *)

\* A document listed has a file that was stored, and one of its own, although the
\* two are written by two services, either call can fail with its work done, and
\* the user tries again from the same form.
RecordsHaveTheirFiles ==
    \A r \in server.records :
        /\ r.file <= server.files
        /\ \A q \in server.records : q.file = r.file => q = r

=============================================================================
