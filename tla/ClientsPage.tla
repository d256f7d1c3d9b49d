---------------------------- MODULE ClientsPage ----------------------------
(***************************************************************************)
(* The clients page: the form that adds or edits a client and its portal   *)
(* credentials, the drawer that shows one client and reveals a stored      *)
(* password for a while, and the archive and delete dialogs.               *)
(*                                                                         *)
(* Saving is one call for the client and then one for each portal with     *)
(* something typed in, in a fixed order; the first that fails stops it.    *)
(* Forms are numbered as they are opened.                                  *)
(***************************************************************************)
EXTENDS Naturals

CONSTANTS
    Clients,    \* the clients there are or can be: 1..n, in the order they are made
    Existing,   \* those on the books from the start
    Portals,    \* the portals in the order the form saves them: 1..n
    Missing,
    MaxForms,   \* bound: forms opened
    MaxFails,   \* bound: failed saves of one form, each of which may be tried again
    Seconds,    \* how long a password stays revealed (30)
    MaxActs,    \* bound: clients archived, restored or deleted
    Ways        \* bound: what is done beside the forms in one session

VARIABLES
    view,
    server

vars == <<view, server>>

Forms == 1..MaxForms
NoForm == 0
New == 0                \* in place of the one it is for, on a form that adds

Form == [of : Clients \cup {New}, typed : SUBSET Portals]

Save == [of : Clients \cup {New}, number : Forms, rest : SUBSET Portals,
         saved : Clients \cup {Missing}, stage : {"client", "portals", "done"}]

Act == [kind : {"archive", "unarchive", "delete"}, of : Clients, stage : {"sent", "done"}]

\* The reveal panel of the drawer: closed, asking, or counting down, and whether
\* its own request is out; the eye only masks what is revealed.
Panel == [open : BOOLEAN, asked : BOOLEAN, left : 0..Seconds, masked : BOOLEAN]

View == [ways : Ways, form : Form \cup {Missing}, opened : 0..MaxForms, save : Save \cup {Missing},
         fails : [Forms -> 0..MaxFails],
         detail : Clients \cup {Missing}, panel : Panel,
         confirm : [kind : {"archive", "delete"}, of : Clients] \cup {Missing},
         act : Act \cup {Missing}, acts : 0..MaxActs]

\* A client: the forms saved for it; for each portal the form its secret is from.
Server == [status : [Clients -> {"none", "ACTIVE", "ARCHIVED", "deleted"}],
           forms : [Clients -> SUBSET Forms],
           secret : [Clients -> [Portals -> Forms \cup {NoForm}]]]

TypeOK == view \in View /\ server \in Server

Closed == [open |-> FALSE, asked |-> FALSE, left |-> 0, masked |-> FALSE]

Init ==
    /\ \E ways \in Ways :
         view = [ways |-> ways, form |-> Missing, opened |-> 0, save |-> Missing,
                 fails |-> [n \in Forms |-> 0], detail |-> Missing, panel |-> Closed,
                 confirm |-> Missing, act |-> Missing, acts |-> 0]
    /\ server = [status |-> [c \in Clients |-> IF c \in Existing THEN "ACTIVE" ELSE "none"],
                 forms |-> [c \in Clients |-> {}],
                 secret |-> [c \in Clients |-> [p \in Portals |-> NoForm]]]

\* The form, the drawer and the dialogs each cover the page.
Free == view.form = Missing /\ view.detail = Missing /\ view.confirm = Missing

Shown == {c \in Clients : server.status[c] # "none"}

-----------------------------------------------------------------------------
(* The form *)

\* From the list or, the drawer closing, from the drawer; the credentials are not
\* among what the form is filled with.
OpenForm ==
    /\ view.form = Missing /\ view.confirm = Missing /\ view.opened < MaxForms
    /\ \E of \in Clients \cup {New} :
         /\ IF of = New THEN view.detail = Missing
            ELSE of \in Shown /\ view.detail \in {Missing, of}
         /\ view' = [view EXCEPT !.form = [of |-> of, typed |-> {}],
                                 !.opened = @ + 1, !.detail = Missing, !.panel = Closed]
    /\ UNCHANGED server

TypeCredential ==
    /\ view.form # Missing
    /\ \E p \in Portals \ view.form.typed :
         view' = [view EXCEPT !.form.typed = @ \cup {p}]
    /\ UNCHANGED server

CloseForm == /\ view.form # Missing
             /\ view' = [view EXCEPT !.form = Missing] /\ UNCHANGED server

\* The button is dead while this form saves; a form opened meanwhile is another
\* component (bound: one save under way on the page).
Submit ==
    /\ view.form # Missing /\ view.save = Missing
    /\ view' = [view EXCEPT !.save =
                  [of |-> view.form.of, number |-> view.opened,
                   rest |-> view.form.typed, saved |-> Missing, stage |-> "client"]]
    /\ UNCHANGED server

Stage(rest) == IF rest = {} THEN "done" ELSE "portals"

Unused == {c \in Clients : server.status[c] = "none"}
NewClient == IF Unused = {} THEN Missing
             ELSE CHOOSE c \in Unused : \A d \in Unused : c <= d

\* create_client(), update_client(): 404 for a client gone.  The form has no code to
\* type, the service generates one, so a form tried again makes another client.
WriteClient ==
    /\ view.save # Missing /\ view.save.stage = "client"
    /\ LET s == view.save
       IN \E c \in Clients :
            /\ IF s.of = New
               THEN c = NewClient
               ELSE c = s.of /\ server.status[c] # "deleted"
            /\ server' = [server EXCEPT
                            !.status[c] = IF s.of = New THEN "ACTIVE" ELSE @,
                            !.forms[c] = @ \cup {s.number}]
            /\ view' = [view EXCEPT !.save.saved = c, !.save.stage = Stage(s.rest)]

\* (Mutant: it is the client made last.)
Target_Newest(s) == CHOOSE c \in Shown : \A d \in Shown : d <= c

\* The client the secret goes to is the one the first call answered with.
Target(s) == s.saved

\* upsert_credential(), for the next portal.
WriteCredential ==
    /\ view.save # Missing /\ view.save.stage = "portals"
    /\ LET s == view.save
           p == CHOOSE q \in s.rest : \A r \in s.rest : q <= r
       IN /\ server.status[s.saved] # "deleted"
          /\ server' = [server EXCEPT !.secret[Target(s)][p] = s.number]
          /\ view' = [view EXCEPT !.save.rest = @ \ {p},
                                  !.save.stage = Stage(s.rest \ {p})]

\* onSuccess and onClose: the form open by now is closed, whoever's it is.
SaveSucceeds ==
    /\ view.save # Missing /\ view.save.stage = "done"
    /\ view' = [view EXCEPT !.save = Missing, !.form = Missing]
    /\ UNCHANGED server

SaveFails ==
    /\ view.save # Missing /\ view.fails[view.save.number] < MaxFails
    /\ view' = [view EXCEPT !.save = Missing, !.fails[view.save.number] = @ + 1]
    /\ UNCHANGED server

-----------------------------------------------------------------------------
(* The drawer and its reveal panel *)

OpenDrawer ==
    /\ "drawer" \in view.ways /\ Free
    /\ \E c \in Shown : view' = [view EXCEPT !.detail = c]
    /\ UNCHANGED server

\* Closing the drawer, or leaving its tab, takes the panel with it.
CloseDrawer ==
    /\ view.detail # Missing
    /\ \/ view' = [view EXCEPT !.detail = Missing, !.panel = Closed]
       \/ view.panel.open /\ view' = [view EXCEPT !.panel = Closed]
    /\ UNCHANGED server

\* The password as it stands is one press away; asking for it is written down.
OpenPanel ==
    /\ view.detail # Missing /\ ~view.panel.open
    /\ \E p \in Portals : server.secret[view.detail][p] # NoForm
    /\ view' = [view EXCEPT !.panel.open = TRUE]
    /\ UNCHANGED server

AskSecret ==
    /\ view.panel.open /\ ~view.panel.asked /\ view.panel.left = 0
    /\ view' = [view EXCEPT !.panel.asked = TRUE]
    /\ UNCHANGED server

\* An answer for a panel closed meanwhile finds nobody.
SecretArrives ==
    /\ view.panel.asked
    /\ \/ view' = [view EXCEPT !.panel = [@ EXCEPT !.asked = FALSE, !.left = Seconds]]
       \/ view' = [view EXCEPT !.panel.asked = FALSE]
    /\ UNCHANGED server

Mask ==
    /\ view.panel.left > 0
    /\ view' = [view EXCEPT !.panel.masked = ~@]
    /\ UNCHANGED server

\* (Mutant: it counts only while the password can be read.)
Counts_Unmasked(panel) == panel.left > 0 /\ ~panel.masked

\* The interval counts whether or not the password is masked.
Counts(panel) == panel.left > 0

Tick ==
    /\ Counts(view.panel)
    /\ view' = [view EXCEPT !.panel = IF @.left = 1 THEN Closed
                                      ELSE [@ EXCEPT !.left = view.panel.left - 1]]
    /\ UNCHANGED server

-----------------------------------------------------------------------------
(* Archive and delete *)

\* From the list or from the drawer, which closes.
AskConfirm ==
    /\ view.form = Missing /\ view.confirm = Missing
    /\ \E c \in Shown, kind \in view.ways \cap {"archive", "delete"} :
         /\ view.detail \in {Missing, c}
         /\ view' = [view EXCEPT !.confirm = [kind |-> kind, of |-> c],
                                 !.detail = Missing, !.panel = Closed]
    /\ UNCHANGED server

Dismiss ==
    /\ view.confirm # Missing /\ view' = [view EXCEPT !.confirm = Missing]
    /\ UNCHANGED server

\* Restoring an archived client asks nothing.  (Bound: one of the three at a time.)
SendAct ==
    /\ view.act = Missing /\ view.acts < MaxActs
    /\ \/ /\ view.confirm # Missing
          /\ view' = [view EXCEPT !.acts = @ + 1, !.act = [kind |-> view.confirm.kind,
                                           of |-> view.confirm.of, stage |-> "sent"]]
       \/ /\ Free
          /\ \E c \in {d \in Shown : server.status[d] = "ARCHIVED"} :
               view' = [view EXCEPT !.acts = @ + 1, !.act = [kind |-> "unarchive", of |-> c,
                                             stage |-> "sent"]]
    /\ UNCHANGED server

\* (Mutant: a deleted client is only marked.)
Becomes_Inactive(kind) == CASE kind = "archive"   -> "ARCHIVED"
                            [] kind = "unarchive" -> "ACTIVE"
                            [] kind = "delete"    -> "INACTIVE"

Becomes(kind) == CASE kind = "archive"   -> "ARCHIVED"
                   [] kind = "unarchive" -> "ACTIVE"
                   [] kind = "delete"    -> "deleted"

\* A client with employees is refused (any may have some).
HandleAct ==
    /\ view.act # Missing /\ view.act.stage = "sent"
    /\ server.status[view.act.of] # "deleted"
    /\ server' = [server EXCEPT
                    !.status[view.act.of] = Becomes(view.act.kind),
                    !.secret[view.act.of] = IF view.act.kind = "delete"
                                            THEN [p \in Portals |-> NoForm] ELSE @]
    /\ view' = [view EXCEPT !.act.stage = "done"]

ActEnds ==
    /\ view.act # Missing
    /\ \/ view' = [view EXCEPT !.act = Missing]
       \/ /\ view.act.stage = "done"
          /\ view' = [view EXCEPT !.act = Missing,
                        !.confirm = IF @ # Missing /\ @.kind = view.act.kind
                                    THEN Missing ELSE @]
    /\ UNCHANGED server

Next == \/ OpenForm \/ TypeCredential \/ CloseForm \/ Submit
        \/ WriteClient \/ WriteCredential \/ SaveSucceeds \/ SaveFails
        \/ OpenDrawer \/ CloseDrawer \/ OpenPanel \/ AskSecret \/ SecretArrives
        \/ Mask \/ Tick
        \/ AskConfirm \/ Dismiss \/ SendAct \/ HandleAct \/ ActEnds

\* The interval fires every second.
Fairness == WF_vars(Tick)

Spec == Init /\ [][Next]_vars /\ Fairness

-----------------------------------------------------------------------------
(* Properties *)

\* A portal's secret stored for a client was typed in a form saved for that client,
\* although forms are cancelled, fail half way and are closed by another's answer.
SecretsAsTyped ==
    \A c \in Clients, p \in Portals :
        server.secret[c][p] # NoForm => server.secret[c][p] \in server.forms[c]

Revealed == view.panel.left > 0

\* "Auto-hides": a revealed password does not stay, masked or not.
SecretIsHidden == Revealed ~> ~Revealed

=============================================================================
