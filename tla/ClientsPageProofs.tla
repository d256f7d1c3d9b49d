-------------------------- MODULE ClientsPageProofs --------------------------
(***************************************************************************)
(* The clients page for any clients, portals and numbers of forms,         *)
(* failures and seconds: no client holds a portal password typed for       *)
(* another.  The number of a form is taken into its save, is among those   *)
(* of the client the first call wrote from then on, and goes nowhere else. *)
(***************************************************************************)
EXTENDS ClientsPage, TLAPS

Bounds == /\ MaxForms \in Nat /\ MaxFails \in Nat
          /\ MaxActs \in Nat /\ Seconds \in Nat

\* An open form has a number.
FormInv(v) == v.form # Missing => v.opened \in Forms

\* A save past its first call has a client, which that form was saved for.
SaveInv(s, forms) ==
    s # Missing /\ s.stage # "client" =>
        s.saved \in Clients /\ s.number \in forms[s.saved]

PageInv ==
    /\ TypeOK
    /\ FormInv(view)
    /\ SaveInv(view.save, server.forms)
    /\ SecretsAsTyped

-----------------------------------------------------------------------------
(* The page alone *)

\* What there is to show of an action that leaves the servers alone.
LEMMA ViewStep ==
  ASSUME PageInv, NEW r \in View, FormInv(r), SaveInv(r.save, server.forms),
         view' = r, UNCHANGED server
  PROVE  PageInv'
  BY DEF PageInv, TypeOK, FormInv, SaveInv, SecretsAsTyped

\* The drawer, its panel and the dialogs have no part in it.
LEMMA AsideStep ==
  ASSUME PageInv, NEW r \in View, view' = r, UNCHANGED server,
         r.form = view.form, r.opened = view.opened, r.save = view.save
  PROVE  PageInv'
<1>1. FormInv(view) /\ SaveInv(view.save, server.forms)
  BY DEF PageInv
<1>. QED
  BY <1>1, ViewStep DEF FormInv

Dialog == [kind : {"archive", "delete"}, of : Clients] \cup {Missing}

LEMMA PanelTypes ==
  ASSUME Bounds, PageInv
  PROVE  /\ view \in View /\ Closed \in Panel /\ view.panel \in Panel
         /\ view.detail \in Clients \cup {Missing} /\ view.confirm \in Dialog
<1>v. view \in View /\ 0 \in 0..Seconds
  BY DEF PageInv, TypeOK, Bounds
<1>1. Closed \in Panel
  BY <1>v DEF Closed, Panel
<1>. QED
  BY <1>v, <1>1 DEF View, Dialog

LEMMA PanelStep ==
  ASSUME Bounds, PageInv, NEW p \in Panel, view' = [view EXCEPT !.panel = p],
         UNCHANGED server
  PROVE  PageInv'
<1>. DEFINE r == [view EXCEPT !.panel = p]
<1>1. r \in View /\ r.form = view.form /\ r.opened = view.opened /\ r.save = view.save
  BY PanelTypes DEF View
<1>. HIDE DEF r
<1>. QED
  BY <1>1, AsideStep DEF r

LEMMA DrawerStep ==
  ASSUME Bounds, PageInv, NEW d \in Clients \cup {Missing}, NEW p \in Panel,
         view' = [view EXCEPT !.detail = d, !.panel = p], UNCHANGED server
  PROVE  PageInv'
<1>. DEFINE r == [view EXCEPT !.detail = d, !.panel = p]
<1>1. r \in View /\ r.form = view.form /\ r.opened = view.opened /\ r.save = view.save
  BY PanelTypes DEF View
<1>. HIDE DEF r
<1>. QED
  BY <1>1, AsideStep DEF r

LEMMA DialogStep ==
  ASSUME Bounds, PageInv, NEW c \in Dialog, NEW d \in Clients \cup {Missing},
         NEW p \in Panel, view' = [view EXCEPT !.confirm = c, !.detail = d, !.panel = p],
         UNCHANGED server
  PROVE  PageInv'
<1>. DEFINE r == [view EXCEPT !.confirm = c, !.detail = d, !.panel = p]
<1>1. r \in View /\ r.form = view.form /\ r.opened = view.opened /\ r.save = view.save
  BY PanelTypes DEF View, Dialog
<1>. HIDE DEF r
<1>. QED
  BY <1>1, AsideStep DEF r

LEMMA PanelInv ==
  ASSUME Bounds, PageInv,
         \/ OpenDrawer \/ CloseDrawer \/ OpenPanel \/ AskSecret \/ SecretArrives
         \/ Mask \/ Tick \/ AskConfirm \/ Dismiss
  PROVE  PageInv'
<1>2. CASE OpenDrawer
  <2>1. PICK c \in Clients : view' = [view EXCEPT !.detail = c]
    BY <1>2 DEF OpenDrawer, Shown
  <2>. DEFINE r == [view EXCEPT !.detail = c]
  <2>2. r \in View /\ r.form = view.form /\ r.opened = view.opened /\ r.save = view.save
    BY PanelTypes DEF View
  <2>. HIDE DEF r
  <2>. QED
    BY <1>2, <2>1, <2>2, AsideStep DEF r, OpenDrawer
<1>3. CASE CloseDrawer
  <2>1. ASSUME view' = [view EXCEPT !.panel = Closed] PROVE PageInv'
    BY <1>3, <2>1, PanelTypes, PanelStep DEF CloseDrawer
  <2>2. ASSUME view' = [view EXCEPT !.detail = Missing, !.panel = Closed] PROVE PageInv'
    BY <1>3, <2>2, PanelTypes, DrawerStep DEF CloseDrawer
  <2>. QED
    BY <1>3, <2>1, <2>2 DEF CloseDrawer
<1>4. CASE OpenPanel
  <2>. DEFINE p == [view.panel EXCEPT !.open = TRUE]
  <2>1. p \in Panel /\ view' = [view EXCEPT !.panel = p] /\ UNCHANGED server
    BY <1>4, PanelTypes DEF OpenPanel, Panel
  <2>. HIDE DEF p
  <2>. QED
    BY <2>1, PanelStep
<1>5. CASE AskSecret
  <2>. DEFINE p == [view.panel EXCEPT !.asked = TRUE]
  <2>1. p \in Panel /\ view' = [view EXCEPT !.panel = p] /\ UNCHANGED server
    BY <1>5, PanelTypes DEF AskSecret, Panel
  <2>. HIDE DEF p
  <2>. QED
    BY <2>1, PanelStep
<1>6. CASE SecretArrives
  <2>. DEFINE p == [view.panel EXCEPT !.asked = FALSE, !.left = Seconds]
              n == [view.panel EXCEPT !.asked = FALSE]
  <2>1. Seconds \in 0..Seconds
    BY DEF Bounds
  <2>2. p \in Panel /\ n \in Panel
    BY <2>1, PanelTypes DEF Panel
  <2>3. /\ UNCHANGED server
        /\ view' = [view EXCEPT !.panel = p] \/ view' = [view EXCEPT !.panel = n]
    BY <1>6 DEF SecretArrives
  <2>. HIDE DEF p, n
  <2>. QED
    BY <2>2, <2>3, PanelStep
<1>7. CASE Mask
  <2>. DEFINE p == [view.panel EXCEPT !.masked = ~@]
  <2>1. p \in Panel /\ view' = [view EXCEPT !.panel = p] /\ UNCHANGED server
    BY <1>7, PanelTypes DEF Mask, Panel
  <2>. HIDE DEF p
  <2>. QED
    BY <2>1, PanelStep
<1>8. CASE Tick
  <2>. DEFINE n == view.panel.left - 1
              p == [view.panel EXCEPT !.left = n]
  <2>1. view.panel.left > 0 /\ view.panel.left \in 0..Seconds
    BY <1>8, PanelTypes DEF Tick, Counts, Panel
  <2>2. n \in 0..Seconds
    BY <2>1 DEF Bounds
  <2>3. UNCHANGED server
        /\ (view' = [view EXCEPT !.panel = p] \/ view' = [view EXCEPT !.panel = Closed])
    BY <1>8 DEF Tick
  <2>. HIDE DEF n
  <2>4. p \in Panel
    BY <2>2, PanelTypes DEF Panel
  <2>. HIDE DEF p
  <2>5. Closed \in Panel
    BY PanelTypes
  <2>. QED
    BY <2>3, <2>4, <2>5, PanelStep
<1>9. CASE AskConfirm
  <2>1. PICK c \in Clients, kind \in {"archive", "delete"} :
          view' = [view EXCEPT !.confirm = [kind |-> kind, of |-> c],
                               !.detail = Missing, !.panel = Closed]
    BY <1>9 DEF AskConfirm, Shown
  <2>. DEFINE d == [kind |-> kind, of |-> c]
              m == Missing
  <2>2. d \in Dialog /\ m \in Clients \cup {Missing}
    BY DEF Dialog
  <2>3. view' = [view EXCEPT !.confirm = d, !.detail = m, !.panel = Closed]
    BY <2>1
  <2>. HIDE DEF d, m
  <2>. QED
    BY <1>9, <2>2, <2>3, PanelTypes, DialogStep DEF AskConfirm
<1>10. CASE Dismiss
  <2>. DEFINE r == [view EXCEPT !.confirm = Missing]
  <2>1. r \in View /\ r.form = view.form /\ r.opened = view.opened /\ r.save = view.save
    BY PanelTypes DEF View
  <2>. HIDE DEF r
  <2>. QED
    BY <1>10, <2>1, AsideStep DEF r, Dismiss
<1>. QED
  BY <1>2, <1>3, <1>4, <1>5, <1>6, <1>7, <1>8, <1>9, <1>10

-----------------------------------------------------------------------------
(* The form and its save *)

LEMMA FormsInv ==
  ASSUME Bounds, PageInv, OpenForm \/ TypeCredential \/ CloseForm \/ Submit
  PROVE  PageInv'
<1>v. /\ view \in View /\ FormInv(view) /\ SaveInv(view.save, server.forms)
      /\ view.form = Missing \/ view.form \in Form
  BY DEF PageInv, TypeOK, View
<1>1. ASSUME OpenForm PROVE PageInv'
  <2>1. PICK of \in Clients \cup {New} :
          view' = [view EXCEPT !.form = [of |-> of, typed |-> {}],
                               !.opened = @ + 1, !.detail = Missing, !.panel = Closed]
    BY <1>1 DEF OpenForm
  <2>. DEFINE f == [of |-> of, typed |-> {}]
              n == view.opened + 1
              r == [view EXCEPT !.form = f, !.opened = n, !.detail = Missing,
                                !.panel = Closed]
  <2>2. f \in Form
    BY DEF Form
  <2>o. view.opened \in 0..MaxForms /\ view.opened < MaxForms
    BY <1>1, <1>v DEF OpenForm, View
  <2>3. n \in Forms /\ n \in 0..MaxForms
    BY <2>o DEF Forms, Bounds
  <2>4. view' = r /\ UNCHANGED server
    BY <1>1, <2>1 DEF OpenForm
  <2>. HIDE DEF f, n
  <2>p. Closed \in Panel
    BY PanelTypes
  <2>5. r \in View /\ r.opened = n /\ r.save = view.save
    BY <1>v, <2>2, <2>3, <2>p DEF View
  <2>. HIDE DEF r
  <2>. QED
    BY <1>v, <2>3, <2>4, <2>5, ViewStep DEF FormInv
<1>2. ASSUME NEW f \in Form \cup {Missing}, view.form # Missing,
             view' = [view EXCEPT !.form = f], UNCHANGED server
      PROVE  PageInv'
  <2>. DEFINE r == [view EXCEPT !.form = f]
  <2>1. r \in View /\ r.opened = view.opened /\ r.save = view.save
    BY <1>v DEF View
  <2>2. view' = r
    BY <1>2
  <2>. HIDE DEF r
  <2>. QED
    BY <1>2, <1>v, <2>1, <2>2, ViewStep DEF FormInv
<1>3. ASSUME TypeCredential PROVE PageInv'
  <2>1. PICK p \in Portals : view' = [view EXCEPT !.form.typed = @ \cup {p}]
    BY <1>3 DEF TypeCredential
  <2>. DEFINE t == view.form.typed \cup {p}
              f == [view.form EXCEPT !.typed = t]
  <2>2. t \in SUBSET Portals
    BY <1>3, <1>v DEF TypeCredential, Form
  <2>3. view' = [view EXCEPT !.form = f]
    BY <2>1
  <2>. HIDE DEF t
  <2>4. f \in Form
    BY <1>3, <1>v, <2>2 DEF TypeCredential, Form
  <2>. HIDE DEF f
  <2>. QED
    BY <1>3, <1>2, <2>3, <2>4 DEF TypeCredential
<1>4. ASSUME CloseForm PROVE PageInv'
  BY <1>4, <1>2 DEF CloseForm
<1>5. ASSUME Submit PROVE PageInv'
  <2>. DEFINE s == [of |-> view.form.of,
                    number |-> view.opened, rest |-> view.form.typed,
                    saved |-> Missing, stage |-> "client"]
              r == [view EXCEPT !.save = s]
  <2>1. view' = r /\ UNCHANGED server
    BY <1>5 DEF Submit
  <2>2. s \in Save /\ s.stage = "client"
    BY <1>5, <1>v DEF Submit, FormInv, Save, Form
  <2>. HIDE DEF s
  <2>3. /\ r \in View /\ r.save = s /\ r.opened = view.opened /\ r.form = view.form
    BY <1>v, <2>2 DEF View
  <2>. HIDE DEF r
  <2>. QED
    BY <1>v, <2>1, <2>2, <2>3, ViewStep DEF FormInv, SaveInv
<1>. QED
  BY <1>1, <1>3, <1>4, <1>5

\* The first call: the client it wrote has been saved from this form.
LEMMA WriteClientInv ==
  ASSUME PageInv, WriteClient PROVE PageInv'
<1>v. /\ view \in View /\ server \in Server /\ FormInv(view)
      /\ view.save \in Save /\ SecretsAsTyped
  BY DEF PageInv, TypeOK, View, WriteClient
<1>. DEFINE n == view.save.number
            g == Stage(view.save.rest)
<1>1. PICK c \in Clients :
        /\ server' = [server EXCEPT
                        !.status[c] = IF view.save.of = New THEN "ACTIVE" ELSE @,
                        !.forms[c] = @ \cup {n}]
        /\ view' = [view EXCEPT !.save.saved = c, !.save.stage = g]
  BY DEF WriteClient
<1>. DEFINE st == IF view.save.of = New THEN "ACTIVE" ELSE server.status[c]
            f  == server.forms[c] \cup {n}
            t  == [server EXCEPT !.status[c] = st, !.forms[c] = f]
            s  == [view.save EXCEPT !.saved = c, !.stage = g]
            r  == [view EXCEPT !.save = s]
<1>2. view' = r /\ server' = t
  BY <1>1
<1>3. /\ n \in Forms /\ f \in SUBSET Forms
      /\ st \in {"none", "ACTIVE", "ARCHIVED", "deleted"}
  BY <1>v DEF Save, Server
<1>4. g \in {"portals", "done"}
  BY DEF Stage
<1>. HIDE DEF g, st
<1>5. s \in Save /\ s.saved = c /\ s.number = n
  BY <1>v, <1>4 DEF Save
<1>. HIDE DEF s
<1>6. r \in View /\ r.save = s /\ r.opened = view.opened /\ r.form = view.form
  BY <1>v, <1>5 DEF View
<1>7. /\ t \in Server /\ t.forms[c] = f /\ t.secret = server.secret
      /\ \A d \in Clients : server.forms[d] \subseteq t.forms[d]
  BY <1>v, <1>3 DEF Server
<1>8. n \in f
  OBVIOUS
<1>. HIDE DEF r, t, f
<1>9. SaveInv(s, t.forms)
  BY <1>5, <1>7, <1>8 DEF SaveInv
<1>. QED
  BY <1>v, <1>2, <1>6, <1>7, <1>9 DEF PageInv, TypeOK, FormInv, SecretsAsTyped

\* The calls after it put the secrets of the form there.
LEMMA WriteCredentialInv ==
  ASSUME PageInv, WriteCredential PROVE PageInv'
<1>v. /\ view \in View /\ server \in Server /\ FormInv(view)
      /\ view.save \in Save /\ view.save.saved \in Clients
      /\ view.save.number \in server.forms[view.save.saved]
      /\ SecretsAsTyped
  BY DEF PageInv, TypeOK, View, WriteCredential, SaveInv
<1>. DEFINE c == view.save.saved
            n == view.save.number
            p == CHOOSE q \in view.save.rest : \A u \in view.save.rest : q <= u
            g == Stage(view.save.rest \ {p})
            o == view.save.rest \ {p}
            s == [view.save EXCEPT !.rest = o, !.stage = g]
            r == [view EXCEPT !.save = s]
            x == [server.secret[c] EXCEPT ![p] = n]
            t == [server EXCEPT !.secret[c] = x]
<1>0. /\ server' = [server EXCEPT !.secret[c][p] = n]
      /\ view' = [view EXCEPT !.save.rest = o, !.save.stage = g]
  BY DEF WriteCredential, Target
<1>2. /\ g \in {"portals", "done"} /\ o \in SUBSET Portals
      /\ n \in Forms /\ c \in Clients /\ n \in server.forms[c]
  BY <1>v DEF Stage, Save
<1>. HIDE DEF p, g, o
<1>1. view' = r
  BY <1>0
<1>w. server' = t
  BY <1>0
<1>3. s \in Save /\ s.saved = c /\ s.number = n
  BY <1>v, <1>2 DEF Save
<1>. HIDE DEF s
<1>4. r \in View /\ r.save = s /\ r.opened = view.opened /\ r.form = view.form
  BY <1>v, <1>3 DEF View
<1>. HIDE DEF r
<1>5. server.secret \in [Clients -> [Portals -> Forms \cup {NoForm}]]
  BY <1>v DEF Server
<1>. HIDE DEF c, n
<1>6. /\ x \in [Portals -> Forms \cup {NoForm}]
      /\ \A q \in Portals : x[q] \in {n, server.secret[c][q]}
  BY <1>2, <1>5
<1>. HIDE DEF x
<1>7. /\ t \in Server /\ t.forms = server.forms /\ t.secret[c] = x
      /\ \A d \in Clients : d # c => t.secret[d] = server.secret[d]
  BY <1>v, <1>2, <1>5, <1>6 DEF Server
<1>. HIDE DEF t
<1>8. SaveInv(s, t.forms)
  BY <1>2, <1>3, <1>7 DEF SaveInv
<1>9. ASSUME NEW d \in Clients, NEW q \in Portals, t.secret[d][q] # NoForm
      PROVE  t.secret[d][q] \in t.forms[d]
  BY <1>v, <1>2, <1>6, <1>7, <1>9 DEF SecretsAsTyped
<1>. QED
  BY <1>v, <1>1, <1>w, <1>4, <1>7, <1>8, <1>9 DEF PageInv, TypeOK, FormInv, SecretsAsTyped

LEMMA SaveEndsInv ==
  ASSUME Bounds, PageInv, SaveSucceeds \/ SaveFails PROVE PageInv'
<1>v. view \in View /\ FormInv(view)
  BY DEF PageInv, TypeOK
<1>1. ASSUME SaveSucceeds PROVE PageInv'
  <2>. DEFINE r == [view EXCEPT !.save = Missing, !.form = Missing]
  <2>1. r \in View /\ r.save = Missing /\ r.form = Missing
    BY <1>v DEF View
  <2>2. view' = r /\ UNCHANGED server
    BY <1>1 DEF SaveSucceeds
  <2>. HIDE DEF r
  <2>. QED
    BY <2>1, <2>2, ViewStep DEF FormInv, SaveInv
<1>2. ASSUME SaveFails PROVE PageInv'
  <2>. DEFINE n == view.save.number
              f == [view.fails EXCEPT ![n] = @ + 1]
              r == [view EXCEPT !.save = Missing, !.fails = f]
  <2>1. n \in Forms
    BY <1>2, <1>v DEF SaveFails, View, Save
  <2>2. view.fails \in [Forms -> 0..MaxFails] /\ view.fails[n] < MaxFails
    BY <1>2, <1>v DEF SaveFails, View
  <2>3. view.fails[n] + 1 \in 0..MaxFails
    BY <2>1, <2>2 DEF Bounds
  <2>4. f \in [Forms -> 0..MaxFails]
    BY <2>1, <2>2, <2>3
  <2>5. view' = r /\ UNCHANGED server
    BY <1>2 DEF SaveFails
  <2>. HIDE DEF f
  <2>6. r \in View /\ r.save = Missing /\ r.opened = view.opened /\ r.form = view.form
    BY <1>v, <2>4 DEF View
  <2>. HIDE DEF r
  <2>. QED
    BY <1>v, <2>5, <2>6, ViewStep DEF FormInv, SaveInv
<1>. QED
  BY <1>1, <1>2

-----------------------------------------------------------------------------
(* Archive and delete *)

\* They move neither form nor save; the server keeps the forms saved for whoever
\* goes, and has their secrets or none.
LEMMA ActStep ==
  ASSUME PageInv, NEW r \in View, view' = r,
         r.form = view.form, r.opened = view.opened, r.save = view.save,
         server' \in Server, server'.forms = server.forms,
         \A d \in Clients, p \in Portals :
            server'.secret[d][p] \in {NoForm, server.secret[d][p]}
  PROVE  PageInv'
<1>1. SecretsAsTyped'
  BY DEF PageInv, SecretsAsTyped
<1>. QED
  BY <1>1 DEF PageInv, TypeOK, FormInv, SaveInv

LEMMA ActsInv ==
  ASSUME Bounds, PageInv, SendAct \/ HandleAct \/ ActEnds PROVE PageInv'
<1>v. /\ view \in View /\ server \in Server
      /\ view.act \in Act \cup {Missing} /\ view.acts \in 0..MaxActs
      /\ view.confirm \in Dialog
  BY DEF PageInv, TypeOK, View, Dialog
<1>1. CASE SendAct
  <2>1. PICK kind \in {"archive", "unarchive", "delete"}, of \in Clients :
          view' = [view EXCEPT !.acts = @ + 1,
                               !.act = [kind |-> kind, of |-> of, stage |-> "sent"]]
    <3>1. CASE view.confirm # Missing /\ view' = [view EXCEPT !.acts = @ + 1,
                 !.act = [kind |-> view.confirm.kind, of |-> view.confirm.of,
                          stage |-> "sent"]]
      <4>1. view.confirm.kind \in {"archive", "delete"} /\ view.confirm.of \in Clients
        BY <1>v, <3>1 DEF Dialog
      <4>. QED
        BY <3>1, <4>1
    <3>2. CASE \E c \in Clients : view' = [view EXCEPT !.acts = @ + 1,
                 !.act = [kind |-> "unarchive", of |-> c, stage |-> "sent"]]
      BY <3>2
    <3>. QED
      BY <1>1, <3>1, <3>2 DEF SendAct, Shown
  <2>. DEFINE a == [kind |-> kind, of |-> of, stage |-> "sent"]
              n == view.acts + 1
              r == [view EXCEPT !.acts = n, !.act = a]
  <2>2. a \in Act
    BY DEF Act
  <2>o. view.acts < MaxActs
    BY <1>1 DEF SendAct
  <2>3. n \in 0..MaxActs
    BY <1>v, <2>o DEF Bounds
  <2>4. view' = r /\ UNCHANGED server
    BY <1>1, <2>1 DEF SendAct
  <2>. HIDE DEF a, n
  <2>5. r \in View /\ r.form = view.form /\ r.opened = view.opened /\ r.save = view.save
    BY <1>v, <2>2, <2>3 DEF View
  <2>. HIDE DEF r
  <2>. QED
    BY <2>4, <2>5, AsideStep
<1>2. CASE HandleAct
  <2>. DEFINE c == view.act.of
              a == [view.act EXCEPT !.stage = "done"]
              b == Becomes(view.act.kind)
              x == IF view.act.kind = "delete" THEN [p \in Portals |-> NoForm]
                   ELSE server.secret[c]
              t == [server EXCEPT !.status[c] = b, !.secret[c] = x]
              r == [view EXCEPT !.act = a]
  <2>1. view' = r /\ server' = t
    BY <1>2 DEF HandleAct
  <2>2. c \in Clients /\ a \in Act /\ b \in {"ARCHIVED", "ACTIVE", "deleted"}
    BY <1>2, <1>v DEF HandleAct, Act, Becomes
  <2>3. server.secret \in [Clients -> [Portals -> Forms \cup {NoForm}]]
    BY <1>v DEF Server
  <2>. HIDE DEF a, b, c
  <2>4. /\ x \in [Portals -> Forms \cup {NoForm}]
        /\ \A p \in Portals : x[p] \in {NoForm, server.secret[c][p]}
    BY <2>2, <2>3
  <2>. HIDE DEF x
  <2>5. /\ t \in Server /\ t.forms = server.forms /\ t.secret[c] = x
        /\ \A d \in Clients : d # c => t.secret[d] = server.secret[d]
    BY <1>v, <2>2, <2>3, <2>4 DEF Server
  <2>6. r \in View /\ r.form = view.form /\ r.opened = view.opened /\ r.save = view.save
    BY <1>v, <2>2 DEF View
  <2>. HIDE DEF t, r
  <2>7. \A d \in Clients, p \in Portals :
          t.secret[d][p] \in {NoForm, server.secret[d][p]}
    BY <2>4, <2>5
  <2>. QED
    BY <2>1, <2>5, <2>6, <2>7, ActStep
<1>3. CASE ActEnds
  <2>1. ASSUME NEW c \in Dialog, view' = [view EXCEPT !.act = Missing, !.confirm = c],
               UNCHANGED server
        PROVE  PageInv'
    <3>. DEFINE r == [view EXCEPT !.act = Missing, !.confirm = c]
    <3>1. r \in View /\ r.form = view.form /\ r.opened = view.opened
          /\ r.save = view.save
      BY <1>v DEF View, Dialog
    <3>2. view' = r
      BY <2>1
    <3>. HIDE DEF r
    <3>. QED
      BY <2>1, <3>1, <3>2, AsideStep
  <2>2. [view EXCEPT !.act = Missing]
          = [view EXCEPT !.act = Missing, !.confirm = view.confirm]
    BY <1>v DEF View
  <2>3. ASSUME view' = [view EXCEPT !.act = Missing] PROVE PageInv'
    BY <1>3, <1>v, <2>1, <2>2, <2>3 DEF ActEnds
  <2>. DEFINE c == IF view.confirm # Missing /\ view.confirm.kind = view.act.kind
                   THEN Missing ELSE view.confirm
  <2>4. c \in Dialog
    BY <1>v DEF Dialog
  <2>5. \/ view' = [view EXCEPT !.act = Missing]
        \/ view' = [view EXCEPT !.act = Missing, !.confirm = c]
    BY <1>3 DEF ActEnds
  <2>. HIDE DEF c
  <2>. QED
    BY <1>3, <2>1, <2>3, <2>4, <2>5 DEF ActEnds
<1>. QED
  BY <1>1, <1>2, <1>3

-----------------------------------------------------------------------------
(* Nobody holds another's secret: PageInv is inductive. *)

LEMMA PageInit == ASSUME Bounds, Init PROVE PageInv
<1>1. PICK ways \in Ways :
        view = [ways |-> ways, form |-> Missing, opened |-> 0, save |-> Missing,
                fails |-> [n \in Forms |-> 0], detail |-> Missing, panel |-> Closed,
                confirm |-> Missing, act |-> Missing, acts |-> 0]
  BY DEF Init
<1>2. /\ 0 \in 0..MaxForms /\ 0 \in 0..MaxActs /\ 0 \in 0..Seconds
      /\ [n \in Forms |-> 0] \in [Forms -> 0..MaxFails]
  BY DEF Bounds
<1>3. Closed \in Panel
  BY <1>2 DEF Closed, Panel
<1>4. view \in View /\ view.form = Missing /\ view.save = Missing
  BY <1>1, <1>2, <1>3 DEF View
<1>5. server \in Server /\ SecretsAsTyped
  BY DEF Init, Server, SecretsAsTyped
<1>. QED
  BY <1>4, <1>5 DEF PageInv, TypeOK, FormInv, SaveInv

LEMMA PageStep == ASSUME Bounds, PageInv, [Next]_vars PROVE PageInv'
<1>1. CASE UNCHANGED vars
  BY <1>1 DEF vars, PageInv, TypeOK, FormInv, SaveInv, SecretsAsTyped
<1>. QED
  BY <1>1, FormsInv, WriteClientInv, WriteCredentialInv, SaveEndsInv, PanelInv,
     ActsInv DEF Next

-----------------------------------------------------------------------------
(* Theorems *)

LEMMA PageAlways ==
  ASSUME Bounds PROVE Spec => []PageInv
<1>1. Init => PageInv
  BY PageInit
<1>2. PageInv /\ [Next]_vars => PageInv'
  BY PageStep
<1>. QED
  BY <1>1, <1>2, PTL DEF Spec

\* Every state of the clients page and of its server is well formed: a panel never
\* counts below zero, and what fails, is archived or is restored meanwhile leaves
\* no record half written (Clients.tsx).
THEOREM ClientsTyping ==
  ASSUME Bounds PROVE Spec => []TypeOK
  BY PageAlways, PTL DEF PageInv

\* No client holds a portal password typed in a form that was not saved for it,
\* however forms are closed by the answer of another, fail between two portals
\* and are tried again (the mutation of ClientForm, Clients.tsx).
THEOREM SecretsAreOnesOwn ==
  ASSUME Bounds PROVE Spec => []SecretsAsTyped
  BY PageAlways, PTL DEF PageInv

=============================================================================
