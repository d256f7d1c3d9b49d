--------------------------- MODULE EmployeesPage ---------------------------
(***************************************************************************)
(* The employees page: the form that adds or edits one employee and sets   *)
(* up their pay, and the dialog that separates or deletes one.             *)
(*                                                                         *)
(* Saving is two calls to two services: employee-service first, then, when *)
(* a CTC was typed for somebody paid monthly, salary-service.  Either may  *)
(* fail, or be answered too late, and the form then stays open as it was.  *)
(* Forms are numbered as they are opened; employee codes are generated by  *)
(* the server, which therefore takes every creation for a new person.      *)
(***************************************************************************)
EXTENDS Naturals, FiniteSets

CONSTANTS
    Emps,       \* the employees there are or can be: 1..n, in the order they are made
    Existing,   \* those employed from the start
    Missing,
    Ways,       \* bound: what is done beside monthly pay in one session
    MaxForms,   \* bound: forms opened
    MaxFails    \* bound: failed saves of one form, each of which may be tried again

VARIABLES
    view,
    server

vars == <<view, server>>

Forms == 1..MaxForms
NoForm == 0
New == 0                \* in place of the one it is for, on a form that adds
Wages == {"MONTHLY", "DAILY"}

\* A form: whose it is, and what validate() and the second call look at.
Form == [of : Emps \cup {New}, wage : Wages, card : BOOLEAN]

\* A save under way: the second call is made when a CTC is to be set.
Save == [of : Emps \cup {New}, number : Forms, ctc : Forms \cup {NoForm},
         saved : Emps \cup {Missing}, stage : {"employee", "salary", "done"}]

Removal == [kind : {"separate", "delete"}, of : Emps, stage : {"sent", "done"}]

\* `ctc' is the field beside the form: the form in which its value was typed.
View == [ways : Ways, form : Form \cup {Missing}, opened : 0..MaxForms,
         ctc : Forms \cup {NoForm}, save : Save \cup {Missing}, card : BOOLEAN,
         fails : [Forms -> 0..MaxFails],
         confirm : Emps \cup {Missing}, removal : Removal \cup {Missing}]

\* An employee: which form made them and which ones were saved for them; in
\* salary-service, the form their active structure comes from.
Server == [status : [Emps -> {"none", "ACTIVE", "SEPARATED", "deleted"}],
           made : [Emps -> Forms \cup {NoForm}],
           forms : [Emps -> SUBSET Forms],
           pay : [Emps -> Forms \cup {NoForm}]]

TypeOK == view \in View /\ server \in Server

Init ==
    /\ \E ways \in Ways :
         view = [ways |-> ways, form |-> Missing, opened |-> 0, ctc |-> NoForm,
                 save |-> Missing, card |-> FALSE, fails |-> [n \in Forms |-> 0],
                 confirm |-> Missing, removal |-> Missing]
    /\ server = [status |-> [e \in Emps |-> IF e \in Existing THEN "ACTIVE" ELSE "none"],
                 made |-> [e \in Emps |-> NoForm], forms |-> [e \in Emps |-> {}],
                 pay |-> [e \in Emps |-> NoForm]]

Free == view.form = Missing /\ view.confirm = Missing

-----------------------------------------------------------------------------
(* The form *)

\* openEmployee(): the CTC of the form before is cleared.
OpenEmployee(v, form) ==
    [v EXCEPT !.form = form, !.opened = @ + 1, !.ctc = NoForm]

Offered == {"MONTHLY"} \cup (view.ways \cap {"DAILY"})

\* A row may be opened that is no longer there: the list is older than the click.
Open ==
    /\ Free /\ view.opened < MaxForms
    /\ \E of \in {e \in Emps : server.status[e] # "none"} \cup {New}, w \in Offered :
          /\ of = New => w = "MONTHLY"
          /\ view' = OpenEmployee(view, [of |-> of, wage |-> w, card |-> w = "DAILY"])
    /\ UNCHANGED server

\* The fields that matter here: the wage type, the CTC (for monthly pay only) and
\* the rate card (for daily pay only), which can be made on the spot.
Edit ==
    /\ view.form # Missing
    /\ \/ \E w \in Offered : view' = [view EXCEPT !.form.wage = w]
       \/ /\ view.form.wage = "MONTHLY"
          /\ \E c \in {NoForm, view.opened} : view' = [view EXCEPT !.ctc = c]
       \/ /\ view.form.wage = "DAILY"
          /\ \E b \in BOOLEAN : view' = [view EXCEPT !.form.card = b]
       \/ /\ view.form.wage = "DAILY" /\ ~view.card
          /\ view' = [view EXCEPT !.card = TRUE]
    /\ UNCHANGED server

\* The new rate card: onRateCardCreated() selects it on whatever form is open.
CardArrives ==
    /\ view.card
    /\ \/ view' = [view EXCEPT !.card = FALSE]
       \/ /\ view.form # Missing
          /\ view' = [view EXCEPT !.card = FALSE, !.form.card = TRUE]
    /\ UNCHANGED server

CloseForm(v) == [v EXCEPT !.form = Missing, !.ctc = NoForm]

Cancel == view.form # Missing /\ view' = CloseForm(view) /\ UNCHANGED server

\* (Mutant: it is not.)
CanSave_Always == TRUE

\* The button is dead while a save is under way.
CanSave == view.save = Missing

\* validate(), and what the closure of the mutation takes with it.
Submit ==
    /\ view.form # Missing /\ CanSave
    /\ view.form.wage = "DAILY" => view.form.card
    /\ view' = [view EXCEPT !.save =
                  [of |-> view.form.of, number |-> view.opened,
                   ctc |-> IF view.form.wage = "MONTHLY" THEN view.ctc ELSE NoForm,
                   saved |-> Missing, stage |-> "employee"]]
    /\ UNCHANGED server

-----------------------------------------------------------------------------
(* employee-service and salary-service *)

Unused == {e \in Emps : server.status[e] = "none"}
NewEmployee == IF Unused = {} THEN Missing
               ELSE CHOOSE e \in Unused : \A f \in Unused : e <= f

Written(e) ==
    /\ server' = [server EXCEPT !.status[e] = "ACTIVE",
                                !.made[e] = IF view.save.of = New
                                            THEN view.save.number ELSE @,
                                !.forms[e] = @ \cup {view.save.number}]
    /\ view' = [view EXCEPT
                  !.save.saved = e,
                  !.save.stage = IF view.save.ctc = NoForm THEN "done" ELSE "salary"]

\* The status the form shows is written with the rest: whoever was separated since
\* is active again.
WriteEmployee ==
    /\ view.save # Missing /\ view.save.stage = "employee"
    /\ \E e \in Emps :
         /\ IF view.save.of = New THEN e = NewEmployee
            ELSE e = view.save.of /\ server.status[e] # "deleted"
         /\ Written(e)

\* (Mutant: the CTC is read from the field when the second call is made.)
CreateStructure_ReadsField ==
    /\ view.save # Missing /\ view.save.stage = "salary"
    /\ server' = [server EXCEPT !.pay[view.save.saved] = view.ctc]
    /\ view' = [view EXCEPT !.save.stage = "done"]

\* A revision: it becomes the active structure.
CreateStructure ==
    /\ view.save # Missing /\ view.save.stage = "salary"
    /\ server' = [server EXCEPT !.pay[view.save.saved] = view.save.ctc]
    /\ view' = [view EXCEPT !.save.stage = "done"]

\* onSuccess closes the form that is open by now, whoever's it is.
SaveSucceeds ==
    /\ view.save # Missing /\ view.save.stage = "done"
    /\ view' = CloseForm([view EXCEPT !.save = Missing])
    /\ UNCHANGED server

\* onError: refused, failed, or its answer was lost; the form stays as it was.
SaveFails ==
    /\ view.save # Missing /\ view.fails[view.save.number] < MaxFails
    /\ view' = [view EXCEPT !.save = Missing, !.fails[view.save.number] = @ + 1]
    /\ UNCHANGED server

-----------------------------------------------------------------------------
(* Separating and deleting *)

Ask ==
    /\ Free /\ "remove" \in view.ways
    /\ \E e \in Emps : /\ server.status[e] # "none"
                       /\ view' = [view EXCEPT !.confirm = e]
    /\ UNCHANGED server

Dismiss ==
    /\ view.confirm # Missing
    /\ view' = [view EXCEPT !.confirm = Missing]
    /\ UNCHANGED server

Confirm ==
    /\ view.confirm # Missing /\ view.removal = Missing
    /\ \E kind \in {"separate", "delete"} :
         view' = [view EXCEPT !.removal =
                    [kind |-> kind, of |-> view.confirm, stage |-> "sent"]]
    /\ UNCHANGED server

\* (Mutant: a deleted employee is only marked.)
Left_Marked(kind, e) ==
    /\ server.status[e] \in {"ACTIVE", "SEPARATED"}
    /\ server' = [server EXCEPT
                    !.status[e] = IF kind = "separate" THEN "SEPARATED" ELSE "INACTIVE"]

Left(kind, e) ==
    /\ server.status[e] \in {"ACTIVE", "SEPARATED"}
    /\ server' = [server EXCEPT
                    !.status[e] = IF kind = "separate" THEN "SEPARATED" ELSE "deleted"]

Remove ==
    /\ view.removal # Missing /\ view.removal.stage = "sent"
    /\ Left(view.removal.kind, view.removal.of)
    /\ view' = [view EXCEPT !.removal.stage = "done"]

RemovalEnds ==
    /\ view.removal # Missing
    /\ \/ view' = [view EXCEPT !.removal = Missing]
       \/ /\ view.removal.stage = "done"
          /\ view' = [view EXCEPT !.removal = Missing, !.confirm = Missing]
    /\ UNCHANGED server

Colleague ==
    /\ "remove" \in view.ways
    /\ \E e \in Emps, kind \in {"separate", "delete"} : Left(kind, e)
    /\ UNCHANGED view

Next == \/ Open \/ Edit \/ CardArrives \/ Cancel \/ Submit
        \/ WriteEmployee \/ CreateStructure \/ SaveSucceeds \/ SaveFails
        \/ Ask \/ Dismiss \/ Confirm \/ Remove \/ RemovalEnds \/ Colleague

Spec == Init /\ [][Next]_vars

-----------------------------------------------------------------------------
(* Properties *)

\* "a value left over from the previous employee would otherwise be written to
\* whoever is opened next": the CTC somebody is paid by was typed in a form that
\* was saved for them, whatever forms were cancelled, failed or overtaken between.
PaidAsTyped ==
    \A e \in Emps : server.pay[e] # NoForm => server.pay[e] \in server.forms[e]

\* One form makes one employee, and one more for each time it said it had failed:
\* a second press while the first save is under way does nothing.
OneSaveOneEmployee ==
    \A n \in Forms :
        Cardinality({e \in Emps : server.made[e] = n}) <= 1 + view.fails[n]

=============================================================================
