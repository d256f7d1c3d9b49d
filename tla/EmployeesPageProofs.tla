------------------------- MODULE EmployeesPageProofs -------------------------
(***************************************************************************)
(* The employees page for any people and any number of forms and failures: *)
(* nobody is paid by a CTC typed for somebody else.  The argument follows  *)
(* the number of a form from the CTC field (cleared by every other form),  *)
(* through the closure the save took it into, to the employee that the     *)
(* first of the two calls wrote.                                           *)
(***************************************************************************)
EXTENDS EmployeesPage, FiniteSetTheorems, TLAPS

Bounds == MaxForms \in Nat /\ MaxFails \in Nat

\* Finitely many can be employed, and no save is "nothing there".
EmployeesAreFinite == IsFiniteSet(Emps) /\ Missing \notin Save

\* The field holds what was typed in the form opened last, which is the one there is.
FieldInv(v) ==
    /\ v.ctc \in {NoForm, v.opened}
    /\ v.form # Missing => v.opened \in Forms

\* A save carries a CTC of its own form only; by the second call that form is
\* among those saved for the employee it goes to.
SaveInv(s, forms) ==
    s # Missing =>
      /\ s.ctc \in {NoForm, s.number}
      /\ s.stage = "salary" => /\ s.saved \in Emps
                               /\ s.ctc # NoForm
                               /\ s.number \in forms[s.saved]

PageInv ==
    /\ TypeOK
    /\ FieldInv(view)
    /\ SaveInv(view.save, server.forms)
    /\ PaidAsTyped

-----------------------------------------------------------------------------
\* What there is to show of an action that leaves the servers alone.
LEMMA ViewStep ==
  ASSUME PageInv, NEW r \in View, FieldInv(r), SaveInv(r.save, server.forms),
         view' = r, UNCHANGED server
  PROVE  PageInv'
  BY DEF PageInv, TypeOK, FieldInv, SaveInv, PaidAsTyped

LEMMA FormsInv ==
  ASSUME Bounds, PageInv, Open \/ Edit \/ CardArrives \/ Cancel PROVE PageInv'
<1>v. /\ view \in View /\ FieldInv(view) /\ SaveInv(view.save, server.forms)
      /\ view.form = Missing \/ view.form \in Form
  BY DEF PageInv, TypeOK, View
<1>1. ASSUME Open PROVE PageInv'
  <2>1. PICK of \in Emps \cup {New}, w \in Offered :
          view' = OpenEmployee(view, [of |-> of, wage |-> w, card |-> w = "DAILY"])
    BY <1>1 DEF Open
  <2> DEFINE f == [of |-> of, wage |-> w, card |-> w = "DAILY"]
             r == [view EXCEPT !.form = f, !.opened = @ + 1, !.ctc = NoForm]
  <2>2. f \in Form
    BY DEF Form, Offered, Wages
  <2>3. view.opened + 1 \in Forms /\ view.opened + 1 \in 0..MaxForms
    BY <1>1, <1>v DEF Open, View, Forms, Bounds
  <2>4. view' = r /\ UNCHANGED server
    BY <1>1, <2>1 DEF Open, OpenEmployee
  <2> HIDE DEF f
  <2>5. r \in View /\ r.ctc = NoForm /\ r.opened = view.opened + 1 /\ r.save = view.save
    BY <1>v, <2>2, <2>3 DEF View
  <2> HIDE DEF r
  <2> QED
    BY <1>v, <2>3, <2>4, <2>5, ViewStep DEF FieldInv
<1>2. ASSUME NEW f \in Form, view.form # Missing, view' = [view EXCEPT !.form = f],
             UNCHANGED server
      PROVE  PageInv'
  <2> DEFINE r == [view EXCEPT !.form = f]
  <2>1. r \in View /\ r.ctc = view.ctc /\ r.opened = view.opened /\ r.save = view.save
    BY <1>v DEF View
  <2>2. view' = r
    BY <1>2
  <2> HIDE DEF r
  <2> QED
    BY <1>2, <1>v, <2>1, <2>2, ViewStep DEF FieldInv
<1>3. ASSUME NEW b \in BOOLEAN, view' = [view EXCEPT !.card = b], UNCHANGED server
      PROVE  PageInv'
  <2> DEFINE r == [view EXCEPT !.card = b]
  <2>1. /\ r \in View /\ r.ctc = view.ctc /\ r.opened = view.opened /\ r.save = view.save
        /\ r.form = view.form
    BY <1>v DEF View
  <2>2. view' = r
    BY <1>3
  <2> HIDE DEF r
  <2> QED
    BY <1>3, <1>v, <2>1, <2>2, ViewStep DEF FieldInv
<1>4. ASSUME Edit PROVE PageInv'
  <2>1. ASSUME NEW w \in Offered, view' = [view EXCEPT !.form.wage = w] PROVE PageInv'
    <3> DEFINE f == [view.form EXCEPT !.wage = w]
    <3>1. f \in Form
      BY <1>4, <1>v DEF Edit, Form, Offered, Wages
    <3>2. view' = [view EXCEPT !.form = f]
      BY <2>1
    <3> HIDE DEF f
    <3> QED
      BY <1>4, <1>2, <3>1, <3>2 DEF Edit
  <2>2. ASSUME NEW b \in BOOLEAN, view' = [view EXCEPT !.form.card = b] PROVE PageInv'
    <3> DEFINE f == [view.form EXCEPT !.card = b]
    <3>1. f \in Form
      BY <1>4, <1>v DEF Edit, Form
    <3>2. view' = [view EXCEPT !.form = f]
      BY <2>2
    <3> HIDE DEF f
    <3> QED
      BY <1>4, <1>2, <3>1, <3>2 DEF Edit
  <2>3. ASSUME NEW c \in {NoForm, view.opened}, view' = [view EXCEPT !.ctc = c]
        PROVE  PageInv'
    <3> DEFINE r == [view EXCEPT !.ctc = c]
    <3>1. c \in Forms \cup {NoForm}
      BY <1>4, <1>v DEF Edit, FieldInv
    <3>2. /\ r \in View /\ r.ctc = c /\ r.opened = view.opened /\ r.save = view.save
          /\ r.form = view.form
      BY <1>v, <3>1 DEF View
    <3>3. view' = r
      BY <2>3
    <3> HIDE DEF r
    <3> QED
      BY <1>4, <1>v, <3>2, <3>3, ViewStep DEF Edit, FieldInv
  <2> QED
    BY <1>4, <1>3, <2>1, <2>2, <2>3 DEF Edit
<1>5. ASSUME CardArrives PROVE PageInv'
  <2>1. ASSUME view.form # Missing,
               view' = [view EXCEPT !.card = FALSE, !.form.card = TRUE]
        PROVE  PageInv'
    <3> DEFINE f == [view.form EXCEPT !.card = TRUE]
               r == [view EXCEPT !.card = FALSE, !.form = f]
    <3>1. f \in Form
      BY <1>v, <2>1 DEF Form
    <3>2. view' = r
      BY <2>1
    <3> HIDE DEF f
    <3>3. r \in View /\ r.ctc = view.ctc /\ r.opened = view.opened /\ r.save = view.save
      BY <1>v, <3>1 DEF View
    <3> HIDE DEF r
    <3> QED
      BY <1>5, <1>v, <2>1, <3>2, <3>3, ViewStep DEF CardArrives, FieldInv
  <2> QED
    BY <1>5, <1>3, <2>1 DEF CardArrives
<1>6. ASSUME Cancel PROVE PageInv'
  <2> DEFINE r == CloseForm(view)
  <2>1. /\ r \in View /\ r.ctc = NoForm /\ r.form = Missing /\ r.save = view.save
    BY <1>v DEF CloseForm, View
  <2>2. view' = r /\ UNCHANGED server
    BY <1>6 DEF Cancel
  <2> HIDE DEF r
  <2> QED
    BY <1>v, <2>1, <2>2, ViewStep DEF FieldInv
<1> QED
  BY <1>1, <1>4, <1>5, <1>6

LEMMA SubmitInv ==
  ASSUME PageInv, Submit PROVE PageInv'
<1>v. /\ view \in View /\ FieldInv(view) /\ view.form \in Form
      /\ view.opened \in Forms /\ view.ctc \in Forms \cup {NoForm}
  BY DEF PageInv, TypeOK, View, Submit, FieldInv
<1> DEFINE c == IF view.form.wage = "MONTHLY" THEN view.ctc ELSE NoForm
           s == [of |-> view.form.of, number |-> view.opened, ctc |-> c,
                 saved |-> Missing, stage |-> "employee"]
           r == [view EXCEPT !.save = s]
<1>1. c \in Forms \cup {NoForm} /\ c \in {NoForm, view.opened}
  BY <1>v DEF FieldInv
<1>2. view' = r /\ UNCHANGED server
  BY DEF Submit
<1> HIDE DEF c
<1>3. s \in Save /\ s.number = view.opened /\ s.ctc = c /\ s.stage = "employee"
  BY <1>v, <1>1 DEF Save, Form
<1> HIDE DEF s
<1>4. /\ r \in View /\ r.save = s
      /\ r.ctc = view.ctc /\ r.opened = view.opened /\ r.form = view.form
  BY <1>v, <1>3 DEF View
<1> HIDE DEF r
<1> QED
  BY <1>v, <1>1, <1>2, <1>3, <1>4, ViewStep DEF FieldInv, SaveInv

\* The first call: the employee it wrote is who the second call is for.
LEMMA WriteEmployeeInv ==
  ASSUME PageInv, WriteEmployee PROVE PageInv'
<1>v. /\ view \in View /\ server \in Server /\ FieldInv(view)
      /\ view.save \in Save /\ view.save.ctc \in {NoForm, view.save.number}
      /\ PaidAsTyped
  BY DEF PageInv, TypeOK, View, WriteEmployee, SaveInv
<1>1. PICK e \in Emps : Written(e)
  BY DEF WriteEmployee
<1> DEFINE n == view.save.number
           g == IF view.save.ctc = NoForm THEN "done" ELSE "salary"
           s == [view.save EXCEPT !.saved = e, !.stage = g]
           r == [view EXCEPT !.save = s]
           m == IF view.save.of = New THEN n ELSE server.made[e]
           f == server.forms[e] \cup {n}
           t == [server EXCEPT !.status[e] = "ACTIVE", !.made[e] = m, !.forms[e] = f]
<1>2. view' = r /\ server' = t
  BY <1>1 DEF Written
<1>3. n \in Forms /\ m \in Forms \cup {NoForm} /\ f \in SUBSET Forms
  BY <1>v DEF Save, Server
<1>4. g \in {"done", "salary"} /\ (g = "salary" => view.save.ctc # NoForm)
  OBVIOUS
<1> HIDE DEF g, m
<1>5. /\ s \in Save /\ s.saved = e /\ s.ctc = view.save.ctc /\ s.stage = g
      /\ s.number = n
  BY <1>v, <1>4 DEF Save
<1> HIDE DEF s
<1>6. /\ r \in View /\ r.save = s
      /\ r.ctc = view.ctc /\ r.opened = view.opened /\ r.form = view.form
  BY <1>v, <1>5 DEF View
<1>7. /\ t \in Server /\ t.forms[e] = f /\ t.pay = server.pay
      /\ \A d \in Emps : server.forms[d] \subseteq t.forms[d]
  BY <1>v, <1>3 DEF Server
<1>8. n \in f
  OBVIOUS
<1> HIDE DEF r, t, f
<1>9. SaveInv(s, t.forms)
  BY <1>v, <1>4, <1>5, <1>7, <1>8 DEF SaveInv
<1> QED
  BY <1>v, <1>2, <1>6, <1>7, <1>9 DEF PageInv, TypeOK, FieldInv, PaidAsTyped

LEMMA CreateStructureInv ==
  ASSUME PageInv, CreateStructure PROVE PageInv'
<1>v. /\ view \in View /\ server \in Server /\ FieldInv(view)
      /\ view.save \in Save /\ view.save.saved \in Emps
      /\ view.save.ctc = view.save.number
      /\ view.save.number \in server.forms[view.save.saved]
      /\ PaidAsTyped
  BY DEF PageInv, TypeOK, View, CreateStructure, SaveInv
<1> DEFINE e == view.save.saved
           n == view.save.ctc
           s == [view.save EXCEPT !.stage = "done"]
           r == [view EXCEPT !.save = s]
           t == [server EXCEPT !.pay[e] = n]
<1>1. view' = r /\ server' = t
  BY DEF CreateStructure
<1>2. s \in Save /\ s.stage = "done" /\ s.ctc = n /\ s.number = view.save.number
  BY <1>v DEF Save
<1>3. n \in Forms /\ e \in Emps /\ n \in server.forms[e]
  BY <1>v DEF Save
<1> HIDE DEF s
<1>4. /\ r \in View /\ r.save = s
      /\ r.ctc = view.ctc /\ r.opened = view.opened /\ r.form = view.form
  BY <1>v, <1>2 DEF View
<1> HIDE DEF e, n, r
<1>5. /\ t \in Server /\ t.forms = server.forms /\ t.pay[e] = n
      /\ \A d \in Emps : d # e => t.pay[d] = server.pay[d]
  BY <1>v, <1>3 DEF Server
<1> HIDE DEF t
<1>6. SaveInv(s, t.forms)
  BY <1>2, <1>v DEF SaveInv, n
<1> QED
  BY <1>v, <1>1, <1>3, <1>4, <1>5, <1>6 DEF PageInv, TypeOK, FieldInv, PaidAsTyped

LEMMA SaveEndsInv ==
  ASSUME Bounds, PageInv, SaveSucceeds \/ SaveFails PROVE PageInv'
<1>v. view \in View /\ FieldInv(view)
  BY DEF PageInv, TypeOK
<1>1. ASSUME SaveSucceeds PROVE PageInv'
  <2> DEFINE r == [view EXCEPT !.save = Missing]
             q == CloseForm(r)
  <2>1. r \in View /\ r.save = Missing
    BY <1>v DEF View
  <2>2. view' = q /\ UNCHANGED server
    BY <1>1 DEF SaveSucceeds
  <2> HIDE DEF r
  <2>3. q \in View /\ q.save = Missing /\ q.ctc = NoForm /\ q.form = Missing
    BY <2>1 DEF CloseForm, View
  <2> HIDE DEF q
  <2> QED
    BY <2>2, <2>3, ViewStep DEF FieldInv, SaveInv
<1>2. ASSUME SaveFails PROVE PageInv'
  <2> DEFINE n == view.save.number
             f == [view.fails EXCEPT ![n] = @ + 1]
             r == [view EXCEPT !.save = Missing, !.fails = f]
  <2>1. n \in Forms
    BY <1>2, <1>v DEF SaveFails, View, Save
  <2>2. view.fails \in [Forms -> 0..MaxFails] /\ view.fails[n] < MaxFails
    BY <1>2, <1>v DEF SaveFails, View
  <2>3. view.fails[n] + 1 \in 0..MaxFails
    BY <2>1, <2>2 DEF Bounds
  <2>4. f \in [Forms -> 0..MaxFails]
    BY <2>1, <2>2, <2>3
  <2>5. view' = r /\ UNCHANGED server
    BY <1>2 DEF SaveFails
  <2> HIDE DEF f
  <2>6. /\ r \in View /\ r.save = Missing
        /\ r.ctc = view.ctc /\ r.opened = view.opened /\ r.form = view.form
    BY <1>v, <2>4 DEF View
  <2> HIDE DEF r
  <2> QED
    BY <1>v, <2>5, <2>6, ViewStep DEF FieldInv, SaveInv
<1> QED
  BY <1>1, <1>2

\* Whoever leaves is neither paid otherwise nor forgotten as saved.
LEMMA LeftInv ==
  ASSUME server \in Server, NEW e \in Emps, NEW kind \in {"separate", "delete"},
         Left(kind, e)
  PROVE  server' \in Server /\ server'.forms = server.forms /\ server'.pay = server.pay
<1> DEFINE x == IF kind = "separate" THEN "SEPARATED" ELSE "deleted"
           t == [server EXCEPT !.status[e] = x]
<1>1. x \in {"none", "ACTIVE", "SEPARATED", "deleted"}
  OBVIOUS
<1>2. server' = t
  BY DEF Left
<1> HIDE DEF x
<1>3. t \in Server /\ t.forms = server.forms /\ t.pay = server.pay
  BY <1>1 DEF Server
<1> HIDE DEF t
<1> QED
  BY <1>2, <1>3

LEMMA RemovalInv ==
  ASSUME PageInv, Ask \/ Dismiss \/ Confirm \/ Remove \/ RemovalEnds \/ Colleague
  PROVE  PageInv'
<1>v. view \in View /\ FieldInv(view) /\ server \in Server
  BY DEF PageInv, TypeOK
<1>1. ASSUME NEW c \in Emps \cup {Missing}, NEW m \in Removal \cup {Missing},
             view' = [view EXCEPT !.removal = m, !.confirm = c],
             server' = server
               \/ \E e \in Emps, kind \in {"separate", "delete"} : Left(kind, e)
      PROVE  PageInv'
  <2> DEFINE r == [view EXCEPT !.removal = m, !.confirm = c]
  <2>1. /\ r \in View /\ r.save = view.save
        /\ r.ctc = view.ctc /\ r.opened = view.opened /\ r.form = view.form
    BY <1>v DEF View
  <2>2. view' = r
    BY <1>1
  <2> HIDE DEF r
  <2>3. server' \in Server /\ server'.forms = server.forms /\ server'.pay = server.pay
    BY <1>1, <1>v, LeftInv
  <2> QED
    BY <1>v, <2>1, <2>2, <2>3 DEF PageInv, TypeOK, FieldInv, SaveInv, PaidAsTyped
<1>2. /\ view = [view EXCEPT !.removal = view.removal, !.confirm = view.confirm]
      /\ view.removal \in Removal \cup {Missing}
      /\ view.confirm \in Emps \cup {Missing}
  BY <1>v DEF View
<1>3. \A c, m : /\ [view EXCEPT !.confirm = c]
                     = [view EXCEPT !.removal = view.removal, !.confirm = c]
                /\ [view EXCEPT !.removal = m]
                     = [view EXCEPT !.removal = m, !.confirm = view.confirm]
  BY <1>v DEF View
<1>4. CASE Ask
  BY <1>1, <1>2, <1>3, <1>4 DEF Ask
<1>5. CASE Dismiss
  BY <1>1, <1>2, <1>3, <1>5 DEF Dismiss
<1>6. CASE Confirm
  <2>1. PICK kind \in {"separate", "delete"} :
          view' = [view EXCEPT !.removal =
                     [kind |-> kind, of |-> view.confirm, stage |-> "sent"]]
    BY <1>6 DEF Confirm
  <2> DEFINE m == [kind |-> kind, of |-> view.confirm, stage |-> "sent"]
  <2>2. m \in Removal
    BY <1>6, <1>2 DEF Confirm, Removal
  <2> HIDE DEF m
  <2> QED
    BY <1>1, <1>2, <1>3, <1>6, <2>1, <2>2 DEF Confirm, m
<1>7. CASE Remove
  <2> DEFINE m == [view.removal EXCEPT !.stage = "done"]
  <2>1. m \in Removal
    BY <1>7, <1>2 DEF Remove, Removal
  <2>2. view.removal.of \in Emps /\ view.removal.kind \in {"separate", "delete"}
    BY <1>7, <1>2 DEF Remove, Removal
  <2>3. view' = [view EXCEPT !.removal = m] /\ Left(view.removal.kind, view.removal.of)
    BY <1>7 DEF Remove
  <2> HIDE DEF m
  <2>4. view' = [view EXCEPT !.removal = m, !.confirm = view.confirm]
    BY <1>3, <2>3
  <2>5. \E e \in Emps, kind \in {"separate", "delete"} : Left(kind, e)
    BY <2>2, <2>3
  <2> QED
    BY <1>1, <1>2, <2>1, <2>4, <2>5
<1>8. CASE RemovalEnds
  BY <1>1, <1>2, <1>3, <1>8 DEF RemovalEnds
<1>9. CASE Colleague
  BY <1>1, <1>2, <1>9 DEF Colleague
<1> QED
  BY <1>4, <1>5, <1>6, <1>7, <1>8, <1>9

-----------------------------------------------------------------------------
(* Nobody is paid by another's CTC: PageInv is inductive. *)

LEMMA PageInit == ASSUME Bounds, Init PROVE PageInv
<1>1. PICK ways \in Ways :
        view = [ways |-> ways, form |-> Missing, opened |-> 0, ctc |-> NoForm,
                save |-> Missing, card |-> FALSE, fails |-> [n \in Forms |-> 0],
                confirm |-> Missing, removal |-> Missing]
  BY DEF Init
<1>2. 0 \in 0..MaxForms /\ [n \in Forms |-> 0] \in [Forms -> 0..MaxFails]
  BY DEF Bounds
<1>3. view \in View /\ view.form = Missing /\ view.ctc = NoForm /\ view.save = Missing
  BY <1>1, <1>2 DEF View
<1>4. server \in Server /\ PaidAsTyped
  BY DEF Init, Server, PaidAsTyped
<1> QED
  BY <1>3, <1>4 DEF PageInv, TypeOK, FieldInv, SaveInv

LEMMA PageStep == ASSUME Bounds, PageInv, [Next]_vars PROVE PageInv'
<1>1. CASE UNCHANGED vars
  BY <1>1 DEF vars, PageInv, TypeOK, FieldInv, SaveInv, PaidAsTyped
<1> QED
  BY <1>1, FormsInv, SubmitInv, WriteEmployeeInv, CreateStructureInv, SaveEndsInv,
     RemovalInv
  DEF Next

-----------------------------------------------------------------------------
(* One form makes one employee.  It can be sent as long as it is open, so    *)
(* what counts is how many it has made when it can be sent: no more than the *)
(* failures it told of.                                                      *)

MadeBy(n, made) == {e \in Emps : made[e] = n}
Count(n, made) == Cardinality(MadeBy(n, made))

\* The form on screen, when it is not the one being saved, and the save that has
\* not reached employee-service, may each make one more; forms to come made none.
CountInv(v, made) ==
    /\ \A n \in Forms : Count(n, made) <= 1 + v.fails[n]
    /\ v.form # Missing /\ (v.save = Missing \/ v.save.number # v.opened)
          => Count(v.opened, made) <= v.fails[v.opened]
    /\ v.save # Missing => v.save.number <= v.opened
    /\ v.save # Missing /\ v.save.stage = "employee"
          => Count(v.save.number, made) <= v.fails[v.save.number]
    /\ \A n \in Forms : n > v.opened => MadeBy(n, made) = {}

OnceInv == CountInv(view, server.made)

\* Sets of employees are finite; one more of them counts one more at most.
LEMMA CountType ==
  ASSUME EmployeesAreFinite, NEW made, NEW n
  PROVE  Count(n, made) \in Nat /\ (MadeBy(n, made) = {} => Count(n, made) = 0)
<1>1. MadeBy(n, made) \subseteq Emps
  BY DEF MadeBy
<1> QED
  BY <1>1, FS_Subset, FS_CardinalityType, FS_EmptySet DEF Count, EmployeesAreFinite

LEMMA CountMore ==
  ASSUME EmployeesAreFinite, NEW made, NEW e \in Emps, NEW k, NEW n,
         made \in [Emps -> Forms \cup {NoForm}]
  PROVE  LET more == [made EXCEPT ![e] = k]
         IN  /\ Count(n, more) <= 1 + Count(n, made)
             /\ n # k => Count(n, more) <= Count(n, made) /\ MadeBy(n, more) \subseteq MadeBy(n, made)
<1> DEFINE more == [made EXCEPT ![e] = k]
           A == MadeBy(n, made)
           B == MadeBy(n, more)
<1>1. IsFiniteSet(A) /\ Cardinality(A) \in Nat
  <2>1. A \subseteq Emps
    BY DEF MadeBy
  <2> QED
    BY <2>1, FS_Subset, FS_CardinalityType DEF EmployeesAreFinite
<1>2. IsFiniteSet(A \cup {e}) /\ Cardinality(A \cup {e}) <= 1 + Cardinality(A)
      /\ Cardinality(A \cup {e}) \in Nat
  <2>1. /\ IsFiniteSet(A \cup {e})
        /\ Cardinality(A \cup {e}) = IF e \in A THEN Cardinality(A) ELSE Cardinality(A) + 1
    BY <1>1, FS_AddElement
  <2> HIDE DEF A
  <2> QED
    BY <1>1, <2>1
<1>3. B \subseteq A \cup {e} /\ (n # k => B \subseteq A)
  BY DEF MadeBy
<1>4. Cardinality(B) <= Cardinality(A \cup {e}) /\ Cardinality(B) \in Nat
  <2>1. B \in SUBSET (A \cup {e})
    BY <1>3
  <2> QED
    BY <1>2, <2>1, FS_Subset, FS_CardinalityType
<1>5. ASSUME n # k PROVE Cardinality(B) <= Cardinality(A)
  <2>1. B \in SUBSET A
    BY <1>3, <1>5
  <2> QED
    BY <1>1, <2>1, FS_Subset
<1>6. Count(n, more) = Cardinality(B) /\ Count(n, made) = Cardinality(A)
  BY DEF Count
<1> HIDE DEF A, B, more
<1>7. Count(n, more) <= 1 + Count(n, made)
  BY <1>1, <1>2, <1>4, <1>6
<1> QED
  BY <1>3, <1>5, <1>6, <1>7 DEF A, B, more

\* What leaves the forms, the save and its failures alone leaves the counts alone.
LEMMA OnceSame ==
  ASSUME OnceInv, view'.opened = view.opened, view'.fails = view.fails,
         view'.save = view.save, view'.form # Missing => view.form # Missing,
         server'.made = server.made
  PROVE  OnceInv'
  BY DEF OnceInv, CountInv

LEMMA OnceForms ==
  ASSUME EmployeesAreFinite, Bounds, PageInv, OnceInv,
         Open \/ Edit \/ CardArrives \/ Cancel \/ Submit
  PROVE  OnceInv'
<1>v. /\ view \in View /\ FieldInv(view) /\ CountInv(view, server.made)
      /\ view.opened \in 0..MaxForms /\ view.fails \in [Forms -> 0..MaxFails]
  BY DEF PageInv, TypeOK, View, OnceInv
<1>1. CASE Open
  <2>1. /\ view'.opened = view.opened + 1 /\ view'.save = view.save
        /\ view'.fails = view.fails /\ server' = server
    BY <1>1, <1>v DEF Open, OpenEmployee, View
  <2> DEFINE n == view.opened + 1
  <2>2. n \in Forms /\ n > view.opened /\ view.opened \in Nat /\ 0 <= view.fails[n]
    BY <1>1, <1>v DEF Open, Forms, Bounds
  <2>3. Count(n, server.made) = 0
    BY <1>v, <2>2, CountType DEF CountInv
  <2>4. view.save # Missing => view.save.number \in Forms
    BY <1>v DEF View, Save
  <2>5. \A m \in Forms : m \in Nat /\ (m > n => m > view.opened)
    BY <2>2 DEF Forms
  <2>6. view.save # Missing => view.save.number <= n
    BY <1>v, <2>2, <2>4, <2>5 DEF CountInv
  <2> HIDE DEF n
  <2> QED
    BY <1>v, <2>1, <2>2, <2>3, <2>5, <2>6 DEF OnceInv, CountInv, n
<1>2. CASE Edit
  BY <1>v, <1>2, OnceSame DEF Edit, View
<1>3. CASE CardArrives
  BY <1>v, <1>3, OnceSame DEF CardArrives, View
<1>4. CASE Cancel
  BY <1>v, <1>4, OnceSame DEF Cancel, CloseForm, View
<1>5. CASE Submit
  <2>1. /\ view'.opened = view.opened /\ view'.fails = view.fails /\ server' = server
        /\ view'.save.number = view.opened /\ view.form # Missing /\ view.save = Missing
    BY <1>5, <1>v DEF Submit, CanSave, View
  <2>2. Count(view.opened, server.made) <= view.fails[view.opened]
    BY <1>v, <2>1 DEF CountInv
  <2>3. view.opened <= view.opened
    BY <1>v
  <2> QED
    BY <1>v, <2>1, <2>2, <2>3 DEF OnceInv, CountInv
<1> QED
  BY <1>1, <1>2, <1>3, <1>4, <1>5

\* employee-service makes one employee more of a form that was to be sent.
LEMMA OnceWritten ==
  ASSUME EmployeesAreFinite, Bounds, PageInv, OnceInv, WriteEmployee PROVE OnceInv'
<1>v. /\ view \in View /\ server \in Server /\ CountInv(view, server.made)
      /\ view.save # Missing /\ view.save \in Save /\ view.save.stage = "employee"
      /\ view.fails \in [Forms -> 0..MaxFails] /\ view.opened \in 0..MaxForms
  BY DEF PageInv, TypeOK, View, OnceInv, WriteEmployee
<1> DEFINE n == view.save.number
<1>1. PICK e \in Emps : Written(e)
  BY DEF WriteEmployee
<1>m. PICK more : more = server'.made
  OBVIOUS
<1>2. /\ view'.opened = view.opened /\ view'.fails = view.fails /\ view'.form = view.form
      /\ view'.save \in Save /\ view'.save.number = n /\ view'.save.stage # "employee"
  BY <1>1, <1>v DEF Written, View, Save
<1>3. n \in Forms /\ n <= view.opened /\ Count(n, server.made) <= view.fails[n]
  BY <1>v DEF Save, CountInv
<1> HIDE DEF n
<1>4. \A m \in Forms :
        /\ Count(m, more) <= 1 + Count(m, server.made)
        /\ m # n => /\ Count(m, more) <= Count(m, server.made)
                    /\ MadeBy(m, more) \subseteq MadeBy(m, server.made)
  <2>1. CASE view.save.of = New
    <3>1. more = [server.made EXCEPT ![e] = n]
      BY <1>1, <1>m, <1>v, <2>1 DEF Written, Server, n
    <3>2. server.made \in [Emps -> Forms \cup {NoForm}]
      BY <1>v DEF Server
    <3> QED
      BY <3>1, <3>2, CountMore
  <2>2. CASE view.save.of # New
    <3>1. more = server.made
      BY <1>1, <1>m, <1>v, <2>2 DEF Written, Server
    <3>2. \A m \in Forms : Count(m, server.made) <= 1 + Count(m, server.made)
                           /\ Count(m, server.made) <= Count(m, server.made)
      BY CountType
    <3> QED
      BY <3>1, <3>2
  <2> QED
    BY <2>1, <2>2
<1>5. \A m \in Forms :
        /\ Count(m, server.made) \in Nat /\ Count(m, more) \in Nat
        /\ view.fails[m] \in Nat /\ m \in Nat
  BY <1>v, CountType DEF Forms, Bounds
<1>6. \A m \in Forms : Count(m, more) <= 1 + view.fails[m]
  <2> TAKE m \in Forms
  <2>1. CASE m = n
    BY <1>3, <1>4, <1>5, <2>1
  <2>2. CASE m # n
    <3>1. Count(m, server.made) <= 1 + view.fails[m]
      BY <1>v DEF CountInv
    <3> QED
      BY <1>4, <1>5, <2>2, <3>1
  <2> QED
    BY <2>1, <2>2
<1>7. ASSUME view.form # Missing, n # view.opened
      PROVE  Count(view.opened, more) <= view.fails[view.opened]
  <2>1. view.opened \in Forms
    BY <1>7 DEF PageInv, FieldInv
  <2>2. Count(view.opened, server.made) <= view.fails[view.opened]
    BY <1>v, <1>7 DEF CountInv
  <2> QED
    BY <1>4, <1>5, <1>7, <2>1, <2>2
<1>8. \A m \in Forms : m > view.opened => MadeBy(m, more) = {}
  <2>1. \A m \in Forms : m > view.opened => m # n
    BY <1>3, <1>5, <1>v
  <2> QED
    BY <1>v, <1>4, <2>1 DEF CountInv
<1> QED
  BY <1>v, <1>m, <1>2, <1>3, <1>6, <1>7, <1>8 DEF OnceInv, CountInv, EmployeesAreFinite

\* A failure told of is what another employee is allowed for.
LEMMA OnceEnds ==
  ASSUME EmployeesAreFinite, Bounds, PageInv, OnceInv,
         CreateStructure \/ SaveSucceeds \/ SaveFails
  PROVE  OnceInv'
<1>v. /\ view \in View /\ server \in Server /\ CountInv(view, server.made)
      /\ view.save \in Save /\ view.save # Missing /\ FieldInv(view)
      /\ view.fails \in [Forms -> 0..MaxFails] /\ view.opened \in 0..MaxForms
  BY DEF PageInv, TypeOK, View, OnceInv, CreateStructure, SaveSucceeds, SaveFails
<1>1. CASE CreateStructure
  <2>1. /\ view'.opened = view.opened /\ view'.fails = view.fails
        /\ view'.form = view.form /\ server'.made = server.made
        /\ view'.save.number = view.save.number /\ view'.save.stage = "done"
        /\ view'.save \in Save
    BY <1>1, <1>v DEF CreateStructure, View, Save, Server
  <2> QED
    BY <1>v, <2>1 DEF OnceInv, CountInv, EmployeesAreFinite
<1>2. CASE SaveSucceeds
  <2>1. /\ view'.opened = view.opened /\ view'.fails = view.fails
        /\ view'.form = Missing /\ view'.save = Missing /\ server' = server
    BY <1>2, <1>v DEF SaveSucceeds, CloseForm, View
  <2> QED
    BY <1>v, <2>1 DEF OnceInv, CountInv
<1>3. CASE SaveFails
  <2> DEFINE n == view.save.number
  <2>1. /\ view'.opened = view.opened /\ view'.form = view.form
        /\ view'.save = Missing /\ server' = server
        /\ view'.fails = [view.fails EXCEPT ![n] = @ + 1]
    BY <1>3, <1>v DEF SaveFails, View
  <2>2. n \in Forms
    BY <1>v DEF Save
  <2>3. /\ view'.fails[n] = 1 + view.fails[n]
        /\ \A m \in Forms : m # n => view'.fails[m] = view.fails[m]
    BY <1>v, <2>1, <2>2 DEF Bounds
  <2>4. \A m \in Forms : Count(m, server.made) \in Nat /\ view.fails[m] \in Nat
    BY <1>v, CountType DEF Bounds
  <2>5. \A m \in Forms : Count(m, server.made) <= 1 + view'.fails[m]
    BY <1>v, <2>2, <2>3, <2>4 DEF CountInv
  <2>6. ASSUME view.form # Missing
        PROVE  Count(view.opened, server.made) <= view'.fails[view.opened]
    <3>1. view.opened \in Forms
      BY <1>v, <2>6 DEF FieldInv
    <3>2. CASE view.opened = n
      <4>1. Count(n, server.made) <= 1 + view.fails[n]
        BY <1>v, <2>2 DEF CountInv
      <4> QED
        BY <2>3, <3>2, <4>1
    <3>3. CASE view.opened # n
      <4>1. Count(view.opened, server.made) <= view.fails[view.opened]
        BY <1>v, <2>6, <3>3 DEF CountInv
      <4> QED
        BY <2>3, <3>1, <3>3, <4>1
    <3> QED
      BY <3>2, <3>3
  <2> HIDE DEF n
  <2> QED
    BY <1>v, <2>1, <2>5, <2>6 DEF OnceInv, CountInv
<1> QED
  BY <1>1, <1>2, <1>3

LEMMA OnceRemoval ==
  ASSUME PageInv, OnceInv,
         Ask \/ Dismiss \/ Confirm \/ Remove \/ RemovalEnds \/ Colleague
  PROVE  OnceInv'
<1>v. view \in View /\ server \in Server
  BY DEF PageInv, TypeOK
<1>1. /\ view'.opened = view.opened /\ view'.fails = view.fails
      /\ view'.save = view.save /\ view'.form = view.form
  BY <1>v DEF Ask, Dismiss, Confirm, Remove, RemovalEnds, Colleague, View
<1>2. server'.made = server.made
  BY <1>v DEF Ask, Dismiss, Confirm, Remove, RemovalEnds, Colleague, Left, Server
<1> QED
  BY <1>1, <1>2, OnceSame

LEMMA OnceInit == ASSUME EmployeesAreFinite, Bounds, Init PROVE OnceInv
<1>1. /\ view.form = Missing /\ view.save = Missing
      /\ view.fails = [n \in Forms |-> 0] /\ server.made = [e \in Emps |-> NoForm]
  BY DEF Init
<1>2. \A n \in Forms : MadeBy(n, server.made) = {}
  BY <1>1 DEF MadeBy, Forms, NoForm
<1>3. \A n \in Forms : Count(n, server.made) = 0
  BY <1>2, CountType
<1> QED
  BY <1>1, <1>2, <1>3 DEF OnceInv, CountInv

LEMMA OnceStep ==
  ASSUME EmployeesAreFinite, Bounds, PageInv, OnceInv, [Next]_vars PROVE OnceInv'
<1>1. CASE UNCHANGED vars
  BY <1>1 DEF vars, OnceInv, CountInv
<1> QED
  BY <1>1, OnceForms, OnceWritten, OnceEnds, OnceRemoval DEF Next

LEMMA OnceIsEnough == ASSUME OnceInv PROVE OneSaveOneEmployee
  BY DEF OnceInv, CountInv, Count, MadeBy, OneSaveOneEmployee

-----------------------------------------------------------------------------
(* Theorems *)

LEMMA PageAlways ==
  ASSUME Bounds PROVE Spec => []PageInv
<1>1. Init => PageInv
  BY PageInit
<1>2. PageInv /\ [Next]_vars => PageInv'
  BY PageStep
<1> QED
  BY <1>1, <1>2, PTL DEF Spec

\* The page and the two services are well typed, whatever is saved or removed.
THEOREM EmployeesTyping ==
  ASSUME Bounds PROVE Spec => []TypeOK
  BY PageAlways, PTL DEF PageInv

\* Nobody is paid by a CTC typed for somebody else, whatever forms were cancelled,
\* failed or overtaken: the comment on openEmployee() (Employees.tsx) in full.
THEOREM PayIsOnesOwn ==
  ASSUME Bounds PROVE Spec => []PaidAsTyped
  BY PageAlways, PTL DEF PageInv

\* A form pressed "Save" on twice, overtaken by another or tried again after an
\* error makes one employee, and one more for each error it showed: the button
\* of EmployeeForm is dead while its save is under way (Employees.tsx).
THEOREM FormsMakeOne ==
  ASSUME Bounds, EmployeesAreFinite PROVE Spec => []OneSaveOneEmployee
<1>1. Init => OnceInv
  BY OnceInit
<1>2. PageInv /\ OnceInv /\ [Next]_vars => OnceInv'
  BY OnceStep
<1>3. OnceInv => OneSaveOneEmployee
  BY OnceIsEnough
<1> QED
  BY <1>1, <1>2, <1>3, PageAlways, PTL DEF Spec

=============================================================================
