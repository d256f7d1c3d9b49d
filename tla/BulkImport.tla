----------------------------- MODULE BulkImport -----------------------------
(***************************************************************************)
(* The bulk employee import: the four-step wizard of the console and the  *)
(* two services it writes to, one after the other.  employee-service      *)
(* creates the rows of people it does not know and reports the others as  *)
(* duplicates; salary-service then gets a structure for every row of      *)
(* either kind that has a CTC.  Nothing makes the two writes one.         *)
(*                                                                         *)
(* A person stands for what a row is recognised by: a code, an e-mail, an *)
(* Aadhaar number, or a mobile number and name.  A row that has none of   *)
(* them is nobody's duplicate: each import of it makes one employee more. *)
(***************************************************************************)
EXTENDS Naturals, FiniteSets

CONSTANTS
    People,
    Files,
    Rows,       \* [Files -> SUBSET Row], one row for a person in a file
    Cards,      \* names of rate cards
    NoCard,     \* none of them
    Existing,   \* of People, those employed before, paid by a CTC of 1
    MaxTwins    \* bound: employees made from one row that is not recognised

VARIABLES
    view,       \* the wizard
    server      \* employee-service and salary-service

vars == <<view, server>>

Wages == {"", "MONTHLY", "DAILY"}

\* A row parsed; "bad" stands for the format errors of parseFile (e-mail, PAN,
\* IFSC, Aadhaar, mobile, date, twice in the file).
Row == [who : People, marked : BOOLEAN,     \* whether it has what it is recognised by
        wage : Wages, card : Cards \cup {NoCard}, ctc : Nat, bad : BOOLEAN]

\* employee_id: the one a person is recognised as, and those made from rows without.
Ids == People \X (0..MaxTwins)
Known(p) == <<p, 0>>

\* RowResult, of a row "created" or "duplicate".
Report == [row : Row, id : Ids, new : BOOLEAN]

None == "none"

\* The import under way, with the rows it took and what was reported of them; "post"
\* and "pay" wait for employee-service and salary-service, "posted" and "paid" have
\* their answer to come.  "open" while the wizard that started it is still on screen.
Idle == [at |-> None, rows |-> {}, made |-> {}, open |-> FALSE]

View == [step : 0..3, wage : Wages, card : Cards \cup {NoCard},
         file : Files \cup {NoCard},        \* the file named on screen
         rows : SUBSET Row,                 \* the rows parsed
         parsing : SUBSET Files,
         run : [at : {None, "post", "posted", "pay", "paid"},
                rows : SUBSET Row, made : SUBSET Report, open : BOOLEAN],
         result : SUBSET Report,            \* what the result page is about
         salaryError : BOOLEAN]

TypeOK ==
    /\ view \in View
    /\ server \in [cards : SUBSET Cards, employees : SUBSET Ids, ctc : [Ids -> Nat]]

Start == [step |-> 0, wage |-> "", card |-> NoCard, file |-> NoCard, rows |-> {},
          parsing |-> {}, run |-> Idle, result |-> {}, salaryError |-> FALSE]

Init ==
    /\ view = Start
    /\ LET before == {Known(p) : p \in Existing}
       IN server = [cards |-> {}, employees |-> before,
                    ctc |-> [i \in Ids |-> IF i \in before THEN 1 ELSE 0]]

-----------------------------------------------------------------------------
(* The wizard *)

PaySetupReady == view.wage = "MONTHLY" \/ (view.wage = "DAILY" /\ view.card # NoCard)

\* effectiveRows: the choice of step 1 fills the gaps of the rows.
Effective(r) ==
    LET wage == IF r.wage # "" THEN r.wage ELSE view.wage
    IN [r EXCEPT !.wage = wage,
                 !.card = IF @ = NoCard /\ wage = "DAILY" THEN view.card ELSE @]
Valid(r) == ~r.bad /\ r.wage # "" /\ (r.wage = "DAILY" => r.card # NoCard)
ValidRows == {r \in {Effective(r) : r \in view.rows} : Valid(r)}

ChoosePay ==
    /\ view.step = 0
    /\ \/ \E w \in {"MONTHLY", "DAILY"} : view' = [view EXCEPT !.wage = w]
       \/ /\ view.wage = "DAILY"
          /\ \E c \in server.cards \cup {NoCard} : view' = [view EXCEPT !.card = c]
    /\ UNCHANGED server

\* NewRateCardModal, opened from step 1: the card made is the card chosen.
CreateCard(c) ==
    /\ view.step = 0 /\ view.wage = "DAILY" /\ c \notin server.cards
    /\ server' = [server EXCEPT !.cards = @ \cup {c}]
    /\ view' = [view EXCEPT !.card = c]

\* "Next" of step 1 and "Back" of the two after it; the preview's "change pay
\* setup" goes all the way, its "change file" drops the rows.
Move ==
    /\ \/ view.step = 0 /\ PaySetupReady /\ view' = [view EXCEPT !.step = 1]
       \/ view.step \in {1, 2} /\ view' = [view EXCEPT !.step = @ - 1]
       \/ view.step = 2 /\ view' = [view EXCEPT !.step = 0]
       \/ /\ view.step = 2
          /\ view' = [view EXCEPT !.step = 1, !.rows = {}, !.file = NoCard]
    /\ UNCHANGED server

\* handleFile(): nothing stops a file picked while another is being parsed.
PickFile(f) ==
    /\ view.step = 1
    /\ view' = [view EXCEPT !.file = f, !.rows = {}, !.parsing = @ \cup {f}]
    /\ UNCHANGED server

\* It was parsed, or could not be (or has too many rows), whatever step is shown.
Parsed(f) ==
    /\ f \in view.parsing
    /\ \/ view' = [view EXCEPT !.parsing = @ \ {f}, !.rows = Rows[f], !.step = 2]
       \/ view' = [view EXCEPT !.parsing = @ \ {f}]
    /\ UNCHANGED server

\* Bound: a wizard opened again waits for the import of the one before.
Import ==
    /\ view.step = 2 /\ view.run = Idle /\ ValidRows # {}
    /\ view' = [view EXCEPT !.salaryError = FALSE,
                            !.run = [Idle EXCEPT !.at = "post", !.rows = ValidRows, !.open = TRUE]]
    /\ UNCHANGED server

\* Closing the wizard, by its backdrop too, does not stop an import under way;
\* it is opened again from its first step.
Close ==
    /\ view' = [Start EXCEPT !.run = [view.run EXCEPT !.open = FALSE]]
    /\ UNCHANGED server

-----------------------------------------------------------------------------
(* The services *)

\* bulk_import_employees(): one transaction in all but its size.
Refused(r) == r.wage = "DAILY" /\ r.card \notin server.cards

Twins(p) == {i \in Ids : i[1] = p /\ i # Known(p)}
Reported(r) ==
    IF r.marked THEN [row |-> r, id |-> Known(r.who), new |-> Known(r.who) \notin server.employees]
    ELSE [row |-> r, id |-> CHOOSE i \in Twins(r.who) : i \notin server.employees, new |-> TRUE]

Post ==
    /\ view.run.at = "post"
    /\ \A r \in view.run.rows : r.marked \/ ~(Twins(r.who) \subseteq server.employees)  \* bound
    /\ LET made == {Reported(r) : r \in {r \in view.run.rows : ~Refused(r)}}
       IN /\ server' = [server EXCEPT !.employees = @ \cup {x.id : x \in made}]
          /\ view' = [view EXCEPT !.run.at = "posted", !.run.made = made]

\* Rows created or duplicate, of monthly staff, with a CTC.
Structures(run) == {x \in run.made : x.row.wage # "DAILY" /\ x.row.ctc > 0}

\* create_structures_bulk(): all or none; each replaces the employee's active
\* structure, also that of somebody the report calls a duplicate.
Pay ==
    /\ view.run.at = "pay"
    /\ server' = [server EXCEPT !.ctc = [i \in Ids |->
                    IF \E x \in Structures(view.run) : x.id = i
                    THEN (CHOOSE x \in Structures(view.run) : x.id = i).row.ctc
                    ELSE @[i]]]
    /\ view' = [view EXCEPT !.run.at = "paid"]

-----------------------------------------------------------------------------
(* Answers *)

Result(salaryError) ==
    view' = IF view.run.open
            THEN [view EXCEPT !.run = Idle, !.step = 3, !.result = view.run.made,
                              !.salaryError = salaryError]
            ELSE [view EXCEPT !.run = Idle]

\* The report of employee-service; the structures are sent if there are any.
Answer ==
    /\ view.run.at = "posted"
    /\ IF Structures(view.run) # {} THEN view' = [view EXCEPT !.run.at = "pay"]
                                    ELSE Result(FALSE)
    /\ UNCHANGED server

PayAnswer == view.run.at = "paid" /\ Result(FALSE) /\ UNCHANGED server

\* (Mutant: a failure of salary-service is not shown.)
Fails_Quiet ==
    /\ \/ view.run.at \in {"post", "posted"} /\ view' = [view EXCEPT !.run = Idle]
       \/ view.run.at \in {"pay", "paid"} /\ Result(FALSE)
    /\ UNCHANGED server

\* A call failed, before or after the service did its work: the first leaves the
\* preview as it was, with an error; the second is told on the result page.
Fails ==
    /\ \/ view.run.at \in {"post", "posted"} /\ view' = [view EXCEPT !.run = Idle]
       \/ view.run.at \in {"pay", "paid"} /\ Result(TRUE)
    /\ UNCHANGED server

Next ==
    \/ ChoosePay \/ Move \/ Import \/ Close
    \/ \E c \in Cards : CreateCard(c)
    \/ \E f \in Files : PickFile(f) \/ Parsed(f)
    \/ Post \/ Answer \/ Pay \/ PayAnswer \/ Fails

Spec == Init /\ [][Next]_vars

-----------------------------------------------------------------------------
(* Properties *)

\* Everybody the import made an employee of, from a monthly row with a CTC, is paid by
\* a structure ("[a]uto-create salary structures for created employees that have
\* basic_salary"), or the result page says the structures failed.
NobodyLeftUnpaid ==
    view.step = 3 /\ ~view.salaryError =>
        \A x \in view.result :
            x.new /\ x.row.wage = "MONTHLY" /\ x.row.ctc > 0 => server.ctc[x.id] > 0

=============================================================================
