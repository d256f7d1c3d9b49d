------------------------ MODULE PayoutServiceProofs ------------------------
(***************************************************************************)
(* Proofs about create_batch of payout-service, for any keys, lists and    *)
(* number of requests: a caller that was answered has been paid, the       *)
(* service keeps the promise (Payments) that payroll-service relies on,    *)
(* through duplicates, lock waits, deadlocks and crashes, and a list that  *)
(* all callers submit is paid by one batch.                                *)
(***************************************************************************)
EXTENDS PayoutService, FiniteSetTheorems, TLAPS

\* What a request r has done with its list: everything it has looked at is
\* added, inserted, or in paid, and nothing is added outside the loop.
Accounted(r, paid) ==
    /\ r.todo \cup r.added \cup r.held \subseteq r.list
    /\ r.pc # "loop" => r.added = {}
    /\ r.pc = "loop" => /\ r.list \in Lists /\ r.batch \in Requests
                        /\ r.list \ r.todo \subseteq r.held \cup r.added \cup paid
    /\ r.pc = "answered" => r.list \subseteq paid

PayInv == TypeOK /\ \A q \in Requests : Accounted(req[q], Paid)

LEMMA BlankAccounted ==
  /\ Blank \in Request /\ Accounted(Blank, Paid)
  /\ Blank.pc = "new"
  BY DEF Blank, Request, Accounted

\* Replacing a request by an accounted one, when no payment is lost.
LEMMA PutInv ==
  ASSUME PayInv, NEW q \in Requests, NEW r \in Request, Put(q, r),
         Paid \subseteq Paid', batches' \subseteq Requests,
         total' \in [Requests -> Nat], owner' \in [Keys -> Requests \cup {None}],
         Accounted(r, Paid')
  PROVE  PayInv'
<1>1. /\ req' \in [Requests -> Request]
      /\ req'[q] = r /\ \A p \in Requests : p # q => req'[p] = req[p]
  BY DEF Put, PayInv, TypeOK
<1>2. \A p \in Requests : p # q => Accounted(req'[p], Paid')
  BY <1>1 DEF PayInv, Accounted
<1>. QED
  BY <1>1, <1>2 DEF PayInv, TypeOK, Accounted

\* A step that leaves the committed rows alone.
LEMMA PutUncommitted ==
  ASSUME PayInv, NEW q \in Requests, NEW r \in Request, Put(q, r),
         UNCHANGED <<batches, total, owner>>, Accounted(r, Paid)
  PROVE  PayInv' /\ Paid' = Paid
<1>1. Paid' = Paid
  BY DEF Paid
<1>2. Accounted(r, Paid')
  BY <1>1 DEF Accounted
<1>. QED
  BY <1>1, <1>2, PutInv DEF PayInv, TypeOK

LEMMA FailInv ==
  ASSUME PayInv, NEW q \in Requests, Fail(q)
  PROVE  PayInv' /\ Paid' = Paid
<1>. DEFINE r == [Blank EXCEPT !.pc = "failed", !.list = req[q].list]
<1>1. req[q].list \in SUBSET Keys
  BY DEF PayInv, TypeOK, Request
<1>2. /\ r \in Request /\ r.pc = "failed" /\ r.list = req[q].list
      /\ r.todo = {} /\ r.added = {} /\ r.held = {}
  BY <1>1 DEF Blank, Request
<1>3. Put(q, r) /\ UNCHANGED <<batches, total, owner>>
  BY DEF Fail
<1>. HIDE DEF r
<1>4. Accounted(r, Paid)
  BY <1>2 DEF Accounted
<1>. QED
  BY <1>2, <1>3, <1>4, PutUncommitted

\* The commit of a batch pays its whole list, and takes nothing back.
LEMMA CommitPays ==
  ASSUME PayInv, NEW q \in Requests, Commit(q)
  PROVE  req[q].list \in Lists /\ Paid' = Paid \cup req[q].list
<1>1. /\ req[q].list \in Lists /\ req[q].batch \in Requests
      /\ req[q].held \subseteq req[q].list
      /\ req[q].list \subseteq req[q].held \cup Paid
  BY DEF PayInv, Accounted, Commit
<1>2. req[q].list \subseteq Keys
  BY DEF PayInv, TypeOK, Request
<1>3. Paid' = Paid \cup req[q].held
  BY <1>1, <1>2, NoneAssumption DEF Commit, Paid
<1>. QED
  BY <1>1, <1>3

LEMMA PayStep ==
  PayInv /\ [Next]_vars => PayInv' /\ [Promise!Next]_Paid
<1>. SUFFICES ASSUME PayInv, [Next]_vars PROVE PayInv' /\ [Promise!Next]_Paid
  OBVIOUS
<1>t. /\ TypeOK /\ \A q \in Requests : Accounted(req[q], Paid)
      /\ \A q \in Requests : req[q] \in Request
  BY DEF PayInv, TypeOK
<1>1. ASSUME NEW q \in Requests, NEW list \in Lists, PickBatch(q, list)
      PROVE  PayInv' /\ Paid' = Paid
  <2>1. PICK b \in IF batches = {} THEN {q} ELSE batches :
          Put(q, [Blank EXCEPT !.pc = "loop", !.list = list, !.todo = list,
                               !.batch = b, !.seen = IF b = q THEN 0 ELSE total[b]])
    BY <1>1 DEF PickBatch
  <2>. DEFINE seen == IF b = q THEN 0 ELSE total[b]
              r == [Blank EXCEPT !.pc = "loop", !.list = list, !.todo = list,
                                 !.batch = b, !.seen = seen]
  <2>2. b \in Requests /\ seen \in Nat /\ list \in SUBSET Keys
    BY <1>t, ListsAssumption DEF TypeOK
  <2>3. /\ r \in Request /\ r.pc = "loop" /\ r.list = list /\ r.todo = list
        /\ r.batch = b /\ r.held = {} /\ r.added = {}
    BY <2>2 DEF Blank, Request
  <2>4. Put(q, r)
    BY <2>1
  <2>. HIDE DEF seen, r
  <2>5. Accounted(r, Paid)
    BY <2>2, <2>3 DEF Accounted
  <2>. QED
    BY <2>3, <2>4, <2>5, <1>1, PutUncommitted DEF PickBatch
<1>2. ASSUME NEW q \in Requests, NEW k \in Keys, Look(q, k)
      PROVE  PayInv' /\ Paid' = Paid
  <2>. DEFINE added == IF Found(k) THEN {} ELSE {k}
              r == [req[q] EXCEPT !.todo = @ \ {k}, !.sum = @ + Amount[k],
                                  !.added = added]
  <2>1. /\ added \in SUBSET Keys /\ req[q].todo \ {k} \in SUBSET Keys
        /\ req[q].sum + Amount[k] \in Nat
    BY <1>t, AmountAssumption DEF Request
  <2>2. /\ r \in Request /\ r.pc = "loop" /\ r.list = req[q].list
        /\ r.todo = req[q].todo \ {k} /\ r.batch = req[q].batch
        /\ r.held = req[q].held /\ r.added = added
    BY <2>1, <1>t, <1>2 DEF Request, Look
  <2>3. Put(q, r) /\ UNCHANGED <<batches, total, owner>>
    BY <1>2 DEF Look
  <2>4. req[q].pc = "loop" /\ req[q].added = {} /\ k \in req[q].todo
    BY <1>2 DEF Look
  <2>5. k \in req[q].list
    BY <2>4, <1>t DEF Accounted
  <2>. HIDE DEF r
  <2>6. Accounted(r, Paid)
    BY <2>2, <2>4, <2>5, <1>t DEF Accounted, Found
  <2>. QED
    BY <2>2, <2>3, <2>6, PutUncommitted
<1>3. ASSUME NEW q \in Requests, Insert(q)
      PROVE  PayInv' /\ Paid' = Paid
  <2>. DEFINE r == [req[q] EXCEPT !.held = @ \cup req[q].added, !.added = {}]
  <2>1. /\ r \in Request /\ r.pc = req[q].pc /\ r.list = req[q].list
        /\ r.todo = req[q].todo /\ r.batch = req[q].batch
        /\ r.held = req[q].held \cup req[q].added /\ r.added = {}
    BY <1>t DEF Request
  <2>2. Put(q, r) /\ UNCHANGED <<batches, total, owner>>
    BY <1>3 DEF Insert
  <2>. HIDE DEF r
  <2>3. Accounted(r, Paid)
    BY <2>1, <1>t DEF Accounted
  <2>. QED
    BY <2>1, <2>2, <2>3, PutUncommitted
<1>4. ASSUME NEW q \in Requests, Fail(q)
      PROVE  PayInv' /\ Paid' = Paid
  BY <1>4, FailInv
<1>5. ASSUME NEW q \in Requests, Commit(q)
      PROVE  PayInv' /\ \E list \in Lists : Paid' = Paid \cup list
  <2>. DEFINE r == [Blank EXCEPT !.pc = "answered", !.list = req[q].list]
  <2>1. req[q].list \in Lists /\ Paid' = Paid \cup req[q].list
    BY <1>5, CommitPays
  <2>2. /\ r \in Request /\ r.pc = "answered" /\ r.list = req[q].list
        /\ r.todo = {} /\ r.held = {} /\ r.added = {}
    BY <1>t DEF Blank, Request
  <2>3. Put(q, r)
    BY <1>5 DEF Commit
  <2>. HIDE DEF r
  <2>4. Accounted(r, Paid')
    BY <2>1, <2>2 DEF Accounted
  <2>5. req[q].batch \in Requests /\ NewTotal(q) \in Nat
    BY <1>5, <1>t DEF Commit, Accounted, NewTotal, Request, TypeOK
  <2>6. /\ batches' \subseteq Requests /\ total' \in [Requests -> Nat]
        /\ owner' \in [Keys -> Requests \cup {None}]
    BY <2>5, <1>5, <1>t DEF Commit, TypeOK
  <2>7. PayInv'
    BY <2>1, <2>2, <2>3, <2>4, <2>6, PutInv
  <2>. QED
    BY <2>1, <2>7
<1>6. CASE UNCHANGED vars
  <2>1. Paid' = Paid
    BY <1>6 DEF vars, Paid
  <2>. QED
    BY <2>1, <1>6 DEF vars, PayInv, TypeOK, Accounted
<1>. QED
  BY <1>1, <1>2, <1>3, <1>4, <1>5, <1>6
     DEF Next, Progress, Duplicate, DeadlockAbort, Crash, Idle, Promise!Next,
         Promise!Pay

LEMMA PayInit == Init => PayInv /\ Paid = {}
<1>. SUFFICES ASSUME Init PROVE PayInv /\ Paid = {}
  OBVIOUS
<1>1. \A q \in Requests : req[q] = Blank
  BY DEF Init
<1>. QED
  BY <1>1, BlankAccounted DEF Init, PayInv, TypeOK, Paid

\* create_batch keeps batches, transactions and sessions well-formed.
THEOREM PayoutTyping == Spec => []TypeOK
<1>1. PayInv => TypeOK
  BY DEF PayInv
<1>. QED
  BY <1>1, PayInit, PayStep, PTL DEF Spec

\* A caller that create_batch answered has had its whole list paid, whatever
\* other requests inserted, committed or rolled back in between.
THEOREM AnsweredHasBeenPaid == Spec => []AnsweredIsPaid
<1>1. PayInv => AnsweredIsPaid
  BY DEF PayInv, Accounted, AnsweredIsPaid
<1>. QED
  BY <1>1, PayInit, PayStep, PTL DEF Spec

\* payout-service implements Payments: every step of create_batch pays one
\* submitted list as a whole or changes no payment, which is all that
\* payroll-service relies on (create_batch, ServePayout of PayrollCycle).
THEOREM PromiseIsKept == Spec => KeepsPromise
<1>1. Init => Promise!Init
  BY PayInit DEF Promise!Init
<1>. QED
  BY <1>1, PayInit, PayStep, PTL DEF Spec, KeepsPromise, Promise!Spec

-----------------------------------------------------------------------------
(* One list, one batch *)

\* A key is inserted by one transaction at a time and never after it was paid.
LocksInv ==
    \A q \in Requests :
        /\ req[q].held \cap Paid = {}
        /\ \A p \in Requests : p # q => req[p].held \cap req[q].held = {}

\* Of the one list there is nothing is paid, or all of it by the same batch.
OwnsTheList ==
    OneList => \/ Paid = {}
               \/ \E b \in Requests, list \in Lists : Owned(b) = list /\ Paid = list

BatchInv == LocksInv /\ OwnsTheList

\* A request goes on without committing.
LEMMA LocksPut ==
  ASSUME PayInv, BatchInv, NEW q \in Requests, NEW r, Put(q, r), owner' = owner,
         r.held \cap Paid = {},
         \A p \in Requests : p # q => req[p].held \cap r.held = {}
  PROVE  BatchInv'
<1>1. req'[q] = r /\ \A p \in Requests : p # q => req'[p] = req[p]
  BY DEF Put, PayInv, TypeOK
<1>2. Paid' = Paid /\ \A b : Owned(b)' = Owned(b)
  BY DEF Paid, Owned
<1>3. LocksInv'
  BY <1>1, <1>2 DEF BatchInv, LocksInv
<1>4. OwnsTheList'
  BY <1>2 DEF BatchInv, OwnsTheList
<1>. QED
  BY <1>3, <1>4 DEF BatchInv

LEMMA LocksFail ==
  ASSUME PayInv, BatchInv, NEW q \in Requests, Fail(q) PROVE BatchInv'
<1>. DEFINE r == [Blank EXCEPT !.pc = "failed", !.list = req[q].list]
<1>1. r.held = {}
  BY DEF Blank
<1>2. Put(q, r) /\ owner' = owner
  BY DEF Fail
<1>. HIDE DEF r
<1>. QED
  BY <1>1, <1>2, LocksPut

\* The commit: what it inserted is all of the list, or nothing of it.
LEMMA LocksCommit ==
  ASSUME PayInv, BatchInv, NEW q \in Requests, Commit(q) PROVE BatchInv'
<1>. DEFINE h == req[q].held
            r == [Blank EXCEPT !.pc = "answered", !.list = req[q].list]
<1>t. /\ req \in [Requests -> Request] /\ owner \in [Keys -> Requests \cup {None}]
      /\ h \in SUBSET Keys /\ req[q].list \in Lists /\ req[q].batch \in Requests
      /\ h \subseteq req[q].list /\ req[q].list \subseteq h \cup Paid
  BY DEF PayInv, TypeOK, Accounted, Commit, Request
<1>1. r.held = {} /\ Put(q, r)
  BY DEF Blank, Commit
<1>. HIDE DEF r
<1>2. req'[q].held = {} /\ \A p \in Requests : p # q => req'[p] = req[p]
  BY <1>1, <1>t DEF Put
<1>3. \A k \in Keys : owner'[k] = IF k \in h THEN req[q].batch ELSE owner[k]
  BY DEF Commit
<1>. HIDE DEF h
<1>4. Paid' = Paid \cup h
  BY <1>3, <1>t, NoneAssumption DEF Paid
<1>5. LocksInv'
  BY <1>2, <1>4 DEF BatchInv, LocksInv, h
<1>6. ASSUME OneList, Paid = {}
      PROVE  OwnsTheList'
  <2>1. PICK b \in Requests, list \in Lists : b = req[q].batch /\ list = req[q].list
    BY <1>t
  <2>2. h = list /\ Paid' = list
    BY <1>6, <1>4, <1>t, <2>1
  <2>3. \A k \in Keys : owner'[k] = b <=> k \in h
    BY <1>6, <1>3, <1>t, <2>1, NoneAssumption DEF Paid
  <2>4. Owned(b)' = list
    BY <2>2, <2>3, <1>t DEF Owned
  <2>. QED
    BY <2>2, <2>4 DEF OwnsTheList
<1>7. ASSUME NEW b \in Requests, NEW list \in Lists, OneList,
             Owned(b) = list, Paid = list
      PROVE  OwnsTheList'
  <2>1. h = {}
    BY <1>7, <1>t DEF OneList, BatchInv, LocksInv, h
  <2>2. Paid' = Paid /\ Owned(b)' = Owned(b)
    BY <2>1, <1>3, <1>4 DEF Owned
  <2>. QED
    BY <2>2, <1>7 DEF OwnsTheList
<1>8. OneList' <=> OneList
  BY DEF OneList
<1>. QED
  BY <1>5, <1>6, <1>7, <1>8 DEF BatchInv, OwnsTheList

LEMMA BatchStep == PayInv /\ BatchInv /\ [Next]_vars => BatchInv'
<1>. SUFFICES ASSUME PayInv, BatchInv, [Next]_vars PROVE BatchInv'
  OBVIOUS
<1>t. req \in [Requests -> Request]
  BY DEF PayInv, TypeOK
<1>b. \A q \in Requests : /\ req[q].held \cap Paid = {}
                          /\ \A p \in Requests : p # q =>
                                req[p].held \cap req[q].held = {}
  BY DEF BatchInv, LocksInv
<1>1. ASSUME NEW q \in Requests, NEW list \in Lists, PickBatch(q, list) PROVE BatchInv'
  <2>1. PICK b \in IF batches = {} THEN {q} ELSE batches :
          Put(q, [Blank EXCEPT !.pc = "loop", !.list = list, !.todo = list,
                               !.batch = b, !.seen = IF b = q THEN 0 ELSE total[b]])
    BY <1>1 DEF PickBatch
  <2>. DEFINE r == [Blank EXCEPT !.pc = "loop", !.list = list, !.todo = list,
                                 !.batch = b, !.seen = IF b = q THEN 0 ELSE total[b]]
  <2>2. r.held = {} /\ Put(q, r) /\ owner' = owner
    BY <2>1, <1>1 DEF Blank, PickBatch
  <2>. HIDE DEF r
  <2>. QED
    BY <2>2, LocksPut
<1>2. ASSUME NEW q \in Requests, NEW k \in Keys, Look(q, k) PROVE BatchInv'
  <2>. DEFINE added == IF Found(k) THEN {} ELSE {k}
              r == [req[q] EXCEPT !.todo = @ \ {k}, !.sum = @ + Amount[k],
                                  !.added = added]
  <2>1. r.held = req[q].held
    BY <1>t DEF Request
  <2>2. Put(q, r) /\ owner' = owner
    BY <1>2 DEF Look
  <2>. HIDE DEF r
  <2>. QED
    BY <2>1, <2>2, <1>b, LocksPut
<1>3. ASSUME NEW q \in Requests, Insert(q) PROVE BatchInv'
  <2>. DEFINE r == [req[q] EXCEPT !.held = @ \cup req[q].added, !.added = {}]
  <2>1. r.held = req[q].held \cup req[q].added
    BY <1>t DEF Request
  <2>2. Put(q, r) /\ owner' = owner
    BY <1>3 DEF Insert
  <2>. HIDE DEF r
  <2>3. /\ req[q].added \cap Paid = {}
        /\ \A p \in Requests : p # q => req[q].added \cap req[p].held = {}
    BY <1>3 DEF Insert, Waits
  <2>. QED
    BY <2>1, <2>2, <2>3, <1>b, LocksPut
<1>4. CASE UNCHANGED vars
  BY <1>4 DEF vars, BatchInv, LocksInv, OwnsTheList, OneList, Owned, Paid
<1>. QED
  BY <1>1, <1>2, <1>3, <1>4, LocksFail, LocksCommit
     DEF Next, Progress, Duplicate, DeadlockAbort, Crash, Idle

\* The approvals of a cycle, which all submit the same list, fill one batch with
\* it, however many batches their race creates (create_batch, routes.py 49-104).
THEOREM OneBatchHoldsTheList == Spec => []BatchHoldsTheList
<1>1. Init => BatchInv
  <2>. SUFFICES ASSUME Init PROVE BatchInv
    OBVIOUS
  <2>1. \A q \in Requests : req[q].held = {}
    BY DEF Init, Blank
  <2>. QED
    BY <2>1, PayInit DEF BatchInv, LocksInv, OwnsTheList
<1>2. PayInv /\ BatchInv => BatchHoldsTheList
  <2>. SUFFICES ASSUME PayInv, BatchInv, OneList, NEW b \in batches, Owned(b) # {}
                PROVE  Owned(b) \in Lists
    BY DEF BatchHoldsTheList
  <2>1. b \in Requests /\ Owned(b) \subseteq Paid
    BY NoneAssumption DEF PayInv, TypeOK, Owned, Paid
  <2>2. PICK c \in Requests, list \in Lists : Owned(c) = list /\ Paid = list
    BY <2>1 DEF BatchInv, OwnsTheList
  <2>3. PICK k \in Owned(b) : k \in Owned(c)
    BY <2>1, <2>2
  <2>4. b = c
    BY <2>3 DEF Owned
  <2>. QED
    BY <2>2, <2>4
<1>. QED
  BY <1>1, <1>2, PayInit, PayStep, BatchStep, PTL DEF Spec

-----------------------------------------------------------------------------
(* Sums.  The sum over a set is defined by recursion on it, in an order that *)
(* CHOOSE fixes; that it is the sum in any order is shown from a least set   *)
(* for which it would not be.                                                *)

SumOf(S) == MapThenSumSet(LAMBDA k : Amount[k], S)

First(s) == CHOOSE k \in s : TRUE

\* The function that the recursion defines.
IsSum(f, S) ==
    f = [s \in SUBSET S |-> IF s = {} THEN 0 ELSE Amount[First(s)] + f[s \ {First(s)}]]

LEMMA LeastSet ==
  ASSUME NEW D, IsFiniteSet(D), NEW T, T \subseteq SUBSET D, T # {}
  PROVE  \E m \in T : \A s \in T : s \subseteq m => s = m
<1>1. IsWellFoundedOn(StrictSubsetOrdering(D), SUBSET D)
  BY FS_StrictSubsetOrderingWellFounded, FS_FiniteSubsetsOfFinite
<1>2. PICK m \in T : \A s \in T : <<s, m>> \notin StrictSubsetOrdering(D)
  BY <1>1, WFMin
<1>3. ASSUME NEW s \in T, s \subseteq m, s # m PROVE FALSE
  <2>1. <<s, m>> \in (SUBSET D) \X (SUBSET D)
    BY <1>3
  <2>2. <<s, m>> \in StrictSubsetOrdering(D)
    BY <1>3, <2>1 DEF StrictSubsetOrdering
  <2>. QED
    BY <1>2, <2>2
<1>. QED
  BY <1>3

LEMMA FirstIs == \A s : s # {} => First(s) \in s
  BY DEF First

LEMMA SumAt ==
  ASSUME NEW f, NEW S, IsSum(f, S), NEW s \in SUBSET S
  PROVE  f[s] = IF s = {} THEN 0 ELSE Amount[First(s)] + f[s \ {First(s)}]
  BY DEF IsSum

\* Two such functions agree where both are defined.
LEMMA SumsAgree ==
  ASSUME NEW D, IsFiniteSet(D), NEW S \in SUBSET D, NEW R \in SUBSET S,
         NEW f, NEW g, IsSum(f, S), IsSum(g, R)
  PROVE  f[R] = g[R]
<1>. DEFINE T == {s \in SUBSET R : f[s] # g[s]}
<1>1. SUFFICES ASSUME T # {} PROVE FALSE
  OBVIOUS
<1>0. T \subseteq SUBSET D
  OBVIOUS
<1>2. PICK m \in T : \A s \in T : s \subseteq m => s = m
  <2>. HIDE DEF T
  <2>. QED
    BY <1>0, <1>1, LeastSet
<1>3. m \in SUBSET R /\ m \in SUBSET S /\ f[m] # g[m]
  BY <1>2
<1>4. /\ f[m] = IF m = {} THEN 0 ELSE Amount[First(m)] + f[m \ {First(m)}]
      /\ g[m] = IF m = {} THEN 0 ELSE Amount[First(m)] + g[m \ {First(m)}]
  BY <1>3, SumAt
<1>5. m # {}
  BY <1>3, <1>4
<1>6. PICK r : r = m \ {First(m)}
  OBVIOUS
<1>7. r \in SUBSET R /\ r \subseteq m /\ r # m
  BY <1>3, <1>5, <1>6, FirstIs
<1>8. f[r] = g[r]
  BY <1>2, <1>7
<1>. QED
  BY <1>3, <1>4, <1>6, <1>8

\* The recursion is one: every finite set has such a function.
LEMMA SumExists ==
  ASSUME NEW D, IsFiniteSet(D) PROVE \E f : IsSum(f, D)
<1>. DEFINE T == {s \in SUBSET D : ~ \E f : IsSum(f, s)}
<1>1. SUFFICES ASSUME T # {} PROVE FALSE
  OBVIOUS
<1>0. T \subseteq SUBSET D
  OBVIOUS
<1>2. PICK m \in T : \A s \in T : s \subseteq m => s = m
  <2>. HIDE DEF T
  <2>. QED
    BY <1>0, <1>1, LeastSet
<1>3. m \in SUBSET D /\ ~ \E f : IsSum(f, m)
  BY <1>2
<1>4. \A s \in SUBSET m : s # m => \E f : IsSum(f, s)
  BY <1>2, <1>3
<1>. DEFINE F(s) == CHOOSE f : IsSum(f, s)
            v(s) == IF s = {} THEN 0
                    ELSE Amount[First(s)] + F(s \ {First(s)})[s \ {First(s)}]
            g == [s \in SUBSET m |-> v(s)]
<1>5. ASSUME NEW s \in SUBSET m, s # m PROVE IsSum(F(s), s)
  BY <1>4, <1>5
<1>6. ASSUME NEW s \in SUBSET m, s # m PROVE F(s)[s] = g[s]
  <2>1. IsSum(F(s), s)
    BY <1>5, <1>6
  <2>. HIDE DEF F
  <2>2. F(s)[s] = IF s = {} THEN 0 ELSE Amount[First(s)] + F(s)[s \ {First(s)}]
    BY <2>1, SumAt
  <2>3. s # {} => F(s)[s \ {First(s)}] = F(s \ {First(s)})[s \ {First(s)}]
    <3>1. SUFFICES ASSUME s # {} PROVE F(s)[s \ {First(s)}] = F(s \ {First(s)})[s \ {First(s)}]
      OBVIOUS
    <3>2. PICK r : r = s \ {First(s)}
      OBVIOUS
    <3>3. r \in SUBSET s /\ r \in SUBSET m /\ r # m /\ s \in SUBSET D
      BY <1>3, <1>6, <3>1, <3>2, FirstIs
    <3>4. IsSum(F(r), r)
      BY <1>5, <3>3
    <3>5. F(s)[r] = F(r)[r]
      BY <2>1, <3>3, <3>4, SumsAgree
    <3>. QED
      BY <3>2, <3>5
  <2>. QED
    BY <2>2, <2>3
<1>7. ASSUME NEW s \in SUBSET m
      PROVE  g[s] = IF s = {} THEN 0 ELSE Amount[First(s)] + g[s \ {First(s)}]
  <2>. HIDE DEF F
  <2>1. g[s] = v(s)
    OBVIOUS
  <2>2. s # {} => F(s \ {First(s)})[s \ {First(s)}] = g[s \ {First(s)}]
    <3>1. SUFFICES ASSUME s # {} PROVE F(s \ {First(s)})[s \ {First(s)}] = g[s \ {First(s)}]
      OBVIOUS
    <3>2. PICK r : r = s \ {First(s)}
      OBVIOUS
    <3>3. r \in SUBSET m /\ r # m
      BY <1>7, <3>1, <3>2, FirstIs
    <3>4. F(r)[r] = g[r]
      BY <1>6, <3>3
    <3>. QED
      BY <3>2, <3>4
  <2>. QED
    BY <2>1, <2>2
<1>8. g = [s \in SUBSET m |-> g[s]]
  OBVIOUS
<1>. HIDE DEF g
<1>9. IsSum(g, m)
  BY <1>7, <1>8 DEF IsSum
<1>. QED
  BY <1>3, <1>9

LEMMA SumIs ==
  ASSUME NEW S, IsFiniteSet(S) PROVE \E f : IsSum(f, S) /\ SumOf(S) = f[S]
<1>1. PICK g : IsSum(g, S)
  BY SumExists
<1>. QED
  BY <1>1 DEF SumOf, MapThenSumSet, MapThenFoldSet, IsSum, First

LEMMA SumStep ==
  ASSUME NEW S, IsFiniteSet(S)
  PROVE  SumOf(S) = IF S = {} THEN 0 ELSE Amount[First(S)] + SumOf(S \ {First(S)})
<1>1. PICK f : IsSum(f, S) /\ SumOf(S) = f[S]
  BY SumIs
<1>2. f[S] = IF S = {} THEN 0 ELSE Amount[First(S)] + f[S \ {First(S)}]
  BY <1>1, SumAt
<1>3. PICK r : r = S \ {First(S)}
  OBVIOUS
<1>4. r \in SUBSET S /\ IsFiniteSet(r)
  BY <1>3, FS_Subset
<1>5. PICK g : IsSum(g, r) /\ SumOf(r) = g[r]
  BY <1>4, SumIs
<1>6. f[r] = g[r]
  BY <1>1, <1>4, <1>5, SumsAgree
<1>. QED
  BY <1>1, <1>2, <1>3, <1>5, <1>6

LEMMA SumType ==
  ASSUME NEW S \in SUBSET Keys, IsFiniteSet(S) PROVE SumOf(S) \in Nat
<1>. DEFINE T == {s \in SUBSET S : SumOf(s) \notin Nat}
<1>1. SUFFICES ASSUME T # {} PROVE FALSE
  OBVIOUS
<1>0. T \subseteq SUBSET S
  OBVIOUS
<1>2. PICK m \in T : \A s \in T : s \subseteq m => s = m
  <2>. HIDE DEF T
  <2>. QED
    BY <1>0, <1>1, LeastSet
<1>3. m \in SUBSET S /\ IsFiniteSet(m) /\ SumOf(m) \notin Nat
  BY <1>2, FS_Subset
<1>4. SumOf(m) = IF m = {} THEN 0 ELSE Amount[First(m)] + SumOf(m \ {First(m)})
  BY <1>3, SumStep
<1>5. m # {}
  BY <1>3, <1>4
<1>6. PICK r : r = m \ {First(m)}
  OBVIOUS
<1>7. r \in SUBSET S /\ r \subseteq m /\ r # m /\ First(m) \in Keys
  BY <1>3, <1>5, <1>6, FirstIs
<1>8. SumOf(r) \in Nat /\ Amount[First(m)] \in Nat
  BY <1>2, <1>7, AmountAssumption
<1>. QED
  BY <1>3, <1>4, <1>5, <1>6, <1>8

\* The sum in any order.
LEMMA SumAdds ==
  ASSUME NEW S \in SUBSET Keys, IsFiniteSet(S), NEW k \in S
  PROVE  SumOf(S) = SumOf(S \ {k}) + Amount[k]
<1>. DEFINE T == {s \in SUBSET S : \E j \in s : SumOf(s) # SumOf(s \ {j}) + Amount[j]}
<1>1. SUFFICES ASSUME T # {} PROVE FALSE
  OBVIOUS
<1>0. T \subseteq SUBSET S
  OBVIOUS
<1>2. PICK m \in T : \A s \in T : s \subseteq m => s = m
  <2>. HIDE DEF T
  <2>. QED
    BY <1>0, <1>1, LeastSet
<1>3. m \in SUBSET S /\ IsFiniteSet(m)
  BY <1>2, FS_Subset
<1>4. PICK j \in m : SumOf(m) # SumOf(m \ {j}) + Amount[j]
  BY <1>2
<1>5. PICK p : p = First(m)
  OBVIOUS
<1>6. p \in m /\ SumOf(m) = Amount[p] + SumOf(m \ {p})
  BY <1>3, <1>4, <1>5, SumStep, FirstIs
<1>7. PICK a, b, c : a = m \ {p} /\ b = m \ {j} /\ c = (m \ {p}) \ {j}
  OBVIOUS
<1>8. /\ a \in SUBSET S /\ b \in SUBSET S /\ c \in SUBSET S
      /\ a \subseteq m /\ b \subseteq m /\ a # m /\ b # m
      /\ c = b \ {p}
  BY <1>3, <1>4, <1>6, <1>7
<1>9. SumOf(a) \in Nat /\ SumOf(b) \in Nat /\ SumOf(c) \in Nat
  BY <1>8, SumType, FS_Subset
<1>10. Amount[p] \in Nat /\ Amount[j] \in Nat
  BY <1>3, <1>4, <1>6, AmountAssumption
<1>11. p # j
  <2>1. SUFFICES ASSUME p = j PROVE FALSE
    OBVIOUS
  <2>2. SumOf(m) = Amount[p] + SumOf(a) /\ SumOf(m) # SumOf(a) + Amount[p]
    BY <1>4, <1>6, <1>7, <2>1
  <2>. QED
    BY <1>9, <1>10, <2>2
<1>12. SumOf(a) = SumOf(c) + Amount[j]
  BY <1>2, <1>4, <1>7, <1>8, <1>11
<1>13. SumOf(b) = SumOf(c) + Amount[p]
  BY <1>2, <1>6, <1>7, <1>8, <1>11
<1>. QED
  BY <1>4, <1>6, <1>7, <1>9, <1>10, <1>12, <1>13

-----------------------------------------------------------------------------
(* The total of a batch.  Every list there is has the same sum, so a total  *)
(* that was committed is that sum from the first commit of its batch on, and *)
(* a request that loaded it and finds it unchanged may leave it alone.       *)

TotalInv ==
    /\ \A q \in Requests : req[q].pc = "loop" =>
          /\ req[q].batch \in batches \cup {q}
          /\ req[q].sum = SumOf(req[q].list \ req[q].todo)
    /\ OneList => \A b \in batches, list \in Lists : total[b] = SumOf(list)

LEMMA TotalPut ==
  ASSUME PayInv, TotalInv, NEW q \in Requests, NEW r, Put(q, r),
         UNCHANGED <<batches, total, owner>>,
         r.pc = "loop" => /\ r.batch \in batches \cup {q}
                          /\ r.sum = SumOf(r.list \ r.todo)
  PROVE  TotalInv'
<1>1. req'[q] = r /\ \A p \in Requests : p # q => req'[p] = req[p]
  BY DEF Put, PayInv, TypeOK
<1>2. \A S : SumOf(S)' = SumOf(S)
  OBVIOUS
<1>. QED
  BY <1>1, <1>2 DEF TotalInv, OneList

LEMMA TotalFail ==
  ASSUME PayInv, TotalInv, NEW q \in Requests, Fail(q) PROVE TotalInv'
<1>. DEFINE r == [Blank EXCEPT !.pc = "failed", !.list = req[q].list]
<1>1. r.pc = "failed"
  BY DEF Blank
<1>2. Put(q, r) /\ UNCHANGED <<batches, total, owner>>
  BY DEF Fail
<1>. HIDE DEF r
<1>. QED
  BY <1>1, <1>2, TotalPut

LEMMA TotalLook ==
  ASSUME PayInv, TotalInv, NEW q \in Requests, NEW k \in Keys, Look(q, k)
  PROVE  TotalInv'
<1>. DEFINE added == IF Found(k) THEN {} ELSE {k}
            r == [req[q] EXCEPT !.todo = @ \ {k}, !.sum = @ + Amount[k], !.added = added]
            S == req[q].list \ (req[q].todo \ {k})
<1>1. /\ req[q] \in Request /\ req[q].list \in Lists
      /\ k \in req[q].todo /\ req[q].todo \subseteq req[q].list
      /\ req[q].batch \in batches \cup {q}
      /\ req[q].sum = SumOf(req[q].list \ req[q].todo)
  BY DEF PayInv, TypeOK, Accounted, Look, TotalInv
<1>2. /\ r.list = req[q].list /\ r.todo = req[q].todo \ {k}
      /\ r.batch = req[q].batch /\ r.sum = req[q].sum + Amount[k]
  BY <1>1 DEF Request
<1>3. S \in SUBSET Keys /\ IsFiniteSet(S) /\ k \in S /\ S \ {k} = req[q].list \ req[q].todo
  <2>1. S \in SUBSET req[q].list
    OBVIOUS
  <2>2. req[q].list \in SUBSET Keys /\ IsFiniteSet(req[q].list)
    BY <1>1, ListsAssumption
  <2>3. IsFiniteSet(S) /\ S \in SUBSET Keys
    BY <2>1, <2>2, FS_Subset
  <2>. QED
    BY <1>1, <2>3
<1>4. SumOf(S) = SumOf(S \ {k}) + Amount[k]
  BY <1>3, SumAdds
<1>5. Put(q, r) /\ UNCHANGED <<batches, total, owner>>
  BY DEF Look
<1>. HIDE DEF r
<1>6. r.sum = SumOf(r.list \ r.todo)
  BY <1>1, <1>2, <1>3, <1>4
<1>. QED
  BY <1>1, <1>2, <1>5, <1>6, TotalPut

\* What a commit writes, or leaves because it loaded it, is the sum of the list.
LEMMA TotalCommit ==
  ASSUME PayInv, TotalInv, NEW q \in Requests, Commit(q) PROVE TotalInv'
<1>. DEFINE b == req[q].batch
            r == [Blank EXCEPT !.pc = "answered", !.list = req[q].list]
<1>1. /\ req \in [Requests -> Request] /\ total \in [Requests -> Nat]
      /\ batches \subseteq Requests
      /\ b \in Requests /\ b \in batches \cup {q} /\ req[q].list \in Lists
      /\ req[q].sum = SumOf(req[q].list \ {})
  BY DEF PayInv, TypeOK, Accounted, Commit, TotalInv
<1>2. r.pc = "answered" /\ Put(q, r)
  BY DEF Blank, Commit
<1>. HIDE DEF r
<1>3. req'[q].pc = "answered" /\ \A p \in Requests : p # q => req'[p] = req[p]
  BY <1>1, <1>2 DEF Put
<1>4. /\ batches' = batches \cup {b}
      /\ total'[b] = NewTotal(q)
      /\ \A c \in Requests : c # b => total'[c] = total[c]
  BY <1>1 DEF Commit
<1>5. \A S : SumOf(S)' = SumOf(S)
  OBVIOUS
<1>6. req[q].list \ {} = req[q].list
  OBVIOUS
<1>7. ASSUME OneList, NEW c \in batches', NEW list \in Lists PROVE total'[c] = SumOf(list)
  <2>1. \A d \in batches : total[d] = SumOf(list)
    BY <1>7 DEF TotalInv
  <2>2. list = req[q].list
    BY <1>1, <1>7 DEF OneList
  <2>3. NewTotal(q) = SumOf(list)
    BY <1>1, <1>6, <2>1, <2>2 DEF NewTotal
  <2>. QED
    BY <1>1, <1>4, <2>1, <2>3
<1>8. ASSUME NEW p \in Requests, req'[p].pc = "loop"
      PROVE  /\ req'[p].batch \in batches' \cup {p}
             /\ req'[p].sum = SumOf(req'[p].list \ req'[p].todo)
  BY <1>3, <1>4, <1>8 DEF TotalInv
<1>9. OneList' <=> OneList
  BY DEF OneList
<1>. QED
  BY <1>5, <1>7, <1>8, <1>9 DEF TotalInv

LEMMA TotalStep == PayInv /\ TotalInv /\ [Next]_vars => TotalInv'
<1>. SUFFICES ASSUME PayInv, TotalInv, [Next]_vars PROVE TotalInv'
  OBVIOUS
<1>t. req \in [Requests -> Request] /\ batches \subseteq Requests
  BY DEF PayInv, TypeOK
<1>1. ASSUME NEW q \in Requests, NEW list \in Lists, PickBatch(q, list) PROVE TotalInv'
  <2>1. PICK b \in IF batches = {} THEN {q} ELSE batches :
          Put(q, [Blank EXCEPT !.pc = "loop", !.list = list, !.todo = list,
                               !.batch = b, !.seen = IF b = q THEN 0 ELSE total[b]])
    BY <1>1 DEF PickBatch
  <2>. DEFINE r == [Blank EXCEPT !.pc = "loop", !.list = list, !.todo = list,
                                 !.batch = b, !.seen = IF b = q THEN 0 ELSE total[b]]
  <2>2. /\ r.batch = b /\ r.sum = 0 /\ r.list = list /\ r.todo = list
        /\ Put(q, r) /\ UNCHANGED <<batches, total, owner>>
    BY <2>1, <1>1 DEF Blank, PickBatch
  <2>3. SumOf({}) = 0
    BY SumStep, FS_EmptySet
  <2>. HIDE DEF r
  <2>4. r.list \ r.todo = {} /\ b \in batches \cup {q}
    BY <2>2
  <2>. QED
    BY <2>2, <2>3, <2>4, TotalPut
<1>2. ASSUME NEW q \in Requests, Insert(q) PROVE TotalInv'
  <2>. DEFINE r == [req[q] EXCEPT !.held = @ \cup req[q].added, !.added = {}]
  <2>1. /\ r.pc = req[q].pc /\ r.list = req[q].list /\ r.todo = req[q].todo
        /\ r.batch = req[q].batch /\ r.sum = req[q].sum
    BY <1>t DEF Request
  <2>2. Put(q, r) /\ UNCHANGED <<batches, total, owner>>
    BY <1>2 DEF Insert
  <2>. HIDE DEF r
  <2>. QED
    BY <2>1, <2>2, TotalPut DEF TotalInv
<1>3. CASE UNCHANGED vars
  <2>1. \A S : SumOf(S)' = SumOf(S)
    OBVIOUS
  <2>. QED
    BY <1>3, <2>1 DEF vars, TotalInv, OneList
<1>. QED
  BY <1>1, <1>2, <1>3, TotalFail, TotalLook, TotalCommit
     DEF Next, Progress, Duplicate, DeadlockAbort, Crash, Idle

\* The batch of the list has the total of its transactions, although requests that
\* find everything paid commit totals too, and one that loaded a total may leave
\* it: none takes back a total (create_batch, routes.py 60-104).
THEOREM TotalIsTheSum == Spec => []BatchTotalIsItsSum
<1>1. Init => TotalInv
  BY DEF Init, Blank, TotalInv
<1>2. BatchHoldsTheList /\ PayInv /\ TotalInv => BatchTotalIsItsSum
  <2>. SUFFICES ASSUME BatchHoldsTheList, TotalInv, OneList, NEW b \in batches, Owned(b) # {}
                PROVE  total[b] = SumOf(Owned(b))
    BY DEF BatchTotalIsItsSum, SumOf
  <2>1. Owned(b) \in Lists
    BY DEF BatchHoldsTheList
  <2>. QED
    BY <2>1 DEF TotalInv
<1>. QED
  BY <1>1, <1>2, PayInit, PayStep, TotalStep, OneBatchHoldsTheList, PTL DEF Spec

=============================================================================
