---------------------------- MODULE PayoutService ----------------------------
(***************************************************************************)
(* payout-service, POST /payouts/batches (app/routes.py create_batch), for *)
(* one tenant and cycle: concurrent requests, each one database            *)
(* transaction on the batches and the transactions of the cycle.           *)
(*                                                                         *)
(* A key stands for the idempotency key of a transaction to pay: the hash  *)
(* of tenant, cycle, employee, amount and bank account.  A session sends   *)
(* an added row to the database before its next SELECT (autoflush) or at   *)
(* the commit; the unique index on idempotency_key makes an INSERT wait    *)
(* for the transaction that holds the same key, fail if that one commits,  *)
(* and be aborted when transactions wait for each other.                   *)
(*                                                                         *)
(* retry_transaction is not here: every transaction is inserted as SUCCESS *)
(* and no code writes another status, so all it can answer is an error.    *)
(***************************************************************************)
EXTENDS Integers, FiniteSets, FiniteSetsExt

CONSTANTS
    Keys,       \* idempotency keys
    Amount,     \* the amount that is part of each key
    Lists,      \* the lists of transactions callers submit
    Requests,   \* invocations of create_batch (bounds the behaviour)
    None

ASSUME AmountAssumption == Amount \in [Keys -> Nat]
ASSUME ListsAssumption  == /\ Lists \subseteq SUBSET Keys
                           /\ \A list \in Lists : IsFiniteSet(list)
ASSUME NoneAssumption   == None \notin Requests

VARIABLES
    batches,   \* committed payout_batches: each named after its creator
    total,     \* total_amount of the committed batches
    owner,     \* committed payout_transactions: the batch of each key
    req        \* the requests

vars == <<batches, total, owner, req>>

-----------------------------------------------------------------------------
\* A request: the list submitted, the keys still to look at (todo), the batch
\* it fills and the total it loaded with it, the rows it has inserted (held),
\* the row added but not yet sent (added), and the sum so far.
Request == [pc : {"new", "loop", "answered", "failed"}, list : SUBSET Keys,
            todo : SUBSET Keys, batch : Requests \cup {None}, seen : Nat,
            held : SUBSET Keys, added : SUBSET Keys, sum : Nat]

Blank == [pc |-> "new", list |-> {}, todo |-> {}, batch |-> None, seen |-> 0,
          held |-> {}, added |-> {}, sum |-> 0]

Put(q, r) == req' = [req EXCEPT ![q] = r]

Paid == {k \in Keys : owner[k] # None}

\* The transaction rolls back: its rows and its locks are gone.
Fail(q) == /\ Put(q, [Blank EXCEPT !.pc = "failed", !.list = req[q].list])
           /\ UNCHANGED <<batches, total, owner>>

\* SELECT the batch of the cycle (any of them, if there are several), or add
\* one with total 0.
PickBatch(q, list) ==
    /\ req[q].pc = "new"
    /\ \E b \in IF batches = {} THEN {q} ELSE batches :
         Put(q, [Blank EXCEPT !.pc = "loop", !.list = list, !.todo = list,
                              !.batch = b, !.seen = IF b = q THEN 0 ELSE total[b]])
    /\ UNCHANGED <<batches, total, owner>>

\* What the SELECT by idempotency key sees: committed rows only.
Found_Uncommitted(k) == k \in Paid \/ \E p \in Requests : k \in req[p].held  \* mutation
Found(k) == k \in Paid

\* SELECT the transaction of a key: counted if there, else added.
Look_NotCounted(q, k) ==                                        \* mutation
    /\ req[q].pc = "loop" /\ req[q].added = {} /\ k \in req[q].todo
    /\ Put(q, [req[q] EXCEPT !.todo = @ \ {k},
                             !.sum = IF Found(k) THEN @ ELSE @ + Amount[k],
                             !.added = IF Found(k) THEN {} ELSE {k}])
    /\ UNCHANGED <<batches, total, owner>>
Look(q, k) ==
    /\ req[q].pc = "loop" /\ req[q].added = {}
    /\ k \in req[q].todo
    /\ Put(q, [req[q] EXCEPT !.todo = @ \ {k}, !.sum = @ + Amount[k],
                             !.added = IF Found(k) THEN {} ELSE {k}])
    /\ UNCHANGED <<batches, total, owner>>

\* q's INSERT of the row it added has to wait for p's transaction.
Waits(q, p) == p # q /\ req[q].added \cap req[p].held # {}

\* The INSERT goes through.
Insert(q) ==
    /\ req[q].added # {}
    /\ \A p \in Requests : ~ Waits(q, p)
    /\ req[q].added \cap Paid = {}
    /\ Put(q, [req[q] EXCEPT !.held = @ \cup req[q].added, !.added = {}])
    /\ UNCHANGED <<batches, total, owner>>

\* uq_payout_idem: the key has been committed in the meantime (500).
Duplicate(q) ==
    /\ req[q].added \cap Paid # {}
    /\ Fail(q)

\* Transactions that wait for each other: the database aborts one (500).
Deadlocked(q) ==
    \E S \in SUBSET Requests :
        q \in S /\ \A p \in S : \E r \in S : Waits(p, r)

DeadlockAbort_Never(q) == FALSE /\ Fail(q)                      \* mutation
DeadlockAbort(q) == Deadlocked(q) /\ Fail(q)

\* The batch becomes COMPLETED with the sum of the submitted list, and all of
\* it is committed.  The UPDATE of a batch that was found names total_amount
\* only if it differs from the total that was loaded.
NewTotal_Swapped(q) == req[q].seen - req[q].sum                 \* mutation
NewTotal(q) == IF req[q].batch = q \/ req[q].sum # req[q].seen
               THEN req[q].sum ELSE total[req[q].batch]

Commit_PerTransaction(q) ==                                     \* mutation
    /\ req[q].pc = "loop" /\ req[q].added = {} /\ req[q].held # {}
    /\ batches' = batches \cup {req[q].batch}
    /\ owner' = [k \in Keys |-> IF k \in req[q].held THEN req[q].batch ELSE owner[k]]
    /\ Put(q, [req[q] EXCEPT !.held = {}])
    /\ UNCHANGED total
Commit(q) ==
    /\ req[q].pc = "loop" /\ req[q].todo = {} /\ req[q].added = {}
    /\ batches' = batches \cup {req[q].batch}
    /\ total' = [total EXCEPT ![req[q].batch] = NewTotal(q)]
    /\ owner' = [k \in Keys |-> IF k \in req[q].held THEN req[q].batch ELSE owner[k]]
    /\ Put(q, [Blank EXCEPT !.pc = "answered", !.list = req[q].list])

\* The service dies or the connection to the database is lost.
Crash(q) == req[q].pc = "loop" /\ Fail(q)

InFlight == {q \in Requests : req[q].pc = "loop"}

Idle == InFlight = {} /\ UNCHANGED vars

Init == /\ batches = {}
        /\ total = [q \in Requests |-> 0]
        /\ owner = [k \in Keys |-> None]
        /\ req = [q \in Requests |-> Blank]

Progress(q) == \/ \E k \in Keys : Look(q, k)
               \/ Insert(q) \/ Duplicate(q) \/ DeadlockAbort(q) \/ Commit(q)

Next == \/ \E q \in Requests : \/ \E list \in Lists : PickBatch(q, list)
                               \/ Progress(q) \/ Crash(q)
        \/ Idle

Spec == Init /\ [][Next]_vars

\* The event loop runs every handler that is ready; the database lets every
\* transaction proceed that waits for none, and resolves deadlocks.
Fairness == \A q \in Requests : WF_vars(Progress(q))

FairSpec == Spec /\ Fairness

-----------------------------------------------------------------------------
(* Properties *)

TypeOK ==
    /\ batches \subseteq Requests
    /\ total \in [Requests -> Nat]
    /\ owner \in [Keys -> Requests \cup {None}]
    /\ req \in [Requests -> Request]

\* A caller that was answered has had its whole list paid, by itself or by an
\* earlier call (create_batch, routes.py 66-104).
AnsweredIsPaid ==
    \A q \in Requests : req[q].pc = "answered" => req[q].list \subseteq Paid

\* When all callers submit the same list, as the approvals of one cycle do, it is
\* all in one batch, whatever duplicates, lock waits and deadlocks there were on
\* the way: no retry fills another batch with what an earlier one left.
OneList == \A s, t \in Lists : s = t
Owned(b) == {k \in Keys : owner[k] = b}
BatchHoldsTheList ==
    OneList => \A b \in batches : Owned(b) # {} => Owned(b) \in Lists

\* ... and the total of that batch is the sum of its transactions, although a
\* request that finds them all paid already writes a total too.
BatchTotalIsItsSum ==
    OneList => \A b \in batches : Owned(b) # {} =>
        total[b] = MapThenSumSet(LAMBDA k : Amount[k], Owned(b))

\* Every request ends although transactions wait for each other's keys.
RequestsEnd == InFlight # {} ~> InFlight = {}

\* payout-service keeps the promise its callers rely on.
Promise == INSTANCE Payments WITH paid <- Paid
KeepsPromise == Promise!Spec

(* A statement of the code that a run refutes *)

\* "Reuse an existing batch for this cycle if present (idempotent re-approve)"
\* (routes.py 48): a cycle has one batch.
OneBatchPerCycle == Cardinality(batches) <= 1

=============================================================================
