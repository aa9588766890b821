------------------------- MODULE RefundTransactions -------------------------
(***************************************************************************)
(* The transactions behind OrderRefunds, statement by statement, as        *)
(* PostgreSQL runs them at READ COMMITTED: every statement sees what was   *)
(* committed when it ran, a SELECT ... FOR UPDATE waits for the row and    *)
(* then reads its newest version, an INSERT takes a key-share lock on the  *)
(* rows its foreign keys name, and locks are kept to the end of the        *)
(* transaction.  A transaction's own writes stay invisible until it        *)
(* commits, so they are made in the committing step.                       *)
(*                                                                         *)
(* The question is whether the rows the code chooses to lock are enough:   *)
(* every commit must be one of the atomic steps of OrderRefunds.  Checkout *)
(* makes rows nobody else can see yet and stays one step here.             *)
(***************************************************************************)
EXTENDS OrderRefunds, Sequences

CONSTANTS
    PoolSize,      \* connections of the pool, one per request in flight
    Served         \* the kinds of request an instance lets clients make

StaffOrderOps == {"start_processing", "ready_shipped", "staff_cancel"}
OwnerOps      == {"cancel_order", "confirm_delivery"}
RequestOps    == {"approve", "reject", "process"}
AmountOps     == {"create_request", "post_refund"}

ASSUME PoolAssumption == PoolSize \in Nat \ {0}
ASSUME ServedAssumption == Served \subseteq StaffOrderOps \cup OwnerOps \cup RequestOps \cup AmountOps

VARIABLES
    txn,           \* [Clients -> the transaction of the request in flight]
    locks          \* the row locks held: records [row, mode, by]

allvars == <<order, payment, request, refund, view, txn, locks>>

Idle == [op |-> "idle"]

TxnInit == Init /\ txn = [c \in Clients |-> Idle] /\ locks = {}

-----------------------------------------------------------------------------
(* The statements of a transaction, in order: what each one reads and the   *)
(* lock it takes on it.                                                     *)

Locking(what)  == [what |-> what, mode |-> "update"]
KeyShare(what) == [what |-> what, mode |-> "key_share"]
Reading(what)  == [what |-> what, mode |-> "read"]

\* Mutant: order and payment are looked up and not locked.
OrderRowsUnlocked == <<Reading("order"), Reading("payment")>>

OrderRows == <<Locking("order"), Locking("payment")>>

\* Mutant: the item is looked up and not locked.
RequestRowsUnlockedItem == <<Reading("item"), Locking("request")>>

RequestRows == <<Locking("item"), Locking("request")>>

\* Mutant: a decision locks order and payment first.
DecisionRowsOrderFirst == OrderRows \o RequestRows

DecisionRows == RequestRows \o OrderRows

Plan(op) ==
    CASE op \in StaffOrderOps \cup {"cancel_order"} -> OrderRows
      [] op = "confirm_delivery" -> <<Locking("order")>>
      [] op = "create_request" ->
           <<Locking("item")>> \o OrderRows
             \o <<Reading("pending"), Reading("refunded"), Reading("reserved")>>
      [] op = "approve" -> DecisionRows \o <<Reading("refunded"), Reading("reserved")>>
      [] op = "reject"  -> RequestRows
      [] op = "process" -> DecisionRows \o <<Reading("refunded"), Reading("order_refunded")>>
      [] op = "post_refund" -> <<Locking("item"), Reading("refunded"), KeyShare("order")>>

\* The committed value a statement of transaction t returns.
Value(t, what) ==
    CASE what = "item"     -> Price[t.item]
      [] what = "order"    -> order[t.order]
      [] what = "payment"  -> payment[t.order]
      [] what = "request"  -> request[t.request]
      [] what = "pending"  -> {q \in Requests : request[q].item = t.item /\ request[q].status = "pending"}
      [] what = "refunded" -> Refunded(t.item)
      [] what = "reserved" -> Reserved(t.item, {t.request})
      [] what = "order_refunded" -> OrderRefunded(t.order, refund)

\* The row a statement locks.
Row(t, what) ==
    <<what, CASE what = "item" -> t.item [] what = "request" -> t.request
              [] what \in {"order", "payment"} -> t.order>>

-----------------------------------------------------------------------------
(* What a transaction concludes from what it has seen; it rolls back as     *)
(* soon as one of these is false.                                           *)

Seen(t, what) == what \in DOMAIN t.seen

VersionIs(row, t, status) == row.version = t.version /\ row.status = status

CompatibleSeen(p) ==
    p.status = "paid" \/ (p.method = "cash_on_delivery" /\ p.status = "pending")

EligibleSeen(o, p) ==
    o.status \in {"ready_shipped", "delivered"} /\ p.status \in {"paid", "partially_refunded"}

RequiredStatus == [start_processing |-> "pending", ready_shipped    |-> "processing",
                   staff_cancel     |-> "pending", cancel_order     |-> "pending",
                   confirm_delivery |-> "ready_shipped",
                   approve |-> "pending", reject |-> "pending", process |-> "approved"]

\* transition checks version and status after both locks, cancel_order and
\* confirm_delivery as soon as they hold the order.
OrderPasses(t) ==
    /\ Seen(t, IF t.op \in StaffOrderOps THEN "payment" ELSE "order") =>
         VersionIs(t.seen.order, t, RequiredStatus[t.op])
    /\ Seen(t, "payment") => CompatibleSeen(t.seen.payment)

RefundPasses(t) ==
    LET taken == (IF Seen(t, "refunded") THEN t.seen.refunded ELSE 0)
                   + (IF Seen(t, "reserved") THEN t.seen.reserved ELSE 0)
    IN  /\ Seen(t, "request") => VersionIs(t.seen.request, t, RequiredStatus[t.op])
        /\ Seen(t, "payment") => EligibleSeen(t.seen.order, t.seen.payment)
        /\ Seen(t, "pending") => t.seen.pending = {}
        /\ t.amount <= Remaining(t.item, taken)

Passes(t) == IF t.op \in StaffOrderOps \cup OwnerOps THEN OrderPasses(t) ELSE RefundPasses(t)

-----------------------------------------------------------------------------
(* Locks.                                                                   *)

Conflict(mode, held) == {mode, held} # {"key_share"}

Blocking(c, s) ==
    {l \in locks : l.row = Row(txn[c], s.what) /\ l.by # c /\ Conflict(s.mode, l.mode)}

NextStatement(c) == Plan(txn[c].op)[txn[c].done + 1]

Waiting(c) ==
    /\ txn[c] # Idle /\ txn[c].done < Len(Plan(txn[c].op))
    /\ NextStatement(c).mode # "read" /\ Blocking(c, NextStatement(c)) # {}

\* Mutant: the connection goes back to the pool with its transaction open.
ReleaseKeepingLocks(c) == txn' = [txn EXCEPT ![c] = Idle] /\ locks' = locks

\* COMMIT and ROLLBACK give every lock back, and the client gets its answer.
Release(c) ==
    /\ txn' = [txn EXCEPT ![c] = Idle]
    /\ locks' = {l \in locks : l.by # c}

-----------------------------------------------------------------------------
(* A request begins with what the client's browser shows.                   *)

\* The bound of the model: a transaction that inserts a row begins while one of
\* the finitely many ids is left for it.
InFlight(ops) == {d \in Clients : txn[d].op \in ops}
IdsLeft(op) ==
    /\ op = "create_request" =>
         Cardinality(InFlight({op})) < Cardinality({r \in Requests : request[r] = NoRequest})
    /\ op \in {"process", "post_refund"} =>
         Cardinality(InFlight({"process", "post_refund"}))
           < Cardinality({f \in Refunds : refund[f] = NoRefund})

Begin(c, op, o, i, r, amount, version) ==
    /\ op \in Served /\ IdsLeft(op)
    /\ txn[c] = Idle
    /\ Cardinality(Clients \ InFlight({"idle"})) < PoolSize
    /\ txn' = [txn EXCEPT ![c] = [op |-> op, order |-> o, item |-> i, request |-> r,
                                  amount |-> amount, version |-> version,
                                  done |-> 0, seen |-> <<>>]]
    /\ UNCHANGED <<order, payment, request, refund, view, locks>>

BeginOrderOp(c, op, o) ==
    /\ op \in (IF c \in Staff THEN StaffOrderOps ELSE OwnerOps)
    /\ c \in Staff \/ Owner[o] = c
    /\ view[c].row = o
    /\ Begin(c, op, o, None, None, 0, view[c].version)

\* The request's item, order and amount never change; they are read first.
BeginDecision(s, op, r) ==
    /\ view[s].row = r
    /\ Begin(s, op, OrderOf[request[r].item], request[r].item, r, request[r].amount, view[s].version)

BeginCreateRequest(c, i, amount) ==
    /\ Owner[OrderOf[i]] = c /\ order[OrderOf[i]] # NoOrder
    /\ Begin(c, "create_request", OrderOf[i], i, None, amount, 0)

BeginPostRefund(s, i, amount) ==
    /\ order[OrderOf[i]] # NoOrder
    /\ Begin(s, "post_refund", OrderOf[i], i, None, amount, 0)

\* A statement returns; what it read before of the same row is replaced.
After(t, what) ==
    [t EXCEPT !.done = @ + 1,
              !.seen = [w \in {what} \cup DOMAIN t.seen |-> IF w = what THEN Value(t, what) ELSE t.seen[w]]]

\* One statement: wait for the lock, read, and go on or roll back.
Statement(c) ==
    /\ txn[c] # Idle /\ txn[c].done < Len(Plan(txn[c].op))
    /\ ~Waiting(c)
    /\ LET s == NextStatement(c)
           t == After(txn[c], s.what)
       IN  IF Passes(t)
             THEN /\ txn' = [txn EXCEPT ![c] = t]
                  /\ locks' = IF s.mode = "read" THEN locks
                              ELSE locks \cup {[row |-> Row(t, s.what), mode |-> s.mode, by |-> c]}
             ELSE Release(c)
    /\ UNCHANGED <<order, payment, request, refund, view>>

\* The connection is lost, or the request fails for another reason.
RollBack(c) ==
    /\ txn[c] # Idle
    /\ Release(c)
    /\ UNCHANGED <<order, payment, request, refund, view>>

-----------------------------------------------------------------------------
(* The writes of each transaction, made when it commits.                    *)

WriteOrder(t) ==
    LET o == t.order IN
    /\ CASE t.op = "start_processing" ->
              MoveOrder(o, "processing") /\ UNCHANGED payment
         [] t.op = "ready_shipped" ->
              /\ MoveOrder(o, "ready_shipped")
              /\ payment' = [payment EXCEPT ![o].status = "paid"]
         [] t.op \in {"staff_cancel", "cancel_order"} ->
              /\ MoveOrder(o, "cancelled")
              /\ payment' = [payment EXCEPT ![o].status =
                    IF t.seen.payment.status = "paid" THEN "refunded" ELSE @]
         [] t.op = "confirm_delivery" ->
              /\ order' = [order EXCEPT ![o] = [status |-> "delivered", version |-> @.version + 1,
                                                confirmed |-> TRUE]]
              /\ UNCHANGED payment
    /\ UNCHANGED <<request, refund>>

WriteRequest(t) ==
    /\ CASE t.op = "create_request" ->
              \E r \in Requests :
                 /\ request[r] = NoRequest
                 /\ request' = [request EXCEPT ![r] = [status |-> "pending", version |-> 1,
                                                       item |-> t.item, amount |-> t.amount]]
         [] t.op = "approve" -> MoveRequest(t.request, "approved")
         [] t.op = "reject"  -> MoveRequest(t.request, "rejected")
    /\ UNCHANGED <<order, payment, refund>>

\* The sum over the order was read after the row was inserted.
WriteRefund(t, f) ==
    /\ InsertRefund(f, t.item, t.amount, t.request)
    /\ IF t.op = "post_refund"
         THEN UNCHANGED <<order, payment, request>>
         ELSE /\ MoveRequest(t.request, "processed")
              /\ IF t.seen.order_refunded + t.amount >= OrderTotal(t.order)
                   THEN /\ payment' = [payment EXCEPT ![t.order].status = "refunded"]
                        /\ MoveOrder(t.order, "refunded")
                   ELSE /\ payment' = [payment EXCEPT ![t.order].status = "partially_refunded"]
                        /\ UNCHANGED order

Commit(c) ==
    LET t == txn[c] IN
    /\ t # Idle /\ t.done = Len(Plan(t.op))
    /\ CASE t.op \in StaffOrderOps \cup OwnerOps -> WriteOrder(t)
         [] t.op \in {"create_request", "approve", "reject"} -> WriteRequest(t)
         [] t.op \in {"process", "post_refund"} -> \E f \in Refunds : WriteRefund(t, f)
    /\ Release(c)
    /\ UNCHANGED view

-----------------------------------------------------------------------------
\* A client that waits for an answer does nothing else.
Read(c, row) == txn[c] = Idle /\ Open(c, row) /\ UNCHANGED <<txn, locks>>

PlaceOrder(o, m) == Checkout(o, m) /\ UNCHANGED <<txn, locks>>

Submit(c) ==
    \/ \E o \in Orders, op \in StaffOrderOps \cup OwnerOps : BeginOrderOp(c, op, o)
    \/ \E i \in Items : \E amount \in 1..Price[i] :
         c \in Customers /\ BeginCreateRequest(c, i, amount)
    \/ \E r \in Requests, op \in RequestOps : c \in Staff /\ BeginDecision(c, op, r)
    \/ \E i \in Items : \E amount \in 1..Price[i] :
         c \in Staff /\ BeginPostRefund(c, i, amount)

Answer(c) == Statement(c) \/ Commit(c)

TxnNext ==
    \/ \E o \in Orders, m \in Methods : PlaceOrder(o, m)
    \/ \E c \in Clients, row \in Rows : Read(c, row)
    \/ \E c \in Clients : Submit(c) \/ Answer(c) \/ RollBack(c)

\* A backend process runs its statements, and PostgreSQL grants a row lock in
\* the order of its queue: nobody that keeps asking is passed over for ever.
TxnSpec == TxnInit /\ [][TxnNext]_allvars /\ \A c \in Clients : SF_allvars(Answer(c))

-----------------------------------------------------------------------------
(* Properties.                                                              *)

\* Every commit is one of the atomic steps of OrderRefunds, its guards true of
\* the committed rows at that moment: the locks leave no gap between what a
\* transaction reads and what it writes.
RequestsAreAtomic == ApiSpec

\* No transactions wait for each other in a circle, so PostgreSQL never has to
\* abort one of them: decisions lock item, request, order and payment, order
\* transitions order and payment, and both orders agree.
NoCircularWait ==
    \A S \in (SUBSET Clients) \ {{}} :
        \E c \in S : ~(Waiting(c) /\ \E d \in S : \E l \in Blocking(c, NextStatement(c)) : l.by = d)

\* Every request is answered: each client is again and again without one.
RequestsEnd == \A c \in Clients : []<>(txn[c] = Idle)

=============================================================================
