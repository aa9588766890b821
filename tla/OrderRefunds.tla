---------------------------- MODULE OrderRefunds ----------------------------
(***************************************************************************)
(* Customer orders of RetailMetricsWeb, from the checkout that places them *)
(* to the refund that closes them: the order lifecycle run by staff and    *)
(* customers, the simulated payment beside it, the refund requests and the *)
(* refund rows.                                                            *)
(*                                                                         *)
(* One action is one HTTP request, that is one database transaction.  The  *)
(* module RefundTransactions opens the transactions up into their locking  *)
(* statements and shows that the row locks the code takes make this view   *)
(* of them right.                                                          *)
(*                                                                         *)
(* A client decides on what its browser shows.  The row a client has open, *)
(* with the row_version and the status it was shown, is client state: it   *)
(* goes stale as soon as somebody else changes the row, and a client may   *)
(* submit it again.                                                        *)
(***************************************************************************)
EXTENDS Cents

CONSTANTS
    Orders,        \* ids checkout may give to orders
    Items,         \* order_item rows, one per unit bought
    OrderOf,       \* the order an item belongs to
    Price,         \* what was paid for an item, in cents
    Customers, Staff,
    Owner,         \* the customer that places an order
    Requests,      \* ids of refund requests
    Refunds,       \* ids of order_item_refunds rows
    None           \* no row

ASSUME RowsAssumption ==
    /\ IsFiniteSet(Items) /\ IsFiniteSet(Requests) /\ IsFiniteSet(Refunds)
    /\ OrderOf \in [Items -> Orders]
    /\ Owner \in [Orders -> Customers]
    /\ \A o \in Orders : \E i \in Items : OrderOf[i] = o
    /\ Orders \cap Requests = {}
    /\ None \notin Orders \cup Requests \cup Items \cup Refunds

\* ck_order_items_price and the catalog's ck_product_catalog_details_price.
ASSUME PriceAssumption == Price \in [Items -> Nat \ {0}]

VARIABLES
    order,         \* [Orders -> status, row_version, confirmed delivery]
    payment,       \* [Orders -> method and status of order_payments]
    request,       \* [Requests -> the refund_requests row]
    refund,        \* [Refunds -> the order_item_refunds row]
    view           \* [client -> the row its browser shows]

vars == <<order, payment, request, refund, view>>

-----------------------------------------------------------------------------
OrderStatus == {"pending", "processing", "ready_shipped", "delivered",
                "cancelled", "refunded"}

\* 'failed' is in the column's domain and no code writes it.
PaymentStatus == {"pending", "paid", "failed", "partially_refunded", "refunded"}

RequestStatus == {"pending", "approved", "rejected", "processed"}

\* Every method but cash on delivery is collected when the order is placed.
Methods == {"prepaid", "cash_on_delivery"}

Rows == Orders \cup Requests
Clients == Customers \cup Staff

\* A row that is not there (yet, or any more).
NoOrder   == [status |-> "none", version |-> 0, confirmed |-> FALSE]
NoPayment == [method |-> "prepaid", status |-> "none"]
NoRequest == [status |-> "none", version |-> 0, item |-> None, amount |-> 0]
NoRefund  == [item |-> None, amount |-> 0, request |-> None]
NoView    == [row |-> None, version |-> 0, status |-> "none"]

Init ==
    /\ order   = [o \in Orders |-> NoOrder]
    /\ payment = [o \in Orders |-> NoPayment]
    /\ request = [r \in Requests |-> NoRequest]
    /\ refund  = [f \in Refunds |-> NoRefund]
    /\ view    = [c \in Clients |-> NoView]

Status(row)  == IF row \in Orders THEN order[row].status ELSE request[row].status
Version(row) == IF row \in Orders THEN order[row].version ELSE request[row].version

-----------------------------------------------------------------------------
(* The amounts the refund workflow reads.                                   *)

RefundAmounts  == [f \in Refunds |-> refund[f].amount]
RequestAmounts == [r \in Requests |-> request[r].amount]

RefundsOf(i)  == {f \in Refunds : refund[f].item = i}
ApprovedOf(i) == {r \in Requests : request[r].item = i /\ request[r].status = "approved"}
ItemsOf(o)    == {i \in Items : OrderOf[i] = o}

\* Mutant: the order is priced at one of its items.
OrderTotalOneItem(o)     == Price[CHOOSE i \in ItemsOf(o) : TRUE]

Refunded(i)         == Sum(RefundsOf(i), RefundAmounts)
Reserved(i, except) == Sum(ApprovedOf(i) \ except, RequestAmounts)
OrderTotal(o)       == Sum(ItemsOf(o), Price)

\* SUM(refund_amount_usd) over the order, in the refund table rows.
OrderRefunded(o, rows) ==
    Sum({f \in Refunds : rows[f].item \in ItemsOf(o)}, [f \in Refunds |-> rows[f].amount])

\* Mutant: what approved requests have reserved is left out.
RemainingUnreserved(i, taken) == IF Refunded(i) < Price[i] THEN Price[i] - Refunded(i) ELSE 0

\* What is left of the item's price, never less than nothing.
Remaining(i, taken) == IF taken < Price[i] THEN Price[i] - taken ELSE 0

\* Mutant: the payment alone decides.
EligibleByPayment(o) == payment[o].status \in {"paid", "partially_refunded"}

Eligible(o) ==
    /\ order[o].status \in {"ready_shipped", "delivered"}
    /\ payment[o].status \in {"paid", "partially_refunded"}

-----------------------------------------------------------------------------
(* Reading: a client opens a row it may see.                                *)

Open(c, row) ==
    /\ Status(row) # "none"
    /\ c \in Customers => row \in Orders /\ Owner[row] = c
    /\ view' = [view EXCEPT ![c] = [row     |-> row,
                                    version |-> Version(row),
                                    status  |-> Status(row)]]
    /\ UNCHANGED <<order, payment, request, refund>>

\* Mutant: whatever version the client sends will do.
SubmitsAnyVersion(c, row) == view[c].row = row

\* The row_version a client sends must be the row's version now.
Submits(c, row) ==
    /\ view[c].row = row
    /\ view[c].version = Version(row)

\* Mutant: the status migration 004 renamed is still written.
MoveOrderOldName(o, status) ==
    order' = [order EXCEPT ![o].status = IF status = "ready_shipped" THEN "completed" ELSE status,
                           ![o].version = @ + 1]

MoveOrder(o, status) ==
    order' = [order EXCEPT ![o].status = status, ![o].version = @ + 1]

-----------------------------------------------------------------------------
(* Orders.                                                                  *)

Checkout(o, method) ==
    /\ order[o] = NoOrder
    /\ order' = [order EXCEPT ![o] = [status |-> "pending", version |-> 1,
                                      confirmed |-> FALSE]]
    /\ payment' = [payment EXCEPT ![o] =
                     [method |-> method,
                      status |-> IF method = "prepaid" THEN "paid" ELSE "pending"]]
    /\ UNCHANGED <<request, refund, view>>

\* A paid order, or a cash-on-delivery order not yet collected.
Uncollected(o) ==
    payment[o].method = "cash_on_delivery" /\ payment[o].status = "pending"
Compatible(o) == payment[o].status = "paid" \/ Uncollected(o)

StartProcessing(s, o) ==
    /\ Submits(s, o)
    /\ order[o].status = "pending"
    /\ Compatible(o)
    /\ MoveOrder(o, "processing")
    /\ UNCHANGED <<payment, request, refund, view>>

ReadyShippedUncollected(s, o) ==   \* Mutant: the cash is not collected.
    /\ Submits(s, o)
    /\ order[o].status = "processing"
    /\ Compatible(o)
    /\ MoveOrder(o, "ready_shipped")
    /\ UNCHANGED <<payment, request, refund, view>>

\* Handing the parcel over collects a cash-on-delivery payment.
ReadyShipped(s, o) ==
    /\ Submits(s, o)
    /\ order[o].status = "processing"
    /\ Compatible(o)
    /\ payment' = [payment EXCEPT ![o].status = "paid"]
    /\ MoveOrder(o, "ready_shipped")
    /\ UNCHANGED <<request, refund, view>>

CancelEffect(o) ==
    /\ order[o].status = "pending"
    /\ Compatible(o)
    /\ payment' = [payment EXCEPT ![o].status = IF @ = "paid" THEN "refunded" ELSE @]
    /\ MoveOrder(o, "cancelled")
    /\ UNCHANGED <<request, refund, view>>

StaffCancel(s, o) == Submits(s, o) /\ CancelEffect(o)

CancelOrder(c, o) == Owner[o] = c /\ Submits(c, o) /\ CancelEffect(o)

ConfirmDelivery(c, o) ==
    /\ Owner[o] = c
    /\ Submits(c, o)
    /\ order[o].status = "ready_shipped"
    /\ order' = [order EXCEPT ![o] = [status |-> "delivered", version |-> @.version + 1,
                                      confirmed |-> TRUE]]
    /\ UNCHANGED <<payment, request, refund, view>>

-----------------------------------------------------------------------------
(* Refund requests.                                                         *)

\* One pending request per item; the amount must fit beside what is already
\* refunded and what approved requests have reserved.
CreateRequest(c, r, i, amount) ==
    /\ Owner[OrderOf[i]] = c
    /\ Eligible(OrderOf[i])
    /\ \A q \in Requests : ~(request[q].item = i /\ request[q].status = "pending")
    /\ amount <= Remaining(i, Refunded(i) + Reserved(i, {}))
    /\ request[r] = NoRequest
    /\ request' = [request EXCEPT ![r] = [status |-> "pending", version |-> 1,
                                          item |-> i, amount |-> amount]]
    /\ UNCHANGED <<order, payment, refund, view>>

MoveRequest(r, status) ==
    request' = [request EXCEPT ![r].status = status, ![r].version = @ + 1]

Approve(s, r) ==
    LET i == request[r].item IN
    /\ Submits(s, r)
    /\ request[r].status = "pending"
    /\ Eligible(OrderOf[i])
    /\ request[r].amount <= Remaining(i, Refunded(i) + Reserved(i, {r}))
    /\ MoveRequest(r, "approved")
    /\ UNCHANGED <<order, payment, refund, view>>

Reject(s, r) ==
    /\ Submits(s, r)
    /\ request[r].status = "pending"
    /\ MoveRequest(r, "rejected")
    /\ UNCHANGED <<order, payment, refund, view>>

\* Mutant: the row does not name the request it pays.
InsertUnlinked(f, i, amount, r) ==
    /\ refund[f] = NoRefund
    /\ refund' = [refund EXCEPT ![f] = [item |-> i, amount |-> amount, request |-> None]]

InsertRefund(f, i, amount, r) ==
    /\ refund[f] = NoRefund
    /\ refund' = [refund EXCEPT ![f] = [item |-> i, amount |-> amount, request |-> r]]

\* Mutant: an order is fully refunded only when more than its total came back.
CoversOrderStrictly(o, rows) == OrderRefunded(o, rows) > OrderTotal(o)

CoversOrder(o, rows) == OrderRefunded(o, rows) >= OrderTotal(o)

\* The refund row is inserted and then the order's refunds are summed again:
\* when they cover the order's total, payment and order become refunded.
Process(s, r, f) ==
    LET i == request[r].item
        o == OrderOf[i]
    IN  /\ Submits(s, r)
        /\ request[r].status = "approved"
        /\ Eligible(o)
        /\ request[r].amount <= Remaining(i, Refunded(i))
        /\ InsertRefund(f, i, request[r].amount, r)
        /\ MoveRequest(r, "processed")
        /\ IF CoversOrder(o, refund')
             THEN /\ payment' = [payment EXCEPT ![o].status = "refunded"]
                  /\ MoveOrder(o, "refunded")
             ELSE /\ payment' = [payment EXCEPT ![o].status = "partially_refunded"]
                  /\ UNCHANGED order
        /\ UNCHANGED view

-----------------------------------------------------------------------------
(* The generic refund endpoints.  Staff may still post an actual refund     *)
(* directly; it is checked against the item's price only, whatever order    *)
(* the item belongs to, and moves neither the order nor its payment.  PUT   *)
(* and DELETE also send a row_version; a stale one changes nothing.         *)

PostRefund(f, i, amount) ==
    /\ order[OrderOf[i]] # NoOrder
    /\ Refunded(i) + amount <= Price[i]
    /\ InsertRefund(f, i, amount, None)
    /\ UNCHANGED <<order, payment, request, view>>

\* PUT may move the refund to another item; its own old amount is left out of
\* the sum.  Only staff-created refunds are mutable.
PutRefund(f, i, amount) ==
    /\ refund[f] # NoRefund /\ refund[f].request = None
    /\ order[OrderOf[i]] # NoOrder
    /\ Sum(RefundsOf(i) \ {f}, RefundAmounts) + amount <= Price[i]
    /\ refund' = [refund EXCEPT ![f] = [item |-> i, amount |-> amount, request |-> None]]
    /\ UNCHANGED <<order, payment, request, view>>

DeleteRefund(f) ==
    /\ refund[f] # NoRefund /\ refund[f].request = None
    /\ refund' = [refund EXCEPT ![f] = NoRefund]
    /\ UNCHANGED <<order, payment, request, view>>

-----------------------------------------------------------------------------
OrderStep ==
    \/ \E o \in Orders, m \in Methods : Checkout(o, m)
    \/ \E s \in Staff, o \in Orders :
         StartProcessing(s, o) \/ ReadyShipped(s, o) \/ StaffCancel(s, o)
    \/ \E c \in Customers, o \in Orders : CancelOrder(c, o) \/ ConfirmDelivery(c, o)

RefundStep ==
    \/ \E c \in Customers, r \in Requests, i \in Items :
         \E amount \in 1..Price[i] : CreateRequest(c, r, i, amount)
    \/ \E s \in Staff, r \in Requests : Approve(s, r) \/ Reject(s, r)
    \/ \E s \in Staff, r \in Requests, f \in Refunds : Process(s, r, f)

GenericStep ==
    \/ \E f \in Refunds, i \in Items :
         \E amount \in 1..Price[i] : PostRefund(f, i, amount) \/ PutRefund(f, i, amount)
    \/ \E f \in Refunds : DeleteRefund(f)

\* What the pages of the application offer.
Next ==
    \/ \E c \in Clients, row \in Rows : Open(c, row)
    \/ OrderStep
    \/ RefundStep

Spec == Init /\ [][Next]_vars

\* The same with the generic endpoints the API still serves.
ApiSpec == Init /\ [][Next \/ GenericStep]_vars

-----------------------------------------------------------------------------
(* Properties.                                                              *)

\* Every row has the columns of its table, with values from their domains.
TypeOK ==
    /\ order \in [Orders -> {NoOrder} \cup
                   [status : OrderStatus, version : Nat \ {0}, confirmed : BOOLEAN]]
    /\ payment \in [Orders -> {NoPayment} \cup [method : Methods, status : PaymentStatus]]
    /\ request \in [Requests -> {NoRequest} \cup
                     [status : RequestStatus, version : Nat \ {0},
                      item : Items, amount : Nat \ {0}]]
    /\ refund \in [Refunds -> {NoRefund} \cup
                    [item : Items, amount : Nat \ {0}, request : Requests \cup {None}]]
    /\ view \in [Clients -> [row : Rows \cup {None}, version : Nat,
                             status : OrderStatus \cup RequestStatus \cup {"none"}]]

\* Whatever mixture of workflow and generic endpoints wrote them, the refunds
\* of an item never add up to more than was paid for it: every writer sums
\* them again under the item's row lock.
RefundsWithinPrice == \A i \in Items : Refunded(i) <= Price[i]

\* An approval is a promise: what is refunded and what approved requests have
\* reserved fit together in the item's price.
ReservationsCovered == \A i \in Items : Refunded(i) + Reserved(i, {}) <= Price[i]

\* The promise can be kept: an approved request finds its order and payment
\* refundable and its amount left, whatever other requests were processed in
\* between.  (An approved request can no longer be rejected, so one that could
\* not be processed would stay in the queue for ever.)
ApprovedNotStranded ==
    \A r \in Requests : request[r].status = "approved" =>
        LET i == request[r].item IN
        Eligible(OrderOf[i]) /\ request[r].amount <= Remaining(i, Refunded(i))

\* Order and payment tell how much money went back: nothing, a part of the
\* order's total, or all of it, which closes the order.
PaymentMatchesRefunds ==
    \A o \in Orders : order[o].status \notin {"none", "cancelled"} =>
        LET back == OrderRefunded(o, refund) IN
        /\ payment[o].status \in {"pending", "paid"} <=> back = 0
        /\ payment[o].status = "partially_refunded" <=> 0 < back /\ back < OrderTotal(o)
        /\ payment[o].status = "refunded" <=> back = OrderTotal(o)
        /\ order[o].status = "refunded" <=> payment[o].status = "refunded"

\* Money goes back only for goods that were handed over: no order has a refund
\* row before it is shipped, and a cancelled one never has.
RefundedOnlyIfShipped ==
    \A o \in Orders : OrderRefunded(o, refund) > 0 =>
        order[o].status \in {"ready_shipped", "delivered", "refunded"}

\* Whatever was refunded in between, the money follows the goods: approvals can be
\* kept, order and payment tell what went back, and nothing did before shipping.
RefundsSettle == ApprovedNotStranded /\ PaymentMatchesRefunds /\ RefundedOnlyIfShipped

\* A payment follows its order: cash is collected by the time the parcel is
\* shipped, and a cancellation returns exactly what had been collected.
PaymentFollowsOrder ==
    \A o \in Orders :
        /\ order[o].status \in {"pending", "processing"} =>
              payment[o].status = (IF payment[o].method = "prepaid"
                                     THEN "paid" ELSE "pending")
        /\ order[o].status \in {"ready_shipped", "delivered"} =>
              payment[o].status \in {"paid", "partially_refunded"}
        /\ order[o].status = "cancelled" =>
              payment[o].status = (IF payment[o].method = "prepaid"
                                     THEN "refunded" ELSE "pending")

\* README: cumulative refunds covering the full order set both payment and
\* order to refunded.
FullRefundClosesOrder ==
    \A o \in Orders : order[o] # NoOrder /\ OrderRefunded(o, refund) >= OrderTotal(o) =>
        order[o].status = "refunded" /\ payment[o].status = "refunded"

\* A processed request has exactly one refund row, for its item and its
\* amount; a request in any other state has none.
OneRefundPerRequest ==
    \A r \in Requests :
        LET paid == {f \in Refunds : refund[f].request = r} IN
        IF request[r].status = "processed"
          THEN \E f \in paid : /\ paid = {f}
                               /\ refund[f].item = request[r].item
                               /\ refund[f].amount = request[r].amount
          ELSE paid = {}

\* Client c decides on a row: the step is its request.
Decides(c, row) ==
    \/ /\ row \in Orders
       /\ \/ c \in Staff /\ (StartProcessing(c, row) \/ ReadyShipped(c, row) \/ StaffCancel(c, row))
          \/ c \in Customers /\ (CancelOrder(c, row) \/ ConfirmDelivery(c, row))
    \/ /\ row \in Requests /\ c \in Staff
       /\ Approve(c, row) \/ Reject(c, row) \/ \E f \in Refunds : Process(c, row, f)

\* Nobody acts on a state the row has left: whoever decides on a row was shown the
\* status it still has, and no status changes but by such a decision on the row
\* itself, or on the request whose refund closes the order.
DecidedOnCurrentState ==
    [][/\ \A c \in Clients, row \in Rows :
            Decides(c, row) => view[c].row = row /\ view[c].status = Status(row)
       /\ \A row \in Rows : Status(row) # "none" /\ Status(row)' # Status(row) =>
            \E c \in Clients :
              \/ Decides(c, row)
              \/ /\ Status(row)' = "refunded"
                 /\ \E r \in Requests : Decides(c, r) /\ OrderOf[request[r].item] = row
      ]_vars

=============================================================================
