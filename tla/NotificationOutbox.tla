-------------------------- MODULE NotificationOutbox --------------------------
(***************************************************************************)
(* The notification outbox of RetailMetricsWeb.  A workflow request moves  *)
(* an order or a refund request and queues the customer's notifications in *)
(* the same transaction; after the commit the same request claims its own  *)
(* rows one by one, renders each from the rows as they are now, hands it   *)
(* to a provider and records the outcome.  There is no other dispatcher:   *)
(* what a request leaves behind when it dies stays behind.                 *)
(*                                                                         *)
(* The guards of the workflows themselves are those of OrderRefunds; here  *)
(* they are cut down to the statuses they lead from and to.                *)
(***************************************************************************)
EXTENDS Naturals

CONSTANTS
    Orders, Requests,   \* customer orders and their refund requests
    OrderOf,            \* the order a refund request belongs to
    Workers,            \* HTTP requests in flight, each with its connection
    Landline,           \* the statuses reached while the customer's profile, which
                        \* may be edited any time, held no mobile number
    MaxDeaths,          \* bound: how many requests die
    MaxFailures         \* bound: how often a provider fails to take or to confirm

Targets == Orders \cup Requests

ASSUME TargetsAssumption ==
    /\ Orders \cap Requests = {}
    /\ OrderOf \in [Requests -> Orders]
    /\ MaxDeaths \in Nat /\ MaxFailures \in Nat

VARIABLES
    status,        \* [Targets -> order_status or request_status, committed]
    outbox,        \* [Notes -> the notification_outbox row]
    inbox,         \* [Notes -> how many messages reached the customer]
    worker,        \* [Workers -> the request it serves]
    deaths,        \* requests that died so far
    failures       \* messages a provider did not take or confirm so far

vars == <<status, outbox, inbox, worker, deaths, failures>>

-----------------------------------------------------------------------------
(* Events.                                                                  *)

OrderStatus   == {"pending", "processing", "ready_shipped", "delivered", "cancelled", "refunded"}
RequestStatus == {"pending", "approved", "rejected", "processed"}

\* The event a status is announced by; an approval and an order's refund are
\* not announced.
OrderEvents ==
    [pending       |-> "order_confirmation",  processing |-> "order_processing",
     ready_shipped |-> "order_ready_shipped", delivered  |-> "order_delivered",
     cancelled     |-> "order_cancelled"]

RefundEvents ==
    [pending |-> "refund_request_submitted", rejected |-> "refund_rejected",
     processed |-> "refund_processed"]

EventsOf(t) == IF t \in Orders THEN OrderEvents ELSE RefundEvents

\* Every event is texted and all but the submission of a request are mailed.
Channels(event) == IF event = "refund_request_submitted" THEN {"sms"} ELSE {"email", "sms"}

\* The unique indexes on target, event and channel name a row.
RowsOf(t, s) == {[target |-> t, status |-> s, channel |-> ch] : ch \in Channels(EventsOf(t)[s])}

Notes ==
    (UNION {RowsOf(t, s) : t \in Orders, s \in DOMAIN OrderEvents})
      \cup (UNION {RowsOf(t, s) : t \in Requests, s \in DOMAIN RefundEvents})

\* Where a status may be reached from.
From(t, to) ==
    IF t \in Orders
      THEN CASE to = "pending"       -> {"none"}
             [] to = "processing"    -> {"pending"}
             [] to = "ready_shipped" -> {"processing"}
             [] to = "delivered"     -> {"ready_shipped"}
             [] to = "cancelled"     -> {"pending"}
             [] to = "refunded"      -> {"ready_shipped", "delivered"}
      ELSE CASE to = "pending"   -> {"none"}
             [] to = "approved"  -> {"pending"}
             [] to = "rejected"  -> {"pending"}
             [] to = "processed" -> {"approved"}

Idle  == [phase |-> "idle"]
NoRow == [status |-> "none", attempts |-> 0]

Init ==
    /\ status = [t \in Targets |-> "none"]
    /\ outbox = [n \in Notes |-> NoRow]
    /\ inbox  = [n \in Notes |-> 0]
    /\ worker = [w \in Workers |-> Idle]
    /\ deaths = 0 /\ failures = 0

-----------------------------------------------------------------------------
(* The business transaction.                                                *)

Held(w) == IF worker[w].phase = "open" THEN worker[w].locked ELSE {}

\* A decision on a request, but for a rejection, locks and checks its order too.
NeedsOrder(t, to) == t \in Requests /\ to # "rejected"
Locked(t, to)     == IF NeedsOrder(t, to) THEN {t, OrderOf[t]} ELSE {t}

\* One row per channel the customer can be reached by at that moment; a row that
\* is there already is left alone and not dispatched again.
Queued(t, to) ==
    {n \in Notes : /\ n.target = t /\ n.status = to
                   /\ n.channel = "sms" => to \notin Landline
                   /\ outbox[n] = NoRow}

\* The request locks its rows, checks where they are, and queues the event of
\* target t; processing a refund may also close the order.
Move(w, t, writes) ==
    /\ worker[w] = Idle
    /\ \A v \in Workers : Held(v) \cap Locked(t, writes[t]) = {}
    /\ \A u \in DOMAIN writes : status[u] \in From(u, writes[u])
    /\ NeedsOrder(t, writes[t]) => status[OrderOf[t]] \in {"ready_shipped", "delivered"}
    /\ worker' = [worker EXCEPT ![w] = [phase  |-> "open", locked |-> Locked(t, writes[t]),
                                        writes |-> writes, ids |-> Queued(t, writes[t])]]
    /\ UNCHANGED <<status, outbox, inbox, deaths, failures>>

MoveOrder(w) ==
    \E t \in Orders, to \in OrderStatus \ {"refunded"} : Move(w, t, [u \in {t} |-> to])

MoveRequest(w) ==
    \E t \in Requests, to \in RequestStatus : Move(w, t, [u \in {t} |-> to])

ProcessInFull(w) ==
    \E t \in Requests :
        Move(w, t, [u \in {t, OrderOf[t]} |-> IF u = t THEN "processed" ELSE "refunded"])

\* A request that has rows to deliver goes on to deliver them.
Deliver(ids) == IF ids = {} THEN Idle ELSE [phase |-> "committed", ids |-> ids]

Written(writes) == [t \in Targets |-> IF t \in DOMAIN writes THEN writes[t] ELSE status[t]]

\* Mutant: the rows are left to a transaction of their own.
CommitWithoutRows(w) ==
    /\ worker[w].phase = "open"
    /\ status' = Written(worker[w].writes)
    /\ worker' = [worker EXCEPT ![w] = Idle]
    /\ UNCHANGED <<outbox, inbox, deaths, failures>>

Commit(w) ==
    /\ worker[w].phase = "open"
    /\ status' = Written(worker[w].writes)
    /\ outbox' = [n \in Notes |-> IF n \in worker[w].ids THEN [status |-> "pending", attempts |-> 0]
                                                         ELSE outbox[n]]
    /\ worker' = [worker EXCEPT ![w] = Deliver(worker[w].ids)]
    /\ UNCHANGED <<inbox, deaths, failures>>

-----------------------------------------------------------------------------
(* Dispatch, after the commit.                                              *)

\* The mail is queued, and dispatched, before the text message.
Foremost(ids) ==
    IF \E n \in ids : n.channel = "email"
      THEN CHOOSE n \in ids : n.channel = "email"
      ELSE CHOOSE n \in ids : TRUE

\* Mutant: the row is only read; it becomes 'sending' when it is sent.
ClaimUnrecorded(w) ==
    /\ worker[w].phase = "committed"
    /\ worker' = [worker EXCEPT ![w] = [phase |-> "claimed", ids |-> worker[w].ids,
                                        note  |-> Foremost(worker[w].ids)]]
    /\ UNCHANGED <<status, outbox, inbox, deaths, failures>>

\* A row that is not pending is passed over.
Claim(w) ==
    LET n == Foremost(worker[w].ids) IN
    /\ worker[w].phase = "committed"
    /\ IF outbox[n].status = "pending"
         THEN /\ outbox' = [outbox EXCEPT ![n] = [status |-> "sending", attempts |-> @.attempts + 1]]
              /\ worker' = [worker EXCEPT ![w] = [phase |-> "claimed", ids |-> worker[w].ids, note |-> n]]
         ELSE /\ worker' = [worker EXCEPT ![w] = Deliver(worker[w].ids \ {n})]
              /\ UNCHANGED outbox
    /\ UNCHANGED <<status, inbox, deaths, failures>>

\* The message is rendered and handed over; the provider takes it or not, and
\* its answer arrives or is lost.
Send(w) ==
    LET n == worker[w].note IN
    \E taken, answered \in BOOLEAN :
        /\ worker[w].phase = "claimed"
        /\ inbox' = IF taken THEN [inbox EXCEPT ![n] = @ + 1] ELSE inbox
        /\ failures' = IF taken /\ answered THEN failures ELSE failures + 1
        /\ failures' <= MaxFailures
        /\ worker' = [worker EXCEPT ![w] = [phase |-> "answered", ids |-> worker[w].ids, note |-> n,
                                            outcome |-> IF taken /\ answered THEN "sent" ELSE "failed"]]
        /\ UNCHANGED <<status, outbox, deaths>>

\* Mutants: a failure is tried again; the first failure ends the dispatch.
MarkAndRetry(w) ==
    LET n == worker[w].note
        again == worker[w].outcome = "failed"
    IN  /\ worker[w].phase = "answered"
        /\ outbox' = [outbox EXCEPT ![n].status = IF again THEN "pending" ELSE "sent"]
        /\ worker' = [worker EXCEPT ![w] = Deliver(worker[w].ids \ (IF again THEN {} ELSE {n}))]
        /\ UNCHANGED <<status, inbox, deaths, failures>>

MarkAndStop(w) ==
    LET n == worker[w].note IN
    /\ worker[w].phase = "answered"
    /\ outbox' = [outbox EXCEPT ![n].status = worker[w].outcome]
    /\ worker' = [worker EXCEPT ![w] = Deliver(IF worker[w].outcome = "failed" THEN {}
                                               ELSE worker[w].ids \ {n})]
    /\ UNCHANGED <<status, inbox, deaths, failures>>

\* Only a row that is still 'sending' is marked.
Mark(w) ==
    LET n == worker[w].note IN
    /\ worker[w].phase = "answered"
    /\ outbox' = [outbox EXCEPT ![n].status = IF @ = "sending" THEN worker[w].outcome ELSE @]
    /\ worker' = [worker EXCEPT ![w] = Deliver(worker[w].ids \ {n})]
    /\ UNCHANGED <<status, inbox, deaths, failures>>

-----------------------------------------------------------------------------
\* The process dies, or its connection does: an open transaction is rolled
\* back, and rows that were not marked stay as they are.
Die(w) ==
    /\ deaths < MaxDeaths
    /\ worker[w] # Idle
    /\ worker' = [worker EXCEPT ![w] = Idle]
    /\ deaths' = deaths + 1
    /\ UNCHANGED <<status, outbox, inbox, failures>>

Serve(w) == Commit(w) \/ Claim(w) \/ Send(w) \/ Mark(w)

Next == \E w \in Workers : MoveOrder(w) \/ MoveRequest(w) \/ ProcessInFull(w) \/ Serve(w) \/ Die(w)

\* A request that has begun runs on, until it ends or dies.
Spec == Init /\ [][Next]_vars /\ \A w \in Workers : WF_vars(Serve(w))

-----------------------------------------------------------------------------
(* Properties.                                                              *)

\* A row is as ck_notification_outbox_delivery_state has it, and a worker has
\* the fields of its phase.
TypeOK ==
    /\ \A t \in Orders   : status[t] \in OrderStatus \cup {"none"}
    /\ \A t \in Requests : status[t] \in RequestStatus \cup {"none"}
    /\ deaths \in 0..MaxDeaths /\ failures \in 0..MaxFailures
    /\ \A n \in Notes :
         /\ \/ outbox[n] \in {NoRow, [status |-> "pending", attempts |-> 0]}
            \/ outbox[n].status \in {"sending", "sent", "failed"} /\ outbox[n].attempts \in Nat \ {0}
         /\ inbox[n] \in Nat
    /\ \A w \in Workers :
         worker[w].phase \in {"committed", "claimed", "answered"} =>
           worker[w].ids \in (SUBSET Notes) \ {{}}

\* The statuses a target has certainly been through when it is at s.
Past(t, s) ==
    IF t \in Orders
      THEN CASE s = "none"          -> {}
             [] s = "pending"       -> {"pending"}
             [] s = "cancelled"     -> {"pending", "cancelled"}
             [] s = "processing"    -> {"pending", "processing"}
             [] s = "delivered"     -> {"pending", "processing", "ready_shipped", "delivered"}
             [] s \in {"ready_shipped", "refunded"} -> {"pending", "processing", "ready_shipped"}
      ELSE IF s = "none" THEN {} ELSE {"pending", s}

\* The outbox is transactional: no notification is in it unless its event has
\* been committed, and the mail of every committed event is in it, whoever
\* died in between.
QueuedWithEvent ==
    \A n \in Notes :
        /\ outbox[n] # NoRow =>
              \/ n.status \in Past(n.target, status[n.target])
              \/ n.status = "delivered" /\ status[n.target] = "refunded"
        /\ n.channel = "email" /\ n.status \in Past(n.target, status[n.target]) => outbox[n] # NoRow

\* A message reaches a customer only for a notification that was promised with
\* its event, and reaches them at most once, in spite of lost answers, crashes
\* and the failures the code does not retry.
Outbox == INSTANCE AtMostOnce
            WITH promised <- {n \in Notes : outbox[n] # NoRow},
                 received <- inbox
DeliveredAtMostOnce == Outbox!Spec

\* What a well-formed row says can be relied on: 'sent' was received, 'pending'
\* was not.  ('sending' and 'failed' may be either.)
HonestStatus ==
    /\ TypeOK
    /\ \A n \in Notes :
          /\ outbox[n].status = "sent" => inbox[n] > 0
          /\ outbox[n].status \in {"none", "pending"} => inbox[n] = 0

\* Every notification is settled, unless the request that queued it dies: rows
\* only move forward, so that none is left behind for ever says just this.
Settles == []<>(deaths > 0 \/ \A n \in Notes : outbox[n].status \notin {"pending", "sending"})

=============================================================================
