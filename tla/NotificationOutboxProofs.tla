----------------------- MODULE NotificationOutboxProofs -----------------------
(***************************************************************************)
(* The notification outbox, proved for any orders, requests, workers,      *)
(* deaths and failures: it implements AtMostOnce, its rows are queued with *)
(* their events, and what they say is true.  The rows a worker is about to *)
(* queue stay missing while it holds their target's lock, and a row that   *)
(* is being sent belongs to one worker.                                    *)
(***************************************************************************)
EXTENDS NotificationOutbox, TLAPS

RowType == [status : {"none", "pending", "sending", "sent", "failed"}, attempts : Nat]

StatusOf(t) == IF t \in Orders THEN OrderStatus ELSE RequestStatus

\* What is true of a row together with what the customer got.
GoodRow(n) ==
    /\ outbox[n].attempts = 0 <=> outbox[n].status \in {"none", "pending"}
    /\ outbox[n].status \in {"none", "pending"} => inbox[n] = 0
    /\ outbox[n].status = "sent" => inbox[n] > 0

\* A row is there only if its event has happened; the mail of an event that has
\* happened is there.
QueuedAsDue(n) ==
    /\ outbox[n] # NoRow =>
          \/ n.status \in Past(n.target, status[n.target])
          \/ n.status = "delivered" /\ status[n.target] = "refunded"
    /\ n.channel = "email" /\ n.status \in Past(n.target, status[n.target]) => outbox[n] # NoRow

\* An open transaction about target t: what it found is still so, because it
\* holds the locks.
About(k, t) ==
    /\ t \in DOMAIN k.writes /\ DOMAIN k.writes \subseteq k.locked /\ k.locked \subseteq Targets
    /\ \A u \in DOMAIN k.writes : k.writes[u] \in StatusOf(u) /\ status[u] \in From(u, k.writes[u])
    /\ \A u \in DOMAIN k.writes \ {t} : u \in Orders /\ k.writes[u] = "refunded"
    /\ k.ids = Queued(t, k.writes[t])

Sending(k) == k.phase \in {"claimed", "answered"}

GoodWorker(k) ==
    /\ k.phase \in {"idle", "open", "committed", "claimed", "answered"}
    /\ k.phase = "idle" => k = Idle
    /\ k.phase = "open" => \E t \in Targets : About(k, t)
    /\ k.phase \in {"committed", "claimed", "answered"} =>
         k.ids \subseteq Notes /\ k.ids # {} /\ \A n \in k.ids : outbox[n] # NoRow
    /\ Sending(k) => k.note \in k.ids /\ outbox[k.note].status = "sending"
    /\ k.phase = "claimed" => inbox[k.note] = 0
    /\ k.phase = "answered" => k.outcome \in {"sent", "failed"} /\ (k.outcome = "sent" => inbox[k.note] > 0)

Types ==
    /\ status = [t \in Targets |-> status[t]]
    /\ \A t \in Targets : status[t] \in StatusOf(t) \cup {"none"}
    /\ outbox \in [Notes -> RowType]
    /\ inbox \in [Notes -> {0, 1}]
    /\ worker = [w \in Workers |-> worker[w]]
    /\ deaths \in 0..MaxDeaths /\ failures \in 0..MaxFailures

\* No two open transactions hold one row, and no two workers send one row.
Exclusive ==
    \A v, w \in Workers :
        v # w => /\ Held(v) \cap Held(w) = {}
                 /\ Sending(worker[v]) /\ Sending(worker[w]) => worker[v].note # worker[w].note

IInv ==
    /\ Types
    /\ \A n \in Notes : GoodRow(n) /\ QueuedAsDue(n)
    /\ \A w \in Workers : GoodWorker(worker[w])
    /\ Exclusive

-----------------------------------------------------------------------------
\* The rows are those of announced statuses.
LEMMA NotesAre ==
    ASSUME NEW n \in Notes
    PROVE  /\ n.target \in Targets
           /\ n.target \in Orders =>
                n.status \in {"pending", "processing", "ready_shipped", "delivered", "cancelled"}
           /\ n.target \notin Orders => n.status \in {"pending", "rejected", "processed"}
<1>1. DOMAIN OrderEvents = {"pending", "processing", "ready_shipped", "delivered", "cancelled"}
  BY DEF OrderEvents
<1>2. DOMAIN RefundEvents = {"pending", "rejected", "processed"}
  BY DEF RefundEvents
<1> DEFINE OfOrders   == {RowsOf(t, s) : t \in Orders, s \in DOMAIN OrderEvents}
           OfRequests == {RowsOf(t, s) : t \in Requests, s \in DOMAIN RefundEvents}
<1>3. n \in UNION OfOrders \/ n \in UNION OfRequests  BY DEF Notes
<1>4. ASSUME NEW t, NEW s, n \in RowsOf(t, s) PROVE n.target = t /\ n.status = s
  BY <1>4 DEF RowsOf
<1>5. CASE n \in UNION OfOrders
  <2>1. PICK t \in Orders, s \in DOMAIN OrderEvents : n \in RowsOf(t, s)  BY <1>5
  <2>2. QED  BY <1>1, <1>4, <2>1 DEF Targets
<1>6. CASE n \in UNION OfRequests
  <2>1. PICK t \in Requests, s \in DOMAIN RefundEvents : n \in RowsOf(t, s)  BY <1>6
  <2>2. QED  BY <1>2, <1>4, <2>1, TargetsAssumption DEF Targets
<1>7. QED  BY <1>3, <1>5, <1>6

\* A target that moves takes its past along, and adds where it moves to.
LEMMA PastGrows ==
    ASSUME NEW n \in Notes, NEW t, t = n.target, NEW to \in StatusOf(t), NEW from \in From(t, to)
    PROVE  /\ n.status \in Past(t, from) \/ (n.status = "delivered" /\ from = "refunded")
              => n.status \in Past(t, to) \/ (n.status = "delivered" /\ to = "refunded")
           /\ n.status \in Past(t, to) => n.status \in Past(t, from) \/ n.status = to
           /\ n.status = to => n.status \in Past(t, to)
<1>1. CASE t \in Orders
  <2>1. n.status \in {"pending", "processing", "ready_shipped", "delivered", "cancelled"}
    BY <1>1, NotesAre
  <2>2. to \in OrderStatus  BY <1>1 DEF StatusOf
  <2>3. CASE to \in {"pending", "processing", "ready_shipped"}
    BY <1>1, <2>1, <2>3 DEF From, Past
  <2>4. CASE to = "delivered"  BY <1>1, <2>1, <2>4 DEF From, Past
  <2>5. CASE to = "cancelled"  BY <1>1, <2>1, <2>5 DEF From, Past
  <2>6. CASE to = "refunded"  BY <1>1, <2>1, <2>6 DEF From, Past
  <2>7. QED  BY <2>2, <2>3, <2>4, <2>5, <2>6 DEF OrderStatus
<1>2. CASE t \notin Orders
  <2>1. n.status \in {"pending", "rejected", "processed"}  BY <1>2, NotesAre
  <2>2. to \in RequestStatus  BY <1>2 DEF StatusOf
  <2>3. QED  BY <1>2, <2>1, <2>2 DEF RequestStatus, From, Past
<1>3. QED  BY <1>1, <1>2

LEMMA ForemostIsOne == ASSUME NEW ids, ids # {} PROVE Foremost(ids) \in ids
BY DEF Foremost

-----------------------------------------------------------------------------
LEMMA Consequences == IInv => QueuedWithEvent /\ HonestStatus
<1> SUFFICES ASSUME IInv PROVE QueuedWithEvent /\ HonestStatus  OBVIOUS
<1>1. QueuedWithEvent  BY DEF IInv, QueuedAsDue, QueuedWithEvent
<1>2. TypeOK
  <2>1. \A t \in Orders : status[t] \in OrderStatus \cup {"none"}
    BY DEF IInv, Types, StatusOf, Targets
  <2>2. \A t \in Requests : status[t] \in RequestStatus \cup {"none"}
    BY TargetsAssumption DEF IInv, Types, StatusOf, Targets
  <2>3. ASSUME NEW n \in Notes
        PROVE  \/ outbox[n] \in {NoRow, [status |-> "pending", attempts |-> 0]}
               \/ outbox[n].status \in {"sending", "sent", "failed"} /\ outbox[n].attempts \in Nat \ {0}
    <3>1. outbox[n] \in RowType /\ GoodRow(n)  BY DEF IInv, Types
    <3>2. outbox[n] = [status |-> outbox[n].status, attempts |-> outbox[n].attempts]  BY <3>1 DEF RowType
    <3>3. QED  BY <3>1, <3>2 DEF RowType, GoodRow, NoRow
  <2>4. \A n \in Notes : inbox[n] \in Nat  BY DEF IInv, Types
  <2>5. \A w \in Workers : worker[w].phase \in {"committed", "claimed", "answered"} =>
                             worker[w].ids \in (SUBSET Notes) \ {{}}
    BY DEF IInv, GoodWorker
  <2>6. QED  BY <2>1, <2>2, <2>3, <2>4, <2>5 DEF TypeOK, IInv, Types
<1>3. QED  BY <1>1, <1>2 DEF HonestStatus, IInv, GoodRow

LEMMA IdleIsGood == GoodWorker(Idle) /\ Idle.phase = "idle" /\ ~Sending(Idle)
BY DEF Idle, GoodWorker, Sending

LEMMA InitHolds == Init => IInv
<1> SUFFICES ASSUME Init PROVE IInv  OBVIOUS
<1>1. Types
  <2>1. NoRow \in RowType  BY DEF NoRow, RowType
  <2>2. QED  BY <2>1, TargetsAssumption DEF Init, Types
<1>2. ASSUME NEW n \in Notes PROVE GoodRow(n) /\ QueuedAsDue(n)
  <2>1. n.target \in Targets /\ outbox[n] = NoRow /\ inbox[n] = 0  BY NotesAre DEF Init
  <2>2. status[n.target] = "none"  BY <2>1 DEF Init
  <2>3. Past(n.target, "none") = {}  BY DEF Past
  <2>4. QED  BY <2>1, <2>2, <2>3 DEF GoodRow, QueuedAsDue, NoRow
<1>3. \A w \in Workers : GoodWorker(worker[w])  BY IdleIsGood DEF Init
<1>4. Exclusive  BY IdleIsGood DEF Init, Exclusive, Held, Sending
<1>5. QED  BY <1>1, <1>2, <1>3, <1>4 DEF IInv

-----------------------------------------------------------------------------
(* Steps that change no row and no status.                                  *)

\* What is true of a worker is true as long as what it looks at is the same.
LEMMA SameWorker ==
    ASSUME NEW k, GoodWorker(k), UNCHANGED <<status, outbox, inbox>>
    PROVE  GoodWorker(k)'
<1>1. \A t, to : Queued(t, to)' = Queued(t, to)  BY DEF Queued
<1>2. \A t : About(k, t) => About(k, t)'  BY <1>1 DEF About
<1>3. QED  BY <1>2 DEF GoodWorker, Sending

LEMMA WorkerStep ==
    ASSUME IInv, NEW w \in Workers, NEW k, GoodWorker(k),
           UNCHANGED <<status, outbox, inbox, failures>>, deaths' \in 0..MaxDeaths,
           worker' = [worker EXCEPT ![w] = k],
           k.phase = "open" => \A v \in Workers \ {w} : Held(v) \cap k.locked = {},
           Sending(k) => \A v \in Workers \ {w} : Sending(worker[v]) => worker[v].note # k.note
    PROVE  IInv'
<1>1. \A v \in Workers : worker'[v] = IF v = w THEN k ELSE worker[v]  BY DEF IInv, Types
<1>2. Types'  BY <1>1 DEF IInv, Types
<1>3. \A n \in Notes : GoodRow(n)' /\ QueuedAsDue(n)'
  BY DEF IInv, GoodRow, QueuedAsDue
<1>4. \A v \in Workers : GoodWorker(worker'[v])  BY <1>1 DEF IInv
<1>5. \A v \in Workers : GoodWorker(worker[v])'
  <2>1. ASSUME NEW v \in Workers, NEW j, j = worker'[v], GoodWorker(j) PROVE GoodWorker(worker[v])'
    <3>1. GoodWorker(j)'  BY <2>1, SameWorker
    <3>2. QED  BY <2>1, <3>1
  <2>2. QED  BY <1>4, <2>1
<1>6. Exclusive'  BY <1>1 DEF IInv, Exclusive, Held, Sending
<1>7. QED  BY <1>2, <1>3, <1>5, <1>6 DEF IInv

\* A request opens its transaction with the locks on what it is about to write.
LEMMA OpenStep ==
    ASSUME IInv, NEW w \in Workers, NEW t \in Targets, NEW writes, Move(w, t, writes),
           t \in DOMAIN writes, DOMAIN writes \subseteq Locked(t, writes[t]),
           \A u \in DOMAIN writes : writes[u] \in StatusOf(u),
           \A u \in DOMAIN writes \ {t} : u \in Orders /\ writes[u] = "refunded"
    PROVE  IInv'
<1> DEFINE k == [phase  |-> "open", locked |-> Locked(t, writes[t]),
                 writes |-> writes, ids |-> Queued(t, writes[t])]
<1>1. k.phase = "open" /\ k.locked = Locked(t, writes[t]) /\ k.writes = writes
      /\ k.ids = Queued(t, writes[t])
  OBVIOUS
<1>2. /\ UNCHANGED <<status, outbox, inbox, deaths, failures>> /\ worker' = [worker EXCEPT ![w] = k]
      /\ \A v \in Workers : Held(v) \cap k.locked = {}
      /\ \A u \in DOMAIN writes : status[u] \in From(u, writes[u])
  BY DEF Move
<1> HIDE DEF k
<1>3. Locked(t, writes[t]) \subseteq Targets
  BY TargetsAssumption DEF Locked, NeedsOrder, Targets
<1>4. About(k, t)  BY <1>1, <1>2, <1>3 DEF About
<1>5. GoodWorker(k)  BY <1>1, <1>4 DEF GoodWorker, Sending
<1>6. ~Sending(k)  BY <1>1 DEF Sending
<1>7. deaths' \in 0..MaxDeaths  BY <1>2 DEF IInv, Types
<1>8. QED  BY <1>2, <1>5, <1>6, <1>7, WorkerStep

LEMMA MoveStep ==
    ASSUME IInv, NEW w \in Workers, MoveOrder(w) \/ MoveRequest(w) \/ ProcessInFull(w)
    PROVE  IInv'
<1>1. ASSUME NEW t \in Targets, NEW to \in StatusOf(t), Move(w, t, [u \in {t} |-> to]) PROVE IInv'
  <2> DEFINE writes == [u \in {t} |-> to]
  <2>1. DOMAIN writes = {t} /\ writes[t] = to  OBVIOUS
  <2>2. Move(w, t, writes)  BY <1>1
  <2> HIDE DEF writes
  <2>3. t \in Locked(t, writes[t])  BY DEF Locked
  <2>4. QED  BY <2>1, <2>2, <2>3, OpenStep
<1>2. CASE MoveOrder(w)
  BY <1>1, <1>2 DEF MoveOrder, Targets, StatusOf
<1>3. CASE MoveRequest(w)
  <2>1. PICK t \in Requests, to \in RequestStatus : Move(w, t, [u \in {t} |-> to])
    BY <1>3 DEF MoveRequest
  <2>2. t \in Targets /\ StatusOf(t) = RequestStatus
    BY TargetsAssumption DEF Targets, StatusOf
  <2>3. QED  BY <1>1, <2>1, <2>2
<1>4. CASE ProcessInFull(w)
  <2>1. PICK t \in Requests :
           Move(w, t, [u \in {t, OrderOf[t]} |-> IF u = t THEN "processed" ELSE "refunded"])
    BY <1>4 DEF ProcessInFull
  <2> DEFINE writes == [u \in {t, OrderOf[t]} |-> IF u = t THEN "processed" ELSE "refunded"]
  <2>2. /\ t \in Targets /\ t \notin Orders /\ OrderOf[t] \in Orders
        /\ DOMAIN writes = {t, OrderOf[t]} /\ writes[t] = "processed"
        /\ \A u \in DOMAIN writes \ {t} : writes[u] = "refunded"
    BY TargetsAssumption DEF Targets
  <2>3. Move(w, t, writes)  BY <2>1
  <2> HIDE DEF writes
  <2>4. DOMAIN writes = Locked(t, writes[t])  BY <2>2 DEF Locked, NeedsOrder
  <2>5. \A u \in DOMAIN writes : writes[u] \in StatusOf(u)
    BY <2>2 DEF StatusOf, OrderStatus, RequestStatus
  <2>6. QED  BY <2>2, <2>3, <2>4, <2>5, OpenStep
<1>5. QED  BY <1>2, <1>3, <1>4

LEMMA DieStep == ASSUME IInv, NEW w \in Workers, Die(w) PROVE IInv'
<1>1. deaths' \in 0..MaxDeaths  BY TargetsAssumption DEF IInv, Types, Die
<1>2. QED  BY <1>1, IdleIsGood, WorkerStep DEF Die

-----------------------------------------------------------------------------
(* Steps of one row.                                                        *)

\* Only a worker's own note changes, and it stays in the outbox.
LEMMA RowStep ==
    ASSUME IInv, NEW w \in Workers, NEW n \in Notes, NEW k,
           UNCHANGED <<status, deaths>>, failures' \in 0..MaxFailures,
           worker' = [worker EXCEPT ![w] = k], GoodWorker(k)', k.phase # "open",
           outbox' \in [Notes -> RowType], inbox' \in [Notes -> {0, 1}],
           outbox[n] # NoRow, outbox'[n] # NoRow, GoodRow(n)',
           \A m \in Notes \ {n} : outbox'[m] = outbox[m] /\ inbox'[m] = inbox[m],
           Sending(k) => k.note = n,
           \A v \in Workers \ {w} : Sending(worker[v]) => worker[v].note # n
    PROVE  IInv'
<1>1. \A v \in Workers : worker'[v] = IF v = w THEN k ELSE worker[v]  BY DEF IInv, Types
<1>2. Types'  BY <1>1 DEF IInv, Types
<1>3. \A m \in Notes : outbox[m] = NoRow <=> outbox'[m] = NoRow  OBVIOUS
<1>4. ASSUME NEW m \in Notes PROVE GoodRow(m)' /\ QueuedAsDue(m)'
  <2>1. GoodRow(m)'  BY DEF IInv, GoodRow
  <2>2. QueuedAsDue(m)'  BY <1>3 DEF IInv, QueuedAsDue
  <2>3. QED  BY <2>1, <2>2
<1>5. ASSUME NEW v \in Workers PROVE GoodWorker(worker[v])'
  <2>1. CASE v = w  BY <1>1, <2>1
  <2>2. CASE v # w
    <3>1. worker'[v] = worker[v] /\ GoodWorker(worker[v])  BY <1>1, <2>2 DEF IInv
    <3>2. \A t, to : Queued(t, to)' = Queued(t, to)  BY <1>3 DEF Queued
    <3>3. \A t : About(worker[v], t) => About(worker[v], t)'  BY <3>1, <3>2 DEF About
    <3>4. Sending(worker[v]) => worker[v].note \in Notes \ {n}
      BY <2>2, <3>1 DEF GoodWorker, Sending
    <3>5. QED  BY <1>3, <3>1, <3>3, <3>4 DEF GoodWorker, Sending
  <2>3. QED  BY <2>1, <2>2
<1>6. Exclusive'
  <2>1. ASSUME NEW v \in Workers \ {w}
        PROVE  /\ Held(v)' = Held(v) /\ Held(w)' = {}
               /\ Sending(worker[v])' => Sending(worker[v]) /\ worker'[v].note # n
    BY <1>1 DEF Held, Sending
  <2>2. Sending(worker'[w]) => worker'[w].note = n  BY <1>1
  <2>3. \A v \in Workers \ {w} : worker'[v] = worker[v]  BY <1>1
  <2>4. QED  BY <2>1, <2>2, <2>3 DEF IInv, Exclusive, Sending
<1>7. QED  BY <1>2, <1>4, <1>5, <1>6 DEF IInv

\* Going on with rows that are there.
LEMMA DeliverIsGood ==
    ASSUME NEW ids, ids \subseteq Notes, \A n \in ids : outbox[n] # NoRow
    PROVE  GoodWorker(Deliver(ids)) /\ Deliver(ids).phase # "open" /\ ~Sending(Deliver(ids))
<1>1. CASE ids = {}  BY <1>1, IdleIsGood DEF Deliver
<1>2. CASE ids # {}
  <2> DEFINE k == [phase |-> "committed", ids |-> ids]
  <2>1. Deliver(ids) = k  BY <1>2 DEF Deliver
  <2>2. k.phase = "committed" /\ k.ids = ids  OBVIOUS
  <2> HIDE DEF k
  <2>3. QED  BY <1>2, <2>1, <2>2 DEF GoodWorker, Sending
<1>3. QED  BY <1>1, <1>2

LEMMA ClaimStep == ASSUME IInv, NEW w \in Workers, Claim(w) PROVE IInv'
<1> DEFINE ids == worker[w].ids
<1>1. worker[w].phase = "committed" /\ GoodWorker(worker[w])  BY DEF Claim, IInv
<1>2. ids \subseteq Notes /\ ids # {} /\ \A n \in ids : outbox[n] # NoRow  BY <1>1 DEF GoodWorker
<1>3. PICK n \in Notes : n = Foremost(ids) /\ n \in ids  BY <1>2, ForemostIsOne
<1>4. outbox[n] # NoRow /\ outbox[n] \in RowType /\ GoodRow(n)  BY <1>2, <1>3 DEF IInv, Types
<1>5. CASE outbox[n].status = "pending"
  <2> PICK k : k = [phase |-> "claimed", ids |-> ids, note |-> n]  OBVIOUS
  <2> DEFINE row == [status |-> "sending", attempts |-> outbox[n].attempts + 1]
  <2>1. /\ outbox' = [outbox EXCEPT ![n] = row] /\ worker' = [worker EXCEPT ![w] = k]
        /\ UNCHANGED <<status, inbox, deaths, failures>>
    BY <1>3, <1>5 DEF Claim
  <2>2. k.phase = "claimed" /\ k.ids = ids /\ k.note = n  OBVIOUS
  <2>3. row \in RowType /\ row # NoRow /\ row.status = "sending" /\ row.attempts # 0
    BY <1>4 DEF RowType, NoRow
  <2> HIDE DEF row
  <2>4. /\ outbox' \in [Notes -> RowType] /\ outbox'[n] = row
        /\ \A m \in Notes \ {n} : outbox'[m] = outbox[m]
    BY <2>1, <2>3 DEF IInv, Types
  <2>5. inbox[n] = 0 /\ inbox' = inbox  BY <1>4, <1>5, <2>1 DEF GoodRow
  <2>6. GoodRow(n)'  BY <2>3, <2>4 DEF GoodRow
  <2>7. GoodWorker(k)'
    BY <1>2, <1>3, <2>2, <2>3, <2>4, <2>5 DEF GoodWorker, Sending
  <2>8. \A v \in Workers \ {w} : Sending(worker[v]) => worker[v].note # n
    BY <1>5 DEF IInv, GoodWorker
  <2>9. failures' \in 0..MaxFailures /\ inbox' \in [Notes -> {0, 1}]  BY <2>1 DEF IInv, Types
  <2>10. QED  BY <1>4, <2>1, <2>2, <2>3, <2>4, <2>5, <2>6, <2>7, <2>8, <2>9, RowStep
<1>6. CASE outbox[n].status # "pending"
  <2>1. worker' = [worker EXCEPT ![w] = Deliver(ids \ {n})] /\ UNCHANGED <<status, outbox, inbox, deaths, failures>>
    BY <1>3, <1>6 DEF Claim
  <2>2. /\ GoodWorker(Deliver(ids \ {n})) /\ Deliver(ids \ {n}).phase # "open"
        /\ ~Sending(Deliver(ids \ {n}))
    BY <1>2, DeliverIsGood
  <2>3. deaths' \in 0..MaxDeaths  BY <2>1 DEF IInv, Types
  <2>4. QED  BY <2>1, <2>2, <2>3, WorkerStep
<1>7. QED  BY <1>5, <1>6

LEMMA SendStep == ASSUME IInv, NEW w \in Workers, Send(w) PROVE IInv'
<1> DEFINE ids == worker[w].ids
<1>1. worker[w].phase = "claimed" /\ GoodWorker(worker[w]) /\ Sending(worker[w])
  BY DEF Send, IInv, Sending
<1>2. PICK n \in Notes : n = worker[w].note /\ n \in ids  BY <1>1 DEF GoodWorker
<1>3. /\ ids \subseteq Notes /\ ids # {} /\ \A m \in ids : outbox[m] # NoRow
      /\ outbox[n].status = "sending" /\ inbox[n] = 0 /\ GoodRow(n)
  BY <1>1, <1>2 DEF GoodWorker, IInv
<1>4. PICK taken \in BOOLEAN, answered \in BOOLEAN :
        /\ inbox' = IF taken THEN [inbox EXCEPT ![n] = @ + 1] ELSE inbox
        /\ failures' = IF taken /\ answered THEN failures ELSE failures + 1
        /\ failures' <= MaxFailures
        /\ worker' = [worker EXCEPT ![w] = [phase |-> "answered", ids |-> ids, note |-> n,
                                            outcome |-> IF taken /\ answered THEN "sent" ELSE "failed"]]
        /\ UNCHANGED <<status, outbox, deaths>>
  BY <1>2 DEF Send
<1> PICK k : k = [phase |-> "answered", ids |-> ids, note |-> n,
                  outcome |-> IF taken /\ answered THEN "sent" ELSE "failed"]
  OBVIOUS
<1>5. /\ k.phase = "answered" /\ k.ids = ids /\ k.note = n /\ k.outcome \in {"sent", "failed"}
      /\ k.outcome = "sent" => taken
  OBVIOUS
<1>6. worker' = [worker EXCEPT ![w] = k]  BY <1>4
<1>7. inbox \in [Notes -> {0, 1}]  BY DEF IInv, Types
<1>8. /\ inbox' \in [Notes -> {0, 1}] /\ (taken => inbox'[n] > 0)
      /\ \A m \in Notes \ {n} : inbox'[m] = inbox[m]
  <2>1. CASE taken
    <3>1. inbox' = [inbox EXCEPT ![n] = 1]  BY <1>3, <1>4, <2>1
    <3>2. QED  BY <1>7, <3>1
  <2>2. CASE ~taken  BY <1>4, <1>7, <2>2
  <2>3. QED  BY <2>1, <2>2
<1>9. failures' \in 0..MaxFailures  BY <1>4 DEF IInv, Types
<1>10. GoodRow(n)'  BY <1>3, <1>4 DEF GoodRow
<1>11. GoodWorker(k)'  BY <1>2, <1>3, <1>4, <1>5, <1>8 DEF GoodWorker, Sending
<1>12. \A v \in Workers \ {w} : Sending(worker[v]) => worker[v].note # n
  BY <1>1, <1>2 DEF IInv, Exclusive
<1>13. outbox' \in [Notes -> RowType] /\ outbox[n] # NoRow /\ outbox' = outbox
  BY <1>2, <1>3, <1>4 DEF IInv, Types
<1>14. UNCHANGED <<status, deaths>> /\ k.phase # "open" /\ k.note = n /\ outbox'[n] # NoRow
  BY <1>4, <1>5, <1>13
<1>15. \A m \in Notes \ {n} : outbox'[m] = outbox[m] /\ inbox'[m] = inbox[m]  BY <1>8, <1>13
<1> HIDE DEF ids
<1>16. QED  BY <1>6, <1>8, <1>9, <1>10, <1>11, <1>12, <1>13, <1>14, <1>15, RowStep

LEMMA MarkStep == ASSUME IInv, NEW w \in Workers, Mark(w) PROVE IInv'
<1> DEFINE ids == worker[w].ids
<1>1. worker[w].phase = "answered" /\ GoodWorker(worker[w]) /\ Sending(worker[w])
  BY DEF Mark, IInv, Sending
<1>2. PICK n \in Notes : n = worker[w].note /\ n \in ids  BY <1>1 DEF GoodWorker
<1>3. /\ ids \subseteq Notes /\ \A m \in ids : outbox[m] # NoRow
      /\ outbox[n].status = "sending" /\ outbox[n] \in RowType /\ GoodRow(n)
      /\ worker[w].outcome \in {"sent", "failed"} /\ (worker[w].outcome = "sent" => inbox[n] > 0)
  BY <1>1, <1>2 DEF GoodWorker, IInv, Types
<1> DEFINE row == [outbox[n] EXCEPT !.status = worker[w].outcome]
<1> PICK k : k = Deliver(ids \ {n})  OBVIOUS
<1>4. /\ outbox' = [outbox EXCEPT ![n] = row] /\ worker' = [worker EXCEPT ![w] = k]
      /\ UNCHANGED <<status, inbox, deaths, failures>>
  BY <1>2, <1>3 DEF Mark
<1>5. /\ row \in RowType /\ row # NoRow /\ row.status = worker[w].outcome
      /\ row.attempts = outbox[n].attempts
  BY <1>3 DEF RowType, NoRow
<1> HIDE DEF row
<1>6. /\ outbox' \in [Notes -> RowType] /\ outbox'[n] = row
      /\ \A m \in Notes \ {n} : outbox'[m] = outbox[m]
  BY <1>4, <1>5 DEF IInv, Types
<1>7. GoodRow(n)'  BY <1>3, <1>4, <1>5, <1>6 DEF GoodRow
<1>8. GoodWorker(k)' /\ k.phase # "open" /\ ~Sending(k)
  <2>1. \A m \in ids \ {n} : outbox'[m] # NoRow  BY <1>3, <1>6
  <2>2. GoodWorker(k) /\ k.phase # "open" /\ ~Sending(k)  BY <1>3, DeliverIsGood
  <2>3. ids \ {n} # {} => k.phase = "committed" /\ k.ids = ids \ {n}  BY DEF Deliver
  <2>4. ids \ {n} = {} => k = Idle  BY DEF Deliver
  <2>5. CASE ids \ {n} # {}  BY <1>3, <2>1, <2>3, <2>5 DEF GoodWorker, Sending
  <2>6. CASE ids \ {n} = {}  BY <2>4, <2>6 DEF GoodWorker, Idle, Sending
  <2>7. QED  BY <2>2, <2>5, <2>6
<1>9. \A v \in Workers \ {w} : Sending(worker[v]) => worker[v].note # n
  BY <1>1, <1>2 DEF IInv, Exclusive
<1>10. failures' \in 0..MaxFailures /\ inbox' \in [Notes -> {0, 1}] /\ outbox[n] # NoRow
  BY <1>2, <1>3, <1>4 DEF IInv, Types
<1>11. QED  BY <1>4, <1>5, <1>6, <1>7, <1>8, <1>9, <1>10, RowStep

-----------------------------------------------------------------------------
(* The commit of a business transaction.                                    *)

\* What a commit does to each target and row: those it has locked move on, and
\* the rows it found missing are there.
LEMMA Committed ==
    ASSUME IInv, NEW w \in Workers, Commit(w), NEW t \in Targets, About(worker[w], t)
    PROVE  LET k == worker[w] IN
           /\ \A u \in Targets : status'[u] = IF u \in DOMAIN k.writes THEN k.writes[u] ELSE status[u]
           /\ k.ids \subseteq Notes /\ \A n \in k.ids : n.target = t /\ outbox[n] = NoRow
           /\ \A n \in k.ids : outbox'[n] = [status |-> "pending", attempts |-> 0]
           /\ \A n \in Notes \ k.ids : outbox'[n] = outbox[n]
           /\ outbox' \in [Notes -> RowType]
<1> DEFINE k == worker[w]
           new == [status |-> "pending", attempts |-> 0]
<1>1. k.ids = Queued(t, k.writes[t])  BY DEF About
<1>2. k.ids \subseteq Notes /\ \A n \in k.ids : n.target = t /\ outbox[n] = NoRow
  BY <1>1 DEF Queued
<1>3. new \in RowType  BY DEF RowType
<1>4. outbox' = [n \in Notes |-> IF n \in k.ids THEN new ELSE outbox[n]]  BY DEF Commit
<1>5. \A u \in Targets : status'[u] = IF u \in DOMAIN k.writes THEN k.writes[u] ELSE status[u]
  BY DEF Commit, Written
<1> HIDE DEF k, new
<1>6. /\ \A n \in Notes : outbox'[n] = IF n \in k.ids THEN new ELSE outbox[n]
      /\ outbox' \in [Notes -> RowType]
  BY <1>3, <1>4 DEF IInv, Types
<1>7. /\ \A n \in k.ids : outbox'[n] = new
      /\ \A n \in Notes \ k.ids : outbox'[n] = outbox[n]
  BY <1>2, <1>6
<1>8. QED  BY <1>2, <1>5, <1>6, <1>7 DEF k, new

\* The rows of the event are queued with it, and no others.
LEMMA CommitQueues ==
    ASSUME IInv, NEW w \in Workers, Commit(w), NEW t \in Targets, About(worker[w], t),
           NEW n \in Notes
    PROVE  QueuedAsDue(n)'
<1> DEFINE k == worker[w]
<1>1. n.target \in Targets  BY NotesAre
<1>2. QueuedAsDue(n)  BY DEF IInv
<1>3. /\ status'[n.target] = IF n.target \in DOMAIN k.writes THEN k.writes[n.target] ELSE status[n.target]
      /\ k.ids \subseteq Notes /\ \A m \in k.ids : m.target = t /\ outbox[m] = NoRow
      /\ n \in k.ids => outbox'[n] = [status |-> "pending", attempts |-> 0]
      /\ n \notin k.ids => outbox'[n] = outbox[n]
  BY <1>1, Committed
<1>4. [status |-> "pending", attempts |-> 0] # NoRow  BY DEF NoRow
<1>5. CASE n.target \notin DOMAIN k.writes
  <2>1. n \notin k.ids  BY <1>3, <1>5 DEF About
  <2>2. QED  BY <1>2, <1>3, <1>5, <2>1 DEF QueuedAsDue
<1>6. CASE n.target \in DOMAIN k.writes
  <2> DEFINE to   == k.writes[n.target]
             from == status[n.target]
  <2>1. to \in StatusOf(n.target) /\ from \in From(n.target, to) /\ status'[n.target] = to
    BY <1>3, <1>6 DEF About
  <2>2. /\ n.status \in Past(n.target, from) \/ (n.status = "delivered" /\ from = "refunded")
           => n.status \in Past(n.target, to) \/ (n.status = "delivered" /\ to = "refunded")
        /\ n.status \in Past(n.target, to) => n.status \in Past(n.target, from) \/ n.status = to
        /\ n.status = to => n.status \in Past(n.target, to)
    BY <2>1, PastGrows
  <2>3. ASSUME outbox'[n] # NoRow
        PROVE  n.status \in Past(n.target, to) \/ (n.status = "delivered" /\ to = "refunded")
    <3>1. CASE n \in k.ids
      <4>1. n.status = to  BY <3>1, <1>3 DEF About, Queued
      <4>2. QED  BY <2>2, <4>1
    <3>2. CASE n \notin k.ids
      BY <1>2, <1>3, <2>2, <2>3, <3>2 DEF QueuedAsDue
    <3>3. QED  BY <3>1, <3>2
  <2>4. ASSUME n.channel = "email", n.status \in Past(n.target, to) PROVE outbox'[n] # NoRow
    <3>1. CASE outbox[n] # NoRow  BY <1>3, <1>4, <3>1
    <3>2. CASE outbox[n] = NoRow
      <4>1. n.status = to  BY <1>2, <2>2, <2>4, <3>2 DEF QueuedAsDue
      <4>2. n.target = t
        <5>1. ASSUME n.target # t PROVE FALSE
          <6>1. n.target \in Orders /\ to = "refunded"  BY <1>6, <5>1 DEF About
          <6>2. QED  BY <4>1, <6>1, NotesAre
        <5>2. QED  BY <5>1
      <4>3. n \in k.ids  BY <2>4, <3>2, <4>1, <4>2 DEF About, Queued
      <4>4. QED  BY <1>3, <1>4, <4>3
    <3>3. QED  BY <3>1, <3>2
  <2>5. QED  BY <2>1, <2>3, <2>4 DEF QueuedAsDue
<1>7. QED  BY <1>5, <1>6

LEMMA CommitStep == ASSUME IInv, NEW w \in Workers, Commit(w) PROVE IInv'
<1>1. PICK j : j = worker[w]  OBVIOUS
<1>2. j.phase = "open" /\ GoodWorker(j)  BY <1>1 DEF Commit, IInv
<1>3. PICK t \in Targets : About(j, t)  BY <1>2 DEF GoodWorker
<1>4. PICK k : k = Deliver(j.ids)  OBVIOUS
<1>5. /\ worker' = [worker EXCEPT ![w] = k] /\ UNCHANGED <<inbox, deaths, failures>>
      /\ status' = Written(j.writes)
  BY <1>1, <1>4 DEF Commit
<1>6. \A v \in Workers : worker'[v] = IF v = w THEN k ELSE worker[v]  BY <1>5 DEF IInv, Types
<1>7. /\ \A u \in Targets : status'[u] = IF u \in DOMAIN j.writes THEN j.writes[u] ELSE status[u]
      /\ j.ids \subseteq Notes /\ \A n \in j.ids : n.target = t /\ outbox[n] = NoRow
      /\ \A n \in j.ids : outbox'[n] = [status |-> "pending", attempts |-> 0]
      /\ \A n \in Notes \ j.ids : outbox'[n] = outbox[n]
      /\ outbox' \in [Notes -> RowType]
  BY <1>1, <1>3, Committed
<1>8. Types'
  <2>1. \A u \in Targets : status'[u] \in StatusOf(u) \cup {"none"}
    BY <1>3, <1>7 DEF IInv, Types, About
  <2>2. status' = [u \in Targets |-> status'[u]]  BY <1>5 DEF Written
  <2>3. QED  BY <1>5, <1>6, <1>7, <2>1, <2>2 DEF IInv, Types
<1>9. ASSUME NEW n \in Notes PROVE GoodRow(n)' /\ QueuedAsDue(n)'
  <2>1. GoodRow(n)'
    <3>1. GoodRow(n) /\ inbox'[n] = inbox[n]  BY <1>5 DEF IInv
    <3>2. CASE n \in j.ids
      <4>1. inbox[n] = 0  BY <1>7, <3>1, <3>2 DEF GoodRow, NoRow
      <4>2. outbox'[n].status = "pending" /\ outbox'[n].attempts = 0  BY <1>7, <3>2
      <4>3. QED  BY <3>1, <4>1, <4>2 DEF GoodRow
    <3>3. CASE n \notin j.ids  BY <1>7, <3>1, <3>3 DEF GoodRow
    <3>4. QED  BY <3>2, <3>3
  <2>2. QED  BY <1>1, <1>3, <2>1, CommitQueues
<1>10. \A n \in Notes : outbox[n] # NoRow => outbox'[n] = outbox[n]  BY <1>7
<1>11. ASSUME NEW v \in Workers PROVE GoodWorker(worker[v])'
  <2>1. CASE v = w
    <3>1. \A n \in j.ids : outbox'[n] # NoRow  BY <1>7 DEF NoRow
    <3>2. CASE j.ids = {}
      <4>1. k = Idle  BY <1>4, <3>2 DEF Deliver
      <4>2. QED  BY <1>6, <2>1, <4>1 DEF GoodWorker, Idle, Sending
    <3>3. CASE j.ids # {}
      <4>1. k = [phase |-> "committed", ids |-> j.ids]  BY <1>4, <3>3 DEF Deliver
      <4>2. k.phase = "committed" /\ k.ids = j.ids  BY <4>1
      <4>3. QED  BY <1>6, <1>7, <2>1, <3>1, <3>3, <4>2 DEF GoodWorker, Sending
    <3>4. QED  BY <3>2, <3>3
  <2>2. CASE v # w
    <3>1. PICK i : i = worker[v]  OBVIOUS
    <3>2. worker'[v] = i /\ GoodWorker(i)  BY <1>6, <2>2, <3>1 DEF IInv
    <3>3. i.phase = "open" => i.locked \cap j.locked = {}
      BY <1>1, <1>2, <2>2, <3>1 DEF IInv, Exclusive, Held
    <3>4. ASSUME NEW s \in Targets, i.phase = "open", About(i, s) PROVE About(i, s)'
      <4>1. s \notin DOMAIN j.writes /\ s # t /\ \A u \in DOMAIN i.writes : u \notin DOMAIN j.writes
        BY <1>3, <3>3, <3>4 DEF About
      <4>2. \A u \in DOMAIN i.writes : status'[u] = status[u]
        BY <1>7, <3>4, <4>1 DEF About
      <4>3. Queued(s, i.writes[s])' = Queued(s, i.writes[s])
        <5>1. \A n \in Notes : n.target = s => outbox'[n] = outbox[n]  BY <1>7, <4>1
        <5>2. QED  BY <5>1 DEF Queued
      <4>4. QED  BY <3>4, <4>2, <4>3 DEF About
    <3>5. i.phase = "open" => \E s \in Targets : About(i, s)'
      BY <3>2, <3>4 DEF GoodWorker
    <3>6. Sending(i) => outbox'[i.note] = outbox[i.note]
      BY <1>10, <3>2 DEF GoodWorker, Sending
    <3>7. GoodWorker(i)'
      BY <1>5, <1>10, <3>2, <3>5, <3>6 DEF GoodWorker, Sending
    <3>8. QED  BY <3>2, <3>7
  <2>3. QED  BY <2>1, <2>2
<1>12. Exclusive'
  <2>1. k.phase # "open" /\ ~Sending(k)
    BY <1>4 DEF Deliver, Idle, Sending
  <2>2. QED  BY <1>6, <2>1 DEF IInv, Exclusive, Held, Sending
<1>13. QED  BY <1>8, <1>9, <1>11, <1>12 DEF IInv

LEMMA NextPreserves == IInv /\ [Next]_vars => IInv'
<1> SUFFICES ASSUME IInv, [Next]_vars PROVE IInv'  OBVIOUS
<1>1. CASE UNCHANGED vars
  <2>1. ASSUME NEW w \in Workers PROVE GoodWorker(worker[w])'
    <3>1. PICK k : k = worker[w]  OBVIOUS
    <3>2. GoodWorker(k)'  BY <1>1, <3>1, SameWorker DEF vars, IInv
    <3>3. worker'[w] = k  BY <1>1, <3>1 DEF vars
    <3>4. QED  BY <3>2, <3>3
  <2>2. QED  BY <1>1, <2>1 DEF vars, IInv, Types, GoodRow, QueuedAsDue, Exclusive, Held, Sending
<1>2. ASSUME NEW w \in Workers, Serve(w) PROVE IInv'
  BY <1>2, CommitStep, ClaimStep, SendStep, MarkStep DEF Serve
<1>3. QED  BY <1>1, <1>2, MoveStep, DieStep DEF Next

LEMMA Inductive == Spec => []IInv
BY InitHolds, NextPreserves, PTL DEF Spec

-----------------------------------------------------------------------------
(* Each step as one of AtMostOnce.                                          *)

Promised == {n \in Notes : outbox[n] # NoRow}

\* Only a commit adds rows, and none is ever taken away.
LEMMA CommitPromises ==
    ASSUME IInv, NEW w \in Workers, Commit(w)
    PROVE  Outbox!Promise
<1>1. PICK k : k = worker[w]  OBVIOUS
<1>2. k.phase = "open" /\ GoodWorker(k) /\ UNCHANGED inbox  BY <1>1 DEF Commit, IInv
<1>3. PICK t \in Targets : About(k, t)  BY <1>2 DEF GoodWorker
<1>4. /\ \A n \in k.ids : outbox[n] = NoRow
      /\ \A n \in Notes \ k.ids : outbox'[n] = outbox[n]
  BY <1>1, <1>3, Committed
<1>5. Promised \subseteq Promised'  BY <1>4 DEF Promised
<1>6. Promised' \in SUBSET Notes  BY DEF Promised
<1>7. QED  BY <1>2, <1>5, <1>6 DEF Outbox!Promise, Promised

\* A message goes out for a row that is there, and nothing had been received for it.
LEMMA SendReaches ==
    ASSUME IInv, NEW w \in Workers, Send(w)
    PROVE  (\E n \in Notes : Outbox!Reach(n)) \/ UNCHANGED <<Promised, inbox>>
<1>1. worker[w].phase = "claimed" /\ GoodWorker(worker[w]) /\ Sending(worker[w])
  BY DEF Send, IInv, Sending
<1>2. PICK n \in Notes : n = worker[w].note /\ n \in worker[w].ids  BY <1>1 DEF GoodWorker
<1>3. outbox[n] # NoRow /\ inbox[n] = 0  BY <1>1, <1>2 DEF GoodWorker
<1>4. outbox' = outbox /\ (inbox' = [inbox EXCEPT ![n] = inbox[n] + 1] \/ inbox' = inbox)
  BY <1>2 DEF Send
<1>5. Promised' = Promised  BY <1>4 DEF Promised
<1>6. n \in Promised  BY <1>3 DEF Promised
<1>7. CASE inbox' = inbox  BY <1>5, <1>7
<1>8. CASE inbox' = [inbox EXCEPT ![n] = inbox[n] + 1]
  <2>1. inbox' = [inbox EXCEPT ![n] = 1]  BY <1>3, <1>8
  <2>2. Outbox!Reach(n)  BY <1>3, <1>5, <1>6, <2>1 DEF Outbox!Reach, Promised
  <2>3. QED  BY <2>2
<1>9. QED  BY <1>4, <1>7, <1>8

\* Claims and marks write rows that are there.
LEMMA RowsStay ==
    ASSUME IInv, IInv', NEW w \in Workers, Claim(w) \/ Mark(w)
    PROVE  UNCHANGED <<Promised, inbox>>
<1>1. inbox' = inbox  BY DEF Claim, Mark
<1>2. GoodWorker(worker[w])  BY DEF IInv
<1>3. PICK n : /\ n \in worker[w].ids /\ n \in Notes
               /\ \A m \in Notes \ {n} : outbox'[m] = outbox[m]
  <2>1. CASE Claim(w)
    <3>1. worker[w].phase = "committed" /\ worker[w].ids # {} /\ worker[w].ids \subseteq Notes
      BY <1>2, <2>1 DEF Claim, GoodWorker
    <3>2. PICK n : n = Foremost(worker[w].ids)  OBVIOUS
    <3>3. n \in worker[w].ids /\ n \in Notes  BY <3>1, <3>2, ForemostIsOne
    <3>4. \A m \in Notes \ {n} : outbox'[m] = outbox[m]
      BY <2>1, <3>2 DEF Claim, IInv, Types
    <3>5. QED  BY <3>3, <3>4
  <2>2. CASE Mark(w)
    <3>1. worker[w].phase = "answered" /\ worker[w].ids \subseteq Notes /\ worker[w].note \in worker[w].ids
      BY <1>2, <2>2 DEF Mark, GoodWorker, Sending
    <3>2. \A m \in Notes \ {worker[w].note} : outbox'[m] = outbox[m]
      BY <2>2 DEF Mark, IInv, Types
    <3>3. QED  BY <3>1, <3>2
  <2>3. QED  BY <2>1, <2>2
<1>4. outbox[n] # NoRow
  BY <1>2, <1>3 DEF GoodWorker, Claim, Mark
<1>5. outbox'[n] # NoRow
  <2>1. CASE Claim(w) /\ outbox'[n] # outbox[n]
    <3>1. outbox'[n].status = "sending"
      BY <1>3, <2>1 DEF Claim, IInv, Types
    <3>2. QED  BY <3>1 DEF NoRow
  <2>2. CASE Mark(w)
    <3>1. outbox[n].attempts = 0 => outbox[n].status = "pending"
      BY <1>3, <1>4 DEF IInv, GoodRow, Types, RowType, NoRow
    <3>2. outbox'[n].attempts = outbox[n].attempts
      BY <1>3, <2>2 DEF Mark, IInv, Types, RowType
    <3>3. QED  BY <1>3, <1>4, <2>2, <3>1, <3>2 DEF Mark, IInv, Types, RowType, NoRow
  <2>3. QED  BY <1>4, <2>1, <2>2
<1>6. Promised' = Promised  BY <1>3, <1>4, <1>5 DEF Promised
<1>7. QED  BY <1>1, <1>6

LEMMA StepRefines ==
    IInv /\ IInv' /\ [Next]_vars => [Outbox!Next]_<<Promised, inbox>>
<1> SUFFICES ASSUME IInv, IInv', [Next]_vars PROVE [Outbox!Next]_<<Promised, inbox>>
  OBVIOUS
<1>1. CASE UNCHANGED vars  BY <1>1 DEF vars, Promised
<1>2. ASSUME NEW w \in Workers, MoveOrder(w) \/ MoveRequest(w) \/ ProcessInFull(w) \/ Die(w)
      PROVE  UNCHANGED <<Promised, inbox>>
  BY <1>2 DEF MoveOrder, MoveRequest, ProcessInFull, Move, Die, Promised
<1>3. ASSUME NEW w \in Workers, Serve(w) PROVE [Outbox!Next]_<<Promised, inbox>>
  BY <1>3, CommitPromises, SendReaches, RowsStay DEF Serve, Outbox!Next
<1>4. QED  BY <1>1, <1>2, <1>3 DEF Next

-----------------------------------------------------------------------------
\* The outbox is transactional: a notification's row is there only if its event was
\* committed, and the mail of every committed event has its row, whoever died in between.
THEOREM RowsFollowEvents == Spec => []QueuedWithEvent
<1>1. IInv => QueuedWithEvent  BY Consequences
<1>2. QED  BY <1>1, Inductive, PTL

\* Rows are as the table's check constraint has them; 'sent' was received by the
\* customer, and what is still 'pending' was not.
THEOREM RowsAreHonest == Spec => []HonestStatus
<1>1. IInv => HonestStatus  BY Consequences
<1>2. QED  BY <1>1, Inductive, PTL

\* The outbox implements AtMostOnce: a message reaches its customer only for a
\* notification promised with its event, and at most once.
THEOREM ImplementsAtMostOnce == Spec => DeliveredAtMostOnce
<1>1. Init => Outbox!Init  BY DEF Init, Outbox!Init
<1>2. IInv /\ IInv' /\ [Next]_vars => [Outbox!Next]_<<Promised, inbox>>  BY StepRefines
<1>3. Spec => [][Outbox!Next]_<<Promised, inbox>>  BY <1>2, Inductive, PTL DEF Spec
<1>4. QED  BY <1>1, <1>3, PTL DEF Spec, DeliveredAtMostOnce, Outbox!Spec, Promised

=============================================================================
