----------------------------- MODULE StaffRecords -----------------------------
(***************************************************************************)
(* The generic endpoints for products, orders, order items and refunds,    *)
(* statement by statement at READ COMMITTED, with the audit row of each    *)
(* change.                                                                 *)
(*                                                                         *)
(* A request reads the row it changes, validates what it was sent against  *)
(* the rows that this refers to, writes, inserts its audit row and commits.*)
(* Only the item of a refund is locked while it is validated; everything   *)
(* else that was read may have changed by the time of the write, which     *)
(* checks the row_version and the foreign keys again.                      *)
(***************************************************************************)
EXTENDS Cents, FiniteSetsExt

CONSTANTS
    Sessions,      \* browser sessions of the staff
    Base,          \* the rows there are at first: a sequence of rows
    MaxRows,       \* bound: rows ever
    MaxVersion,    \* bound: changes of a row
    Inputs,        \* what may be sent: a set of data of the four tables
    None

Ids == 1 .. MaxRows

VARIABLES
    records,       \* [Ids -> the row, or None before its INSERT]
    work,          \* [Sessions -> the request in flight]
    audited        \* [changed: per row, the logged changes; created: the logged creations]

vars == <<records, work, audited>>

Kinds   == {"products", "orders", "order_items", "order_item_refunds"}
Origins == {"imported", "staff", "customer"}

\* A row has the columns product, order, item, session and amount, where amount is
\* the price of an item or the amount of a refund, and 0 stands for NULL and for a
\* column that the table does not have.  Names, times and costs are left out.
Data == [kind : Kinds, product : Nat, order : Nat, item : Nat, session : Nat, amount : Nat]
Rows == [kind : Kinds \cup {"none"}, origin : Origins, product : Nat, order : Nat, item : Nat, session : Nat,
         amount : Nat, version : Nat \ {0}]

\* What an instance may start from and send: rows that the tables' constraints let
\* in, and data that the endpoints' schemas let through.
RecordsAssumption ==
    /\ None \notin Rows \cup Data /\ MaxRows \in Nat /\ MaxVersion \in Nat /\ Inputs \subseteq Data
    /\ DOMAIN Base \subseteq Ids
    /\ \A i \in DOMAIN Base :
          /\ Base[i] \in Rows /\ Base[i].kind # "none" /\ Base[i].version = 1
          /\ {Base[i].product, Base[i].order, Base[i].item} \subseteq DOMAIN Base \cup {0}
          /\ Base[i].kind = "order_items" =>
                Base[i].order \in DOMAIN Base /\ Base[Base[i].order].origin = Base[i].origin
    /\ \A i, j \in DOMAIN Base : i # j /\ Base[i].kind = "orders" /\ Base[j].kind = "orders"
          => Base[i].session # Base[j].session \/ Base[i].session = 0

Idle == [op |-> "idle", step |-> "none", id |-> 0, version |-> 0, data |-> None, row |-> None]

Init ==
    /\ records = [i \in Ids |-> IF i \in DOMAIN Base THEN Base[i] ELSE None]
    /\ work = [s \in Sessions |-> Idle]
    /\ audited = [changed |-> [i \in Ids |-> 0], created |-> 0]

-----------------------------------------------------------------------------
(* Rows and locks.                                                          *)

\* A row that was deleted keeps its last state, with kind "none".
There(i) == i \in Ids /\ records[i] # None /\ records[i].kind # "none"
Is(i, kind) == There(i) /\ records[i].kind = kind
StaffRow(i) == There(i) /\ records[i].origin = "staff"

Refs(row) == {row.product, row.order, row.item} \ {0}
Children(i) == {j \in Ids : There(j) /\ i \in Refs(records[j])}

\* Columns of a unique index that a foreign key can refer to.
KeyChanges(old, new) == old.order # new.order \/ old.session # new.session

At(s, step) == work[s].step = step
Written(s) == IF At(s, "commit") THEN {work[s].id} ELSE {}

\* SELECT ... FOR UPDATE of a refund's item, DELETE, and UPDATE of a key ...
Strong(s) ==
    LET w == work[s] IN
    (IF w.step \in {"write", "commit"} /\ w.data # None /\ w.data.item # 0 THEN {w.data.item} ELSE {})
    \cup {i \in Written(s) : w.op # "create" /\ (w.op = "delete" \/ KeyChanges(records[i], w.row))}

\* ... any other UPDATE ...
NoKey(s) == {i \in Written(s) : work[s].op = "update"}

\* ... and the rows that new foreign keys refer to.
NewRefs(w) == Refs(w.row) \ (IF w.op = "create" THEN {} ELSE Refs(records[w.id]))
KeyShare(s) == IF At(s, "commit") /\ work[s].op # "delete" THEN NewRefs(work[s]) ELSE {}

Others(s) == Sessions \ {s}
FreeForShare(s, I)  == \A r \in Others(s) : I \cap Strong(r) = {}
FreeForUpdate(s, I) == \A r \in Others(s) : I \cap (Strong(r) \cup NoKey(r) \cup KeyShare(r)) = {}
FreeForNoKey(s, I)  == \A r \in Others(s) : I \cap (Strong(r) \cup NoKey(r)) = {}

Goto(s, step) == work' = [work EXCEPT ![s].step = step] /\ UNCHANGED <<records, audited>>
Fail(s) == work' = [work EXCEPT ![s] = Idle] /\ UNCHANGED <<records, audited>>

-----------------------------------------------------------------------------
(* Requests.                                                                *)

BeginCreate(s, data) ==
    /\ work[s] = Idle
    /\ work' = [work EXCEPT ![s] = [Idle EXCEPT !.op = "create", !.step = "validate", !.data = data]]
    /\ UNCHANGED <<records, audited>>

\* The client sends the row_version of the page, which may be an old one.
BeginUpdate(s, i, data, version) ==
    /\ work[s] = Idle
    /\ There(i) /\ data.kind = records[i].kind /\ version <= records[i].version
    /\ work' = [work EXCEPT ![s] = [op |-> "update", step |-> "read", id |-> i, version |-> version,
                                    data |-> data, row |-> None]]
    /\ UNCHANGED <<records, audited>>

BeginDelete(s, i, version) ==
    /\ work[s] = Idle
    /\ There(i) /\ version <= records[i].version
    /\ work' = [work EXCEPT ![s] = [Idle EXCEPT !.op = "delete", !.step = "read", !.id = i, !.version = version]]
    /\ UNCHANGED <<records, audited>>

\* _ensure_mutable_version
EnsureMutableVersion(s) ==
    LET w == work[s] IN
    /\ At(s, "read")
    /\ IF StaffRow(w.id) /\ records[w.id].version = w.version
         THEN Goto(s, IF w.op = "delete" THEN "write" ELSE "validate")
         ELSE Fail(s)

RefundsOf(item, except) == {i \in Ids \ {except} : Is(i, "order_item_refunds") /\ records[i].item = item}
Refunded(item, except) == LET R == RefundsOf(item, except) IN Sum(R, [i \in R |-> records[i].amount])

\* validate: a refund locks its item and compares its order and its price; an
\* item wants an order of the staff; an order wants a visit without one.
Valid(w) ==
    CASE w.data.kind = "products" -> TRUE
      [] w.data.kind = "orders" -> \A i \in Ids \ {w.id} : Is(i, "orders") => records[i].session # w.data.session
      [] w.data.kind = "order_items" -> /\ Is(w.data.order, "orders") /\ StaffRow(w.data.order)
                                        /\ Is(w.data.product, "products")
      [] w.data.kind = "order_item_refunds" ->
            /\ Is(w.data.item, "order_items") /\ records[w.data.item].order = w.data.order
            /\ Refunded(w.data.item, w.id) + w.data.amount <= records[w.data.item].amount

ValidateUnlocked(s) ==           \* Mutant: the item is read without FOR UPDATE.
    /\ At(s, "validate")
    /\ IF Valid(work[s]) THEN Goto(s, "write") ELSE Fail(s)

Validate(s) ==
    /\ At(s, "validate")
    /\ work[s].data.item # 0 => FreeForUpdate(s, {work[s].data.item})
    /\ IF Valid(work[s]) THEN Goto(s, "write") ELSE Fail(s)

-----------------------------------------------------------------------------
(* The write, and the end of the request.                                   *)

With(row, data) == [row EXCEPT !.product = data.product, !.order = data.order, !.item = data.item,
                               !.session = data.session, !.amount = data.amount]

Write(s, i, row) == work' = [work EXCEPT ![s].step = "commit", ![s].id = i, ![s].row = row]
                    /\ UNCHANGED <<records, audited>>

\* A foreign key to an order item's order includes record_origin.
KeysExist(w, row) ==
    \A i \in NewRefs([w EXCEPT !.row = row]) :
        There(i) /\ (row.kind = "order_items" /\ i = row.order => records[i].origin = row.origin)

\* The unique index on the visit of an order waits for, and then refuses, a second one.
SameVisit(s, row) == {r \in Others(s) : At(r, "commit") /\ work[r].row.kind = "orders" /\ work[r].row.session = row.session}
VisitFree(i, row) == \A j \in Ids \ {i} : Is(j, "orders") => records[j].session # row.session

Unused == {i \in Ids : records[i] = None /\ \A r \in Sessions : i \notin Written(r)}

Insert(s) ==
    LET w   == work[s]
        i   == Min(Unused)
        row == [kind |-> w.data.kind, origin |-> "staff", product |-> w.data.product, order |-> w.data.order,
                item |-> w.data.item, session |-> w.data.session, amount |-> w.data.amount, version |-> 1]
    IN  /\ At(s, "write") /\ w.op = "create" /\ Unused # {}
        /\ row.kind = "orders" => SameVisit(s, row) = {}
        /\ FreeForShare(s, Refs(row))
        /\ IF (row.kind = "orders" => VisitFree(i, row)) /\ (\A k \in Refs(row) : There(k)) /\ KeysExist(w, row)
             THEN Write(s, i, row)
             ELSE Fail(s)

UpdateAnyVersion(s) ==           \* Mutant: no row_version in the WHERE clause.
    LET w   == work[s]
        old == records[w.id]
        row == [With(old, w.data) EXCEPT !.version = @ + 1]
    IN  /\ At(s, "write") /\ w.op = "update"
        /\ IF KeyChanges(old, row) THEN FreeForUpdate(s, {w.id}) ELSE FreeForNoKey(s, {w.id})
        /\ row.kind = "orders" => SameVisit(s, row) = {}
        /\ FreeForShare(s, NewRefs([w EXCEPT !.row = row]))
        /\ IF StaffRow(w.id) /\ KeysExist(w, row) /\ (row.kind = "orders" => VisitFree(w.id, row))
             THEN Write(s, w.id, row)
             ELSE Fail(s)

Update(s) ==
    LET w   == work[s]
        old == records[w.id]
        row == [With(old, w.data) EXCEPT !.version = @ + 1]
    IN  /\ At(s, "write") /\ w.op = "update"
        /\ IF KeyChanges(old, row) THEN FreeForUpdate(s, {w.id}) ELSE FreeForNoKey(s, {w.id})
        /\ row.kind = "orders" => SameVisit(s, row) = {}
        /\ FreeForShare(s, NewRefs([w EXCEPT !.row = row]))
        /\ IF /\ StaffRow(w.id) /\ old.version = w.version
              /\ KeysExist(w, row)
              /\ row.kind = "orders" => VisitFree(w.id, row)
             THEN Write(s, w.id, row)
             ELSE Fail(s)

DeleteParents(s) ==              \* Mutant: the rows that refer to it are not checked.
    LET w == work[s] IN
    /\ At(s, "write") /\ w.op = "delete"
    /\ FreeForUpdate(s, {w.id})
    /\ IF StaffRow(w.id) /\ records[w.id].version = w.version
         THEN Write(s, w.id, [records[w.id] EXCEPT !.kind = "none"])
         ELSE Fail(s)

\* The foreign keys wait for the rows that refer to this one, and refuse.
Delete(s) ==
    LET w == work[s] IN
    /\ At(s, "write") /\ w.op = "delete"
    /\ FreeForUpdate(s, {w.id}) /\ FreeForShare(s, Children(w.id))
    /\ IF StaffRow(w.id) /\ records[w.id].version = w.version /\ Children(w.id) = {}
         THEN Write(s, w.id, [records[w.id] EXCEPT !.kind = "none"])
         ELSE Fail(s)

CommitUnlogged(s) ==             \* Mutant: the change outlives a refused audit row.
    LET w == work[s] IN
    /\ At(s, "commit")
    /\ \/ /\ records' = [records EXCEPT ![w.id] = w.row]
          /\ \/ audited' = IF w.op = "create" THEN [audited EXCEPT !.created = @ + 1]
                                              ELSE [audited EXCEPT !.changed[w.id] = @ + 1]
             \/ UNCHANGED audited
          /\ work' = [work EXCEPT ![s] = Idle]
       \/ Fail(s)

\* The audit row is the transaction's last statement: when it is refused, or the
\* process dies before the COMMIT, nothing of the request remains.
Commit(s) ==
    LET w == work[s] IN
    /\ At(s, "commit")
    /\ \/ /\ records' = [records EXCEPT ![w.id] = w.row]
          /\ audited' = IF w.op = "create" THEN [audited EXCEPT !.created = @ + 1]
                                           ELSE [audited EXCEPT !.changed[w.id] = @ + 1]
          /\ work' = [work EXCEPT ![s] = Idle]
       \/ Fail(s)

-----------------------------------------------------------------------------
Submit(s) ==
    \/ \E data \in Inputs : BeginCreate(s, data)
    \/ \E i \in Ids, v \in 1 .. MaxVersion : BeginDelete(s, i, v) \/ \E data \in Inputs : BeginUpdate(s, i, data, v)

Serve(s) == EnsureMutableVersion(s) \/ Validate(s) \/ Insert(s) \/ Update(s) \/ Delete(s) \/ Commit(s)

WithinBounds == Unused # {} /\ \A i \in Ids : There(i) => records[i].version < MaxVersion

Next == \E s \in Sessions : (Submit(s) /\ WithinBounds) \/ Serve(s)

Spec == Init /\ [][Next]_vars

-----------------------------------------------------------------------------
(* Properties.                                                              *)

\* Every reference is to a row that is there; the rows of the staff's orders, and
\* no others, have items of the staff; a visit has one order at most.
TypeOK ==
    /\ \A i \in Ids : There(i) =>
          /\ records[i].kind \in Kinds /\ records[i].origin \in Origins
          /\ \A k \in Refs(records[i]) : There(k)
          /\ records[i].kind = "order_items" => records[records[i].order].origin = records[i].origin
    /\ \A i, j \in Ids : i # j /\ Is(i, "orders") /\ Is(j, "orders") /\ records[i].session # 0
          => records[i].session # records[j].session

\* A refund that is written fits: it is of its item's order, and the refunds of the
\* item are together no more than its price, whatever else changes meanwhile.
RefundFits ==
    [][\A s \in Sessions, item \in Ids :
          /\ At(s, "commit") /\ records' # records /\ work'[s] = Idle
          /\ work[s].row.kind = "order_item_refunds" /\ work[s].row.item = item
          => /\ records'[item].order = work[s].row.order
             /\ Refunded(item, 0)' <= records'[item].amount]_vars

\* The audit trail has exactly the changes that were committed; rows of other
\* origins have none.
AuditComplete ==
    /\ \A i \in DOMAIN Base : records[i].origin # "staff" => records[i] = Base[i]
    /\ audited.created = Cardinality({i \in Ids \ DOMAIN Base : records[i] # None})
    /\ \A i \in Ids : records[i] # None =>
          audited.changed[i] = records[i].version - 1 + (IF There(i) THEN 0 ELSE 1)

\* A change is of the version its author had seen, even if it waited for the row.
WrittenAsSeen ==
    [][\A s \in Sessions :
          At(s, "commit") /\ records' # records /\ work'[s] = Idle /\ work[s].op # "create"
          => records[work[s].id].version = work[s].version]_vars

=============================================================================
