-------------------------- MODULE StaffRecordsProofs --------------------------
(***************************************************************************)
(* The generic endpoints, proved for any number of sessions, rows and      *)
(* changes.  What a request has validated without a lock may change before *)
(* its write; the write checks the versions, the foreign keys and the      *)
(* unique visit again, and its locks keep what it has checked until the    *)
(* commit.                                                                 *)
(***************************************************************************)
EXTENDS StaffRecords, FiniteSetTheorems, WellFoundedInduction, TLAPS

Work == [op : {"idle", "create", "update", "delete"}, step : {"none", "read", "validate", "write", "commit"},
         id : Nat, version : Nat, data : Data \cup {None}, row : Rows \cup {None}]

Types ==
    /\ records \in [Ids -> Rows \cup {None}]
    /\ work \in [Sessions -> Work]
    /\ audited \in [changed : [Ids -> Nat], created : Nat]

\* What the INSERT and the UPDATE write.
Inserted(data) ==
    [kind |-> data.kind, origin |-> "staff", product |-> data.product, order |-> data.order,
     item |-> data.item, session |-> data.session, amount |-> data.amount, version |-> 1]

Updated(old, data) == [With(old, data) EXCEPT !.version = @ + 1]

\* What is left of a request's validation until it commits: the item of a refund is locked ...
RefundOK(w) ==
    w.data.kind = "order_item_refunds" =>
        /\ Is(w.data.item, "order_items") /\ records[w.data.item].order = w.data.order
        /\ Refunded(w.data.item, w.id) + w.data.amount <= records[w.data.item].amount

\* ... and an order stays one of the staff's, though it may be deleted.
ItemOK(w) ==
    w.data.kind = "order_items" =>
        w.data.order \in Ids /\ records[w.data.order] # None /\ records[w.data.order].origin = "staff"

\* What a request has written, and has checked in doing so.
CreateOK(w) == w.op = "create" => records[w.id] = None /\ w.row = Inserted(w.data)
SeenOK(w)   == w.op \in {"update", "delete"} => StaffRow(w.id) /\ records[w.id].version = w.version
UpdateOK(w) == w.op = "update" => w.row = Updated(records[w.id], w.data)
DeleteOK(w) == w.op = "delete" => w.row = [records[w.id] EXCEPT !.kind = "none"] /\ Children(w.id) = {}
RefsOK(w)   == w.op # "delete" => \A k \in NewRefs(w) : There(k)
VisitOK(w)  == w.op # "delete" /\ w.row.kind = "orders" => VisitFree(w.id, w.row)

WriteOK(w) ==
    /\ w.id \in Ids /\ w.row \in Rows
    /\ CreateOK(w) /\ SeenOK(w) /\ UpdateOK(w) /\ DeleteOK(w) /\ RefsOK(w) /\ VisitOK(w)

\* A request by itself.
Shape(w) ==
    /\ w.op = "idle" => w = Idle
    /\ w.op = "create" => w.step \in {"validate", "write", "commit"} /\ w.data \in Data
    /\ w.op = "create" /\ w.step # "commit" => w.id = 0
    /\ w.op = "update" => w.step \in {"read", "validate", "write", "commit"} /\ w.data \in Data
    /\ w.op = "delete" => w.step \in {"read", "write", "commit"} /\ w.data = None
    /\ w.op \in {"update", "delete"} => w.id \in Ids

OldOK(w) ==
    /\ w.op \in {"update", "delete"} => records[w.id] # None
    /\ w.op = "update" => records[w.id].kind \in {w.data.kind, "none"}

GoodWork(w) ==
    /\ Shape(w) /\ OldOK(w)
    /\ w.step \in {"write", "commit"} /\ w.data # None => RefundOK(w) /\ ItemOK(w)
    /\ w.step = "commit" => WriteOK(w)

\* The locks of a request, as Strong, NoKey, KeyShare and Written have them.
WrittenOf(w) == IF w.step = "commit" THEN {w.id} ELSE {}
ItemOf(w) == IF w.step \in {"write", "commit"} /\ w.data # None /\ w.data.item # 0 THEN {w.data.item} ELSE {}
StrongOf(w) ==
    ItemOf(w) \cup {i \in WrittenOf(w) : w.op # "create" /\ (w.op = "delete" \/ KeyChanges(records[i], w.row))}
NoKeyOf(w) == {i \in WrittenOf(w) : w.op = "update"}
KeyShareOf(w) == IF w.step = "commit" /\ w.op # "delete" THEN NewRefs(w) ELSE {}

\* Two requests exclude each other's locks, write different rows and different visits.
Apart(v, w) ==
    /\ StrongOf(v) \cap (StrongOf(w) \cup NoKeyOf(w) \cup KeyShareOf(w)) = {}
    /\ WrittenOf(v) \cap WrittenOf(w) = {}
    /\ v.step = "commit" /\ w.step = "commit" /\ v.row.kind = "orders" /\ w.row.kind = "orders"
         => v.row.session # w.row.session

AllApart == \A s, r \in Sessions : s # r => Apart(work[s], work[r])

\* The rows: an item of an order has one.
Items == \A i \in Ids : Is(i, "order_items") => records[i].order \in Ids

\* A row that was never written has no logged change.
Unlogged == \A i \in Ids : records[i] = None => i \notin DOMAIN Base /\ audited.changed[i] = 0

IInv ==
    /\ Types
    /\ \A s \in Sessions : GoodWork(work[s])
    /\ AllApart
    /\ TypeOK /\ Items
    /\ AuditComplete /\ Unlogged
-----------------------------------------------------------------------------
(* Sums, as in OrderRefundsProofs.                                          *)

LEMMA CentsOfRow ==
    ASSUME NEW x, NEW n \in Nat
    PROVE  IsFiniteSet({x} \X (1..n)) /\ Cardinality({x} \X (1..n)) = n
<1>1. IsFiniteSet({x}) /\ Cardinality({x}) = 1  BY FS_Singleton
<1>2. IsFiniteSet(1..n) /\ Cardinality(1..n) = n  BY FS_Interval
<1>3. /\ IsFiniteSet({x} \X (1..n))
      /\ Cardinality({x} \X (1..n)) = Cardinality({x}) * Cardinality(1..n)
  BY <1>1, <1>2, FS_Product
<1>4. QED  BY <1>1, <1>2, <1>3

LEMMA SumType ==
    ASSUME NEW S, IsFiniteSet(S), NEW amount, \A x \in S : amount[x] \in Nat
    PROVE  IsFiniteSet(CentsOf(S, amount)) /\ Sum(S, amount) \in Nat
<1> DEFINE cents == [x \in S |-> {x} \X (1..amount[x])]
           rows  == {cents[x] : x \in S}
<1>1. cents \in Surjection(S, rows)  BY DEF Surjection
<1>2. IsFiniteSet(rows)
  <2> HIDE DEF cents, rows
  <2>1. QED  BY <1>1, FS_Surjection
<1>3. \A T \in rows : IsFiniteSet(T)
  <2> SUFFICES ASSUME NEW x \in S PROVE IsFiniteSet({x} \X (1..amount[x]))  OBVIOUS
  <2>1. QED  BY CentsOfRow
<1>4. IsFiniteSet(UNION rows)
  <2> HIDE DEF rows
  <2>1. QED  BY <1>2, <1>3, FS_UNION
<1>5. CentsOf(S, amount) = UNION rows  BY DEF CentsOf
<1>6. QED  BY <1>4, <1>5, FS_CardinalityType DEF Sum

\* Fewer rows of the same amounts add up to no more.
LEMMA SumFewer ==
    ASSUME NEW T, IsFiniteSet(T), NEW S \in SUBSET T, NEW f, NEW g,
           \A x \in T : g[x] \in Nat, \A x \in S : f[x] = g[x]
    PROVE  Sum(S, f) \in Nat /\ Sum(T, g) \in Nat /\ Sum(S, f) <= Sum(T, g)
<1>1. IsFiniteSet(S)  BY FS_Subset
<1>2. Sum(S, f) \in Nat /\ IsFiniteSet(CentsOf(T, g)) /\ Sum(T, g) \in Nat  BY <1>1, SumType
<1>3. CentsOf(S, f) \subseteq CentsOf(T, g)  BY DEF CentsOf
<1>4. QED  BY <1>2, <1>3, FS_Subset DEF Sum

\* One more row adds its amount.
LEMMA SumOneMore ==
    ASSUME NEW S, IsFiniteSet(S), NEW x, NEW f, NEW g, g[x] \in Nat,
           \A y \in S : f[y] \in Nat, NEW T \in SUBSET (S \cup {x}), \A y \in T \ {x} : f[y] = g[y]
    PROVE  Sum(S, f) \in Nat /\ Sum(T, g) \in Nat /\ (x \notin S => Sum(T, g) <= Sum(S, f) + g[x])
<1>1. IsFiniteSet(S \cup {x}) /\ IsFiniteSet(T)
  <2>1. IsFiniteSet({x})  BY FS_Singleton
  <2>2. IsFiniteSet(S \cup {x})  BY <2>1, FS_Union
  <2>3. QED  BY <2>2, FS_Subset
<1>2. Sum(S, f) \in Nat /\ IsFiniteSet(CentsOf(S, f))  BY SumType
<1>3. \A y \in T : g[y] \in Nat  OBVIOUS
<1>4. Sum(T, g) \in Nat /\ IsFiniteSet(CentsOf(T, g))  BY <1>1, <1>3, SumType
<1>5. ASSUME x \notin S PROVE Sum(T, g) <= Sum(S, f) + g[x]
  <2> DEFINE old == CentsOf(S, f)
             new == {x} \X (1..g[x])
  <2>1. IsFiniteSet(new) /\ Cardinality(new) = g[x]  BY CentsOfRow
  <2>2. CentsOf(T, g) \subseteq old \cup new  BY <1>5 DEF CentsOf
  <2>3. old \cap new = {}  BY <1>5 DEF CentsOf
  <2>4. IsFiniteSet(old) /\ Cardinality(old) = Sum(S, f) /\ Cardinality(CentsOf(T, g)) = Sum(T, g)  BY <1>2 DEF Sum
  <2> HIDE DEF old, new
  <2>5. IsFiniteSet(old \cup new) /\ Cardinality(old \cup new) = Sum(S, f) + g[x] - Cardinality(old \cap new)
    BY <2>1, <2>4, FS_Union
  <2>6. Cardinality(old \cap new) = 0  BY <2>3, FS_EmptySet
  <2>7. Cardinality(CentsOf(T, g)) <= Cardinality(old \cup new)  BY <2>2, <2>5, FS_Subset
  <2>8. QED  BY <1>2, <2>4, <2>5, <2>6, <2>7
<1>6. QED  BY <1>2, <1>4, <1>5

-----------------------------------------------------------------------------
(* Rows, requests and their locks.                                          *)

LEMMA NoneIsNothing ==
    ASSUME RecordsAssumption
    PROVE  None \notin Rows /\ None \notin Data /\ Ids \subseteq Nat \ {0} /\ IsFiniteSet(Ids)
<1>1. IsFiniteSet(1..MaxRows)  BY FS_Interval DEF RecordsAssumption
<1>2. QED  BY <1>1 DEF RecordsAssumption, Ids

\* A set of ids that is not empty has a lowest one.
LEMMA MinExists ==
    ASSUME NEW S \in SUBSET Nat, S # {}
    PROVE  Min(S) \in S
<1> DEFINE R == {ss \in Nat \X Nat : ss[1] < ss[2]}
<1>1. IsWellFoundedOn(R, Nat)  BY NatLessThanWellFounded DEF OpToRel
<1>2. PICK x \in S : \A y \in S : <<y, x>> \notin R  BY <1>1, WFMin
<1>3. ASSUME NEW y \in S PROVE x <= y
  <2>1. y \in Nat /\ x \in Nat /\ <<y, x>> \in Nat \X Nat  OBVIOUS
  <2>2. ~(y < x)  BY <1>2, <2>1
  <2>3. QED  BY <2>1, <2>2
<1>4. QED  BY <1>3 DEF Min

LEMMA Locks ==
    \A s : /\ Strong(s) = StrongOf(work[s]) /\ NoKey(s) = NoKeyOf(work[s])
           /\ KeyShare(s) = KeyShareOf(work[s]) /\ Written(s) = WrittenOf(work[s])
BY DEF Strong, StrongOf, ItemOf, NoKey, NoKeyOf, KeyShare, KeyShareOf, Written, WrittenOf, At

LEMMA InsertedRow ==
    ASSUME NEW data \in Data
    PROVE  /\ Inserted(data) \in Rows
           /\ Inserted(data).kind = data.kind /\ Inserted(data).origin = "staff" /\ Inserted(data).version = 1
           /\ Inserted(data).item = data.item /\ Inserted(data).amount = data.amount
           /\ Inserted(data).order = data.order
BY DEF Inserted, Data, Rows, Origins

LEMMA UpdatedRow ==
    ASSUME NEW data \in Data, NEW old \in Rows
    PROVE  /\ Updated(old, data) \in Rows
           /\ Updated(old, data).kind = old.kind /\ Updated(old, data).origin = old.origin
           /\ Updated(old, data).version = old.version + 1
           /\ Updated(old, data).item = data.item /\ Updated(old, data).amount = data.amount
           /\ Updated(old, data).order = data.order
<1>1. /\ data.product \in Nat /\ data.order \in Nat /\ data.item \in Nat
      /\ data.session \in Nat /\ data.amount \in Nat
  BY DEF Data
<1>2. PICK w : w = With(old, data)  OBVIOUS
<1>3. w \in Rows  BY <1>1, <1>2 DEF With, Rows
<1>4. /\ w.kind = old.kind /\ w.origin = old.origin /\ w.version = old.version
      /\ w.item = data.item /\ w.amount = data.amount /\ w.order = data.order
  BY <1>2 DEF With, Rows
<1>5. w.version \in Nat \ {0} /\ w.version + 1 \in Nat \ {0}  BY <1>3 DEF Rows
<1>6. PICK u : u = [w EXCEPT !.version = @ + 1]  OBVIOUS
<1>7. u \in Rows /\ u.version = w.version + 1
  BY <1>3, <1>5, <1>6 DEF Rows
<1>8. u.kind = w.kind /\ u.origin = w.origin /\ u.item = w.item /\ u.amount = w.amount /\ u.order = w.order
  BY <1>3, <1>6 DEF Rows
<1>9. u = Updated(old, data)  BY <1>2, <1>6 DEF Updated
<1>10. QED  BY <1>4, <1>7, <1>8, <1>9

LEMMA DeletedRow ==
    ASSUME NEW old \in Rows
    PROVE  /\ [old EXCEPT !.kind = "none"] \in Rows
           /\ [old EXCEPT !.kind = "none"].kind = "none" /\ [old EXCEPT !.kind = "none"].origin = old.origin
           /\ [old EXCEPT !.kind = "none"].version = old.version
BY DEF Rows

LEMMA IdleIsGood ==
    ASSUME RecordsAssumption
    PROVE  /\ Idle \in Work /\ GoodWork(Idle)
           /\ StrongOf(Idle) = {} /\ NoKeyOf(Idle) = {} /\ KeyShareOf(Idle) = {} /\ WrittenOf(Idle) = {}
           /\ \A w : Apart(Idle, w) /\ Apart(w, Idle)
<1>1. /\ Idle.op = "idle" /\ Idle.step = "none" /\ Idle.id = 0 /\ Idle.data = None  BY DEF Idle
<1>2. Idle \in Work  BY DEF Idle, Work
<1>3. GoodWork(Idle)  BY <1>1 DEF GoodWork, Shape, OldOK
<1>4. StrongOf(Idle) = {} /\ NoKeyOf(Idle) = {} /\ KeyShareOf(Idle) = {} /\ WrittenOf(Idle) = {}
  BY <1>1 DEF StrongOf, ItemOf, NoKeyOf, KeyShareOf, WrittenOf
<1>5. \A w : Apart(Idle, w) /\ Apart(w, Idle)  BY <1>1, <1>4 DEF Apart
<1>6. QED  BY <1>2, <1>3, <1>4, <1>5
LEMMA InitHolds ==
    ASSUME RecordsAssumption, Init
    PROVE  IInv
<1>1. /\ \A i \in DOMAIN Base : i \in Ids /\ records[i] = Base[i] /\ Base[i] \in Rows
      /\ \A i \in Ids \ DOMAIN Base : records[i] = None
      /\ records \in [Ids -> Rows \cup {None}]
  BY DEF Init, RecordsAssumption
<1>2. None \notin Rows /\ 0 \notin Ids  BY NoneIsNothing
<1>3. \A i : There(i) <=> i \in DOMAIN Base  BY <1>1, <1>2 DEF There, RecordsAssumption
<1>4. Types
  BY <1>1, IdleIsGood DEF Types, Init
<1>5. \A s \in Sessions : work[s] = Idle  BY DEF Init
<1>6. (\A s \in Sessions : GoodWork(work[s])) /\ AllApart
  BY <1>5, IdleIsGood DEF AllApart
<1>7. TypeOK
  <2>1. ASSUME NEW i \in Ids, There(i)
        PROVE  /\ records[i].kind \in Kinds /\ records[i].origin \in Origins
               /\ \A k \in Refs(records[i]) : There(k)
               /\ records[i].kind = "order_items" => records[records[i].order].origin = records[i].origin
    <3>1. i \in DOMAIN Base /\ records[i] = Base[i] /\ records[i] \in Rows  BY <1>1, <1>3, <2>1
    <3>2. records[i].kind \in Kinds /\ records[i].origin \in Origins
      BY <3>1 DEF RecordsAssumption, Rows
    <3>3. \A k \in Refs(records[i]) : There(k)  BY <1>3, <3>1 DEF RecordsAssumption, Refs
    <3>4. records[i].kind = "order_items" => records[records[i].order].origin = records[i].origin
      BY <1>1, <3>1 DEF RecordsAssumption
    <3>5. QED  BY <3>2, <3>3, <3>4
  <2>2. ASSUME NEW i \in Ids, NEW j \in Ids, i # j, Is(i, "orders"), Is(j, "orders"), records[i].session # 0
        PROVE  records[i].session # records[j].session
    BY <1>1, <1>3, <2>2 DEF RecordsAssumption, Is
  <2>3. QED  BY <2>1, <2>2 DEF TypeOK
<1>8. Items
  BY <1>1, <1>3 DEF RecordsAssumption, Is, Items
<1>9. AuditComplete
  <2>1. {i \in Ids \ DOMAIN Base : records[i] # None} = {}  BY <1>1
  <2>2. audited.created = Cardinality({i \in Ids \ DOMAIN Base : records[i] # None})
    BY <2>1, FS_EmptySet DEF Init
  <2>3. ASSUME NEW i \in Ids, records[i] # None
        PROVE  audited.changed[i] = records[i].version - 1 + (IF There(i) THEN 0 ELSE 1)
    <3>1. i \in DOMAIN Base /\ records[i].version = 1 /\ audited.changed[i] = 0
      BY <1>1, <2>3 DEF RecordsAssumption, Init
    <3>2. QED  BY <1>3, <3>1
  <2>4. QED  BY <1>1, <2>2, <2>3 DEF AuditComplete
<1>10. Unlogged  BY <1>1, <1>2 DEF Unlogged, Init
<1>11. QED  BY <1>4, <1>6, <1>7, <1>8, <1>9, <1>10 DEF IInv

-----------------------------------------------------------------------------
(* Steps of one request that write nothing yet.                             *)

LEMMA SameRows ==
    ASSUME records' = records, NEW w, NEW v
    PROVE  (GoodWork(w)' <=> GoodWork(w)) /\ (Apart(v, w)' <=> Apart(v, w))
<1>1. GoodWork(w)' <=> GoodWork(w)
  BY DEF GoodWork, Shape, OldOK, RefundOK, ItemOK, WriteOK, CreateOK, SeenOK, UpdateOK, DeleteOK, RefsOK, VisitOK,
         Is, There, StaffRow, Refunded, RefundsOf, Children, NewRefs, VisitFree
<1>2. Apart(v, w)' <=> Apart(v, w)
  BY DEF Apart, StrongOf, ItemOf, NoKeyOf, KeyShareOf, WrittenOf, NewRefs
<1>3. QED  BY <1>1, <1>2

LEMMA RequestStep ==
    ASSUME IInv, NEW s \in Sessions, NEW w \in Work,
           UNCHANGED <<records, audited>>, work' = [work EXCEPT ![s] = w],
           GoodWork(w), \A r \in Others(s) : Apart(w, work[r]) /\ Apart(work[r], w)
    PROVE  IInv'
<1>1. work \in [Sessions -> Work]  BY DEF IInv, Types
<1>2. work'[s] = w /\ \A r \in Others(s) : work'[r] = work[r]  BY <1>1 DEF Others
<1>3. Types'  BY <1>1 DEF IInv, Types
<1>4. ASSUME NEW r \in Sessions PROVE GoodWork(work[r])'
  <2>1. PICK v : v = work'[r]  OBVIOUS
  <2>2. GoodWork(v)  BY <1>2, <2>1 DEF IInv, Others
  <2>3. GoodWork(v)'  BY <2>2, SameRows
  <2>4. QED  BY <2>1, <2>3
<1>5. AllApart'
  <2>1. ASSUME NEW r \in Sessions, NEW q \in Sessions, r # q PROVE Apart(work[r], work[q])'
    <3>1. PICK v : v = work'[r]  OBVIOUS
    <3>2. PICK u : u = work'[q]  OBVIOUS
    <3>3. Apart(v, u)
      <4>1. CASE r = s  BY <1>2, <2>1, <3>1, <3>2, <4>1 DEF Others
      <4>2. CASE q = s  BY <1>2, <2>1, <3>1, <3>2, <4>2 DEF Others
      <4>3. CASE r # s /\ q # s  BY <1>2, <2>1, <3>1, <3>2, <4>3 DEF IInv, AllApart, Others
      <4>4. QED  BY <4>1, <4>2, <4>3
    <3>4. Apart(v, u)'  BY <3>3, SameRows
    <3>5. QED  BY <3>1, <3>2, <3>4
  <2>2. QED  BY <2>1 DEF AllApart
<1>6. (TypeOK /\ Items)'  BY DEF IInv, TypeOK, Items, Is, There
<1>7. (AuditComplete /\ Unlogged)'  BY DEF IInv, AuditComplete, Unlogged, There
<1>8. QED  BY <1>3, <1>4, <1>5, <1>6, <1>7 DEF IInv

LEMMA FailStep ==
    ASSUME RecordsAssumption, IInv, NEW s \in Sessions, Fail(s)
    PROVE  IInv'
BY IdleIsGood, RequestStep DEF Fail
\* A request that has written nothing and holds no refund's item has no locks.
LEMMA NoLocks ==
    ASSUME NEW w, w.step \in {"read", "validate"} \/ (w.step = "write" /\ w.data = None)
    PROVE  \A v : Apart(w, v) /\ Apart(v, w)
<1>1. ItemOf(w) = {} /\ WrittenOf(w) = {}  BY DEF ItemOf, WrittenOf
<1>2. StrongOf(w) = {} /\ NoKeyOf(w) = {} /\ KeyShareOf(w) = {}
  BY <1>1 DEF StrongOf, NoKeyOf, KeyShareOf
<1>3. QED  BY <1>1, <1>2 DEF Apart

LEMMA SubmitStep ==
    ASSUME RecordsAssumption, IInv, NEW s \in Sessions, Submit(s)
    PROVE  IInv'
<1>1. ASSUME NEW data \in Inputs, BeginCreate(s, data) PROVE IInv'
  <2> DEFINE w == [Idle EXCEPT !.op = "create", !.step = "validate", !.data = data]
  <2>1. data \in Data  BY DEF RecordsAssumption
  <2>2. w \in Work /\ w.op = "create" /\ w.step = "validate" /\ w.id = 0 /\ w.data = data
    BY <2>1 DEF Idle, Work
  <2>3. GoodWork(w)  BY <2>1, <2>2 DEF GoodWork, Shape, OldOK
  <2>4. work' = [work EXCEPT ![s] = w] /\ UNCHANGED <<records, audited>>  BY <1>1 DEF BeginCreate
  <2> HIDE DEF w
  <2>5. QED  BY <2>2, <2>3, <2>4, NoLocks, RequestStep
<1>2. ASSUME NEW i \in Ids, NEW v \in 1 .. MaxVersion, BeginDelete(s, i, v) PROVE IInv'
  <2> DEFINE w == [Idle EXCEPT !.op = "delete", !.step = "read", !.id = i, !.version = v]
  <2>1. i \in Nat /\ v \in Nat /\ records[i] # None  BY <1>2, NoneIsNothing DEF RecordsAssumption, BeginDelete, There
  <2>2. w \in Work /\ w.op = "delete" /\ w.step = "read" /\ w.id = i /\ w.data = None
    BY <2>1 DEF Idle, Work
  <2>3. GoodWork(w)  BY <2>1, <2>2 DEF GoodWork, Shape, OldOK
  <2>4. work' = [work EXCEPT ![s] = w] /\ UNCHANGED <<records, audited>>  BY <1>2 DEF BeginDelete
  <2> HIDE DEF w
  <2>5. QED  BY <2>2, <2>3, <2>4, NoLocks, RequestStep
<1>3. ASSUME NEW i \in Ids, NEW v \in 1 .. MaxVersion, NEW data \in Inputs, BeginUpdate(s, i, data, v) PROVE IInv'
  <2> DEFINE w == [op |-> "update", step |-> "read", id |-> i, version |-> v, data |-> data, row |-> None]
  <2>1. i \in Nat /\ v \in Nat /\ data \in Data /\ records[i] # None /\ data.kind = records[i].kind
    BY <1>3, NoneIsNothing DEF RecordsAssumption, BeginUpdate, There
  <2>2. w \in Work /\ w.op = "update" /\ w.step = "read" /\ w.id = i /\ w.data = data
    BY <2>1 DEF Work
  <2>3. GoodWork(w)  BY <2>1, <2>2 DEF GoodWork, Shape, OldOK
  <2>4. work' = [work EXCEPT ![s] = w] /\ UNCHANGED <<records, audited>>  BY <1>3 DEF BeginUpdate
  <2> HIDE DEF w
  <2>5. QED  BY <2>2, <2>3, <2>4, NoLocks, RequestStep
<1>4. QED  BY <1>1, <1>2, <1>3 DEF Submit

\* A request that goes on to its next statement keeps what it is about.
LEMMA NextStatement ==
    ASSUME IInv, NEW s \in Sessions, NEW w, w = work[s], w.op # "idle",
           NEW step \in {"read", "validate", "write", "commit"}, NEW v, v = [w EXCEPT !.step = step]
    PROVE  /\ w \in Work /\ v \in Work /\ GoodWork(w) /\ v.step = step /\ v.op = w.op /\ v.id = w.id
           /\ v.data = w.data /\ v.version = w.version /\ OldOK(v)
           /\ (RefundOK(v) <=> RefundOK(w)) /\ (ItemOK(v) <=> ItemOK(w))
<1>1. w \in Work /\ GoodWork(w)  BY DEF IInv, Types
<1>2. v \in Work /\ v.step = step /\ v.op = w.op /\ v.id = w.id /\ v.data = w.data /\ v.version = w.version
  BY <1>1 DEF Work
<1>3. OldOK(v) /\ (RefundOK(v) <=> RefundOK(w)) /\ (ItemOK(v) <=> ItemOK(w))
  BY <1>1, <1>2 DEF GoodWork, OldOK, RefundOK, ItemOK
<1>4. QED  BY <1>1, <1>2, <1>3

LEMMA EnsureStep ==
    ASSUME RecordsAssumption, IInv, NEW s \in Sessions, EnsureMutableVersion(s)
    PROVE  IInv'
<1>1. PICK w : w = work[s]  OBVIOUS
<1>2. w.step = "read" /\ w.op # "idle"
  BY <1>1 DEF EnsureMutableVersion, At, IInv, GoodWork, Shape, Idle
<1>3. CASE Fail(s)  BY <1>3, FailStep
<1>4. ASSUME Goto(s, IF w.op = "delete" THEN "write" ELSE "validate") PROVE IInv'
  <2>1. PICK step : step = IF w.op = "delete" THEN "write" ELSE "validate"  OBVIOUS
  <2>2. PICK v : v = [w EXCEPT !.step = step]  OBVIOUS
  <2>3. step \in {"read", "validate", "write", "commit"}  BY <2>1
  <2>4. /\ w \in Work /\ v \in Work /\ GoodWork(w) /\ v.step = step /\ v.op = w.op /\ v.id = w.id
        /\ v.data = w.data /\ OldOK(v)
    BY <1>1, <1>2, <2>2, <2>3, NextStatement
  <2>5. GoodWork(v) /\ (v.step = "validate" \/ (v.step = "write" /\ v.data = None))
    BY <1>2, <2>1, <2>4 DEF GoodWork, Shape, Work
  <2>6. work' = [work EXCEPT ![s] = v] /\ UNCHANGED <<records, audited>>
    BY <1>1, <1>4, <2>1, <2>2, <2>4 DEF Goto, IInv, Types
  <2>7. \A u : Apart(v, u) /\ Apart(u, v)  BY <2>5, NoLocks
  <2>8. QED  BY <2>4, <2>5, <2>6, <2>7, RequestStep
<1>5. QED  BY <1>1, <1>3, <1>4 DEF EnsureMutableVersion

LEMMA ValidateStep ==
    ASSUME RecordsAssumption, IInv, NEW s \in Sessions, Validate(s)
    PROVE  IInv'
<1>1. PICK w : w = work[s]  OBVIOUS
<1>2. w.step = "validate" /\ w.op # "idle"
  BY <1>1 DEF Validate, At, IInv, GoodWork, Shape, Idle
<1>3. CASE Fail(s)  BY <1>3, FailStep
<1>4. ASSUME Valid(w), Goto(s, "write") PROVE IInv'
  <2>1. PICK v : v = [w EXCEPT !.step = "write"]  OBVIOUS
  <2>2. /\ w \in Work /\ v \in Work /\ GoodWork(w) /\ v.step = "write" /\ v.op = w.op /\ v.id = w.id
        /\ v.data = w.data /\ OldOK(v)
        /\ (RefundOK(v) <=> RefundOK(w)) /\ (ItemOK(v) <=> ItemOK(w))
    BY <1>1, <1>2, <2>1, NextStatement
  <2>3. w.op \in {"create", "update"} /\ w.data \in Data  BY <1>2, <2>2 DEF GoodWork, Shape, Work
  <2>4. RefundOK(w)  BY <1>4 DEF Valid, RefundOK
  <2>5. ItemOK(w)  BY <1>4 DEF Valid, ItemOK, Is, StaffRow, There
  <2>6. GoodWork(v)
    <3>1. Shape(v)  BY <1>2, <2>2, <2>3 DEF GoodWork, Shape
    <3>2. RefundOK(v) /\ ItemOK(v)  BY <2>2, <2>4, <2>5
    <3>3. QED  BY ONLY <2>2, <3>1, <3>2 DEF GoodWork
  <2>7. work' = [work EXCEPT ![s] = v] /\ UNCHANGED <<records, audited>>
    BY <1>1, <1>4, <2>1, <2>2 DEF Goto, IInv, Types
  <2>8. ASSUME NEW r \in Others(s) PROVE Apart(v, work[r]) /\ Apart(work[r], v)
    <3>1. WrittenOf(v) = {} /\ NoKeyOf(v) = {} /\ KeyShareOf(v) = {} /\ StrongOf(v) = ItemOf(v)
      BY <2>2 DEF WrittenOf, NoKeyOf, KeyShareOf, StrongOf
    <3>2. ItemOf(v) = IF w.data.item # 0 THEN {w.data.item} ELSE {}
      BY <2>2, <2>3, NoneIsNothing DEF ItemOf
    <3>3. w.data.item # 0 => {w.data.item} \cap (Strong(r) \cup NoKey(r) \cup KeyShare(r)) = {}
      BY <1>1 DEF Validate, FreeForUpdate
    <3>4. w.data.item # 0 => {w.data.item} \cap (StrongOf(work[r]) \cup NoKeyOf(work[r]) \cup KeyShareOf(work[r])) = {}
      BY <3>3, Locks
    <3>5. QED  BY <2>2, <3>1, <3>2, <3>4 DEF Apart
  <2>9. QED  BY <2>2, <2>6, <2>7, <2>8, RequestStep
<1>5. QED  BY <1>1, <1>3, <1>4 DEF Validate
-----------------------------------------------------------------------------
(* The INSERT, the UPDATE and the DELETE.                                   *)

\* What the statement has waited for: nobody else's lock excludes its own.
Waited(v, u) ==
    /\ v.id \notin WrittenOf(u)
    /\ v.op = "update" => v.id \notin StrongOf(u)
    /\ v.op = "delete" \/ (v.op = "update" /\ KeyChanges(records[v.id], v.row))
         => v.id \notin StrongOf(u) \cup NoKeyOf(u) \cup KeyShareOf(u)
    /\ v.op # "delete" => StrongOf(u) \cap NewRefs(v) = {}
    /\ u.step = "commit" /\ v.row.kind = "orders" /\ u.row.kind = "orders" => v.row.session # u.row.session

LEMMA WaitedIsApart ==
    ASSUME NEW v, v.step = "commit", NEW w, w.step = "write", v.op = w.op, v.data = w.data, NEW u,
           v.op \in {"create", "update", "delete"}, Waited(v, u), Apart(w, u), Apart(u, w)
    PROVE  Apart(v, u) /\ Apart(u, v)
<1>1. WrittenOf(w) = {} /\ NoKeyOf(w) = {} /\ KeyShareOf(w) = {} /\ ItemOf(v) = ItemOf(w) /\ StrongOf(w) = ItemOf(w)
  BY DEF WrittenOf, NoKeyOf, KeyShareOf, StrongOf, ItemOf
<1>2. /\ WrittenOf(v) = {v.id}
      /\ NoKeyOf(v) = {i \in {v.id} : v.op = "update"}
      /\ KeyShareOf(v) = IF v.op # "delete" THEN NewRefs(v) ELSE {}
      /\ StrongOf(v) = ItemOf(w) \cup {i \in {v.id} : v.op # "create" /\ (v.op = "delete" \/ KeyChanges(records[i], v.row))}
  BY <1>1 DEF WrittenOf, NoKeyOf, KeyShareOf, StrongOf
<1>3. /\ ItemOf(w) \cap (StrongOf(u) \cup NoKeyOf(u) \cup KeyShareOf(u)) = {}
      /\ StrongOf(u) \cap ItemOf(w) = {}
  BY <1>1 DEF Apart
<1>4. StrongOf(v) \cap (StrongOf(u) \cup NoKeyOf(u) \cup KeyShareOf(u)) = {}
  BY <1>2, <1>3 DEF Waited
<1>5. StrongOf(u) \cap NoKeyOf(v) = {}  BY <1>2 DEF Waited
<1>6. StrongOf(u) \cap KeyShareOf(v) = {}  BY <1>2 DEF Waited
<1>7. WrittenOf(v) \cap WrittenOf(u) = {}  BY <1>2 DEF Waited
<1>8. u.step = "commit" /\ v.row.kind = "orders" /\ u.row.kind = "orders" => v.row.session # u.row.session
  BY DEF Waited
<1>9. QED  BY ONLY <1>4, <1>5, <1>6, <1>7, <1>8 DEF Apart

LEMMA WriteStep ==
    ASSUME RecordsAssumption, IInv, NEW s \in Sessions, NEW w, w = work[s], w.step = "write",
           w.op \in {"create", "update", "delete"},
           NEW i \in Ids, NEW row \in Rows, Write(s, i, row), w.op # "create" => i = w.id,
           NEW v, v = [w EXCEPT !.step = "commit", !.id = i, !.row = row],
           WriteOK(v), w.data # None => RefundOK(v), \A r \in Others(s) : Waited(v, work[r])
    PROVE  IInv'
<1>1. w \in Work /\ GoodWork(w) /\ work \in [Sessions -> Work]  BY DEF IInv, Types
<1>2. i \in Nat  BY NoneIsNothing
<1>3. /\ v \in Work /\ v.step = "commit" /\ v.id = i /\ v.row = row
      /\ v.op = w.op /\ v.data = w.data /\ v.version = w.version
  BY <1>1, <1>2 DEF Work
<1>4. Shape(v)  BY <1>1, <1>3 DEF GoodWork, Shape
<1>5. OldOK(v)  BY <1>1, <1>3 DEF GoodWork, OldOK
<1>6. w.data # None => ItemOK(v)  BY <1>1, <1>3 DEF GoodWork, ItemOK
<1>7. GoodWork(v)  BY ONLY <1>3, <1>4, <1>5, <1>6, WriteOK(v), w.data # None => RefundOK(v) DEF GoodWork
<1>8. work' = [work EXCEPT ![s] = v] /\ UNCHANGED <<records, audited>>
  BY <1>1 DEF Write
<1>9. ASSUME NEW r \in Others(s) PROVE Apart(v, work[r]) /\ Apart(work[r], v)
  <2>1. Apart(w, work[r]) /\ Apart(work[r], w)  BY DEF Others, IInv, AllApart
  <2>2. PICK u : u = work[r]  OBVIOUS
  <2>3. Waited(v, u) /\ v.op \in {"create", "update", "delete"}  BY <1>3, <2>2
  <2>4. Apart(v, u) /\ Apart(u, v)  BY ONLY <1>3, w.step = "write", <2>1, <2>2, <2>3, WaitedIsApart
  <2>5. QED  BY <2>2, <2>4
<1>10. QED  BY <1>3, <1>7, <1>8, <1>9, RequestStep

LEMMA InsertStep ==
    ASSUME RecordsAssumption, IInv, NEW s \in Sessions, Insert(s)
    PROVE  IInv'
<1>1. PICK w : w = work[s]  OBVIOUS
<1>2. w.step = "write" /\ w.op = "create" /\ Unused # {}  BY <1>1 DEF Insert, At
<1>3. w \in Work /\ GoodWork(w) /\ w.data \in Data /\ w.id = 0  BY <1>1, <1>2 DEF IInv, Types, GoodWork, Shape
<1>4. PICK i : i = Min(Unused)  OBVIOUS
<1>5. i \in Unused  BY <1>2, <1>4, NoneIsNothing, MinExists DEF Unused
<1>6. PICK row : row = Inserted(w.data)  OBVIOUS
<1>7. row \in Rows /\ row.kind = w.data.kind /\ row.item = w.data.item
  BY <1>3, <1>6 DEF Inserted, Data, Rows, Origins
<1>8. /\ row.kind = "orders" => SameVisit(s, row) = {}
      /\ FreeForShare(s, Refs(row))
      /\ \/ /\ (row.kind = "orders" => VisitFree(i, row)) /\ (\A k \in Refs(row) : There(k)) /\ KeysExist(w, row)
            /\ Write(s, i, row)
         \/ Fail(s)
  BY <1>1, <1>4, <1>6 DEF Insert, Inserted
<1>9. ASSUME row.kind = "orders" => VisitFree(i, row), \A k \in Refs(row) : There(k), Write(s, i, row)
      PROVE IInv'
  <2>1. PICK v : v = [w EXCEPT !.step = "commit", !.id = i, !.row = row]  OBVIOUS
  <2>2. v.step = "commit" /\ v.id = i /\ v.row = row /\ v.op = "create" /\ v.data = w.data
    BY <1>2, <1>3, <2>1 DEF Work
  <2>3. i \in Ids /\ records[i] = None /\ \A r \in Sessions : i \notin WrittenOf(work[r])
    BY <1>5, Locks DEF Unused
  <2>4. NewRefs(v) = Refs(row)  BY <2>2 DEF NewRefs
  <2>5. WriteOK(v)
    BY <1>6, <1>7, <1>9, <2>2, <2>3, <2>4 DEF WriteOK, CreateOK, SeenOK, UpdateOK, DeleteOK, RefsOK, VisitOK
  <2>6. RefundOK(v)
    <3>1. RefundOK(w)  BY <1>2, <1>3, NoneIsNothing DEF GoodWork
    <3>2. RefundsOf(w.data.item, i) = RefundsOf(w.data.item, 0)
      BY <2>3, NoneIsNothing DEF RefundsOf, Is, There
    <3>3. Refunded(w.data.item, i) = Refunded(w.data.item, 0)  BY <3>2 DEF Refunded
    <3>4. QED  BY <1>3, <2>2, <3>1, <3>3 DEF RefundOK
  <2>7. ASSUME NEW r \in Others(s) PROVE Waited(v, work[r])
    <3>1. i \notin WrittenOf(work[r])  BY <2>3 DEF Others
    <3>2. StrongOf(work[r]) \cap NewRefs(v) = {}  BY <1>8, <2>4, Locks DEF FreeForShare
    <3>3. work[r].step = "commit" /\ row.kind = "orders" /\ work[r].row.kind = "orders"
            => row.session # work[r].row.session
      BY <1>8 DEF SameVisit, At
    <3>4. QED  BY <2>2, <3>1, <3>2, <3>3 DEF Waited
  <2>8. QED  BY <1>1, <1>2, <1>7, <1>9, <2>1, <2>3, <2>5, <2>6, <2>7, WriteStep
<1>10. QED  BY <1>8, <1>9, FailStep

LEMMA UpdateStep ==
    ASSUME RecordsAssumption, IInv, NEW s \in Sessions, Update(s)
    PROVE  IInv'
<1>1. PICK w : w = work[s]  OBVIOUS
<1>2. w.step = "write" /\ w.op = "update"  BY <1>1 DEF Update, At
<1>3. w \in Work /\ GoodWork(w) /\ w.data \in Data /\ w.id \in Ids /\ records[w.id] # None
      /\ records[w.id].kind \in {w.data.kind, "none"}
  BY <1>1, <1>2 DEF IInv, Types, GoodWork, Shape, OldOK
<1>4. PICK i : i = w.id  OBVIOUS
<1>5. PICK old : old = records[i]  OBVIOUS
<1>6. PICK row : row = Updated(old, w.data)  OBVIOUS
<1>7. old \in Rows  BY <1>3, <1>4, <1>5 DEF IInv, Types
<1>8. row \in Rows /\ row.kind = old.kind  BY <1>3, <1>6, <1>7, UpdatedRow
<1>9. PICK v : v = [w EXCEPT !.step = "commit", !.id = i, !.row = row]  OBVIOUS
<1>10. v.step = "commit" /\ v.id = i /\ v.row = row /\ v.op = "update" /\ v.data = w.data /\ v.version = w.version
  BY <1>2, <1>3, <1>9 DEF Work
<1>11. NewRefs([w EXCEPT !.row = row]) = NewRefs(v)
  BY <1>2, <1>3, <1>4, <1>10 DEF NewRefs, Work
<1>12. /\ IF KeyChanges(old, row) THEN FreeForUpdate(s, {i}) ELSE FreeForNoKey(s, {i})
       /\ row.kind = "orders" => SameVisit(s, row) = {}
       /\ FreeForShare(s, NewRefs(v))
       /\ \/ /\ StaffRow(i) /\ old.version = w.version /\ KeysExist(w, row)
             /\ row.kind = "orders" => VisitFree(i, row)
             /\ Write(s, i, row)
          \/ Fail(s)
  BY <1>1, <1>4, <1>5, <1>6, <1>11 DEF Update, Updated
<1>13. ASSUME StaffRow(i), old.version = w.version, KeysExist(w, row), row.kind = "orders" => VisitFree(i, row),
              Write(s, i, row)
       PROVE IInv'
  <2>1. \A k \in NewRefs(v) : There(k)  BY <1>11, <1>13 DEF KeysExist
  <2>2. WriteOK(v)
    BY <1>3, <1>4, <1>5, <1>6, <1>8, <1>10, <1>13, <2>1
       DEF WriteOK, CreateOK, SeenOK, UpdateOK, DeleteOK, RefsOK, VisitOK
  <2>3. RefundOK(v)
    <3>1. RefundOK(w)  BY <1>2, <1>3, NoneIsNothing DEF GoodWork
    <3>2. QED  BY <1>4, <1>10, <3>1 DEF RefundOK
  <2>4. ASSUME NEW r \in Others(s) PROVE Waited(v, work[r])
    <3>1. i \notin StrongOf(work[r]) /\ i \notin NoKeyOf(work[r])
      BY <1>12, Locks DEF FreeForUpdate, FreeForNoKey
    <3>2. KeyChanges(old, row) => i \notin KeyShareOf(work[r])
      BY <1>12, Locks DEF FreeForUpdate
    <3>3. i \notin WrittenOf(work[r])
      <4>1. PICK u : u = work[r]  OBVIOUS
      <4>2. u.step = "commit" => WriteOK(u) /\ u.op \in {"create", "update", "delete"}
        BY <4>1 DEF Others, IInv, GoodWork, Shape, Types, Work, Idle
      <4>3. u.step = "commit" /\ u.op = "create" => records[u.id] = None  BY <4>2 DEF WriteOK, CreateOK
      <4>4. QED  BY <1>3, <1>4, <3>1, <4>1, <4>2, <4>3 DEF WrittenOf, StrongOf, NoKeyOf
    <3>4. StrongOf(work[r]) \cap NewRefs(v) = {}  BY <1>12, Locks DEF FreeForShare
    <3>5. work[r].step = "commit" /\ row.kind = "orders" /\ work[r].row.kind = "orders"
            => row.session # work[r].row.session
      BY <1>12 DEF SameVisit, At
    <3>6. QED  BY <1>5, <1>10, <3>1, <3>2, <3>3, <3>4, <3>5 DEF Waited
  <2>5. QED  BY <1>1, <1>2, <1>3, <1>4, <1>8, <1>9, <1>13, <2>2, <2>3, <2>4, WriteStep
<1>14. QED  BY <1>12, <1>13, FailStep

LEMMA DeleteStep ==
    ASSUME RecordsAssumption, IInv, NEW s \in Sessions, Delete(s)
    PROVE  IInv'
<1>1. PICK w : w = work[s]  OBVIOUS
<1>2. w.step = "write" /\ w.op = "delete"  BY <1>1 DEF Delete, At
<1>3. w \in Work /\ GoodWork(w) /\ w.data = None /\ w.id \in Ids /\ records[w.id] # None
  BY <1>1, <1>2 DEF IInv, Types, GoodWork, Shape, OldOK
<1>4. PICK i : i = w.id  OBVIOUS
<1>5. PICK old : old = records[i]  OBVIOUS
<1>6. PICK row : row = [old EXCEPT !.kind = "none"]  OBVIOUS
<1>7. old \in Rows /\ row \in Rows /\ row.kind = "none"  BY <1>3, <1>4, <1>5, <1>6 DEF IInv, Types, Rows
<1>8. PICK v : v = [w EXCEPT !.step = "commit", !.id = i, !.row = row]  OBVIOUS
<1>9. v.step = "commit" /\ v.id = i /\ v.row = row /\ v.op = "delete" /\ v.data = w.data /\ v.version = w.version
  BY <1>2, <1>3, <1>8 DEF Work
<1>10. /\ FreeForUpdate(s, {i})
       /\ \/ StaffRow(i) /\ old.version = w.version /\ Children(i) = {} /\ Write(s, i, row)
          \/ Fail(s)
  BY <1>1, <1>4, <1>5, <1>6 DEF Delete
<1>11. ASSUME StaffRow(i), old.version = w.version, Children(i) = {}, Write(s, i, row)
       PROVE IInv'
  <2>1. WriteOK(v)
    BY <1>3, <1>4, <1>5, <1>6, <1>7, <1>9, <1>11
       DEF WriteOK, CreateOK, SeenOK, UpdateOK, DeleteOK, RefsOK, VisitOK
  <2>2. ASSUME NEW r \in Others(s) PROVE Waited(v, work[r])
    <3>1. i \notin StrongOf(work[r]) /\ i \notin NoKeyOf(work[r]) /\ i \notin KeyShareOf(work[r])
      BY <1>10, Locks DEF FreeForUpdate
    <3>2. i \notin WrittenOf(work[r])
      <4>1. PICK u : u = work[r]  OBVIOUS
      <4>2. u.step = "commit" => WriteOK(u) /\ u.op \in {"create", "update", "delete"}
        BY <4>1 DEF Others, IInv, GoodWork, Shape, Types, Work, Idle
      <4>3. u.step = "commit" /\ u.op = "create" => records[u.id] = None  BY <4>2 DEF WriteOK, CreateOK
      <4>4. QED  BY <1>3, <1>4, <3>1, <4>1, <4>2, <4>3 DEF WrittenOf, StrongOf, NoKeyOf
    <3>3. QED  BY <1>7, <1>9, <3>1, <3>2 DEF Waited
  <2>3. QED  BY <1>1, <1>2, <1>3, <1>4, <1>7, <1>8, <1>11, <2>1, <2>2, WriteStep
<1>12. QED  BY <1>10, <1>11, FailStep
-----------------------------------------------------------------------------
(* The commit.                                                              *)

\* The request w writes the row c.
Writes(w, c, row) ==
    /\ w \in Work /\ GoodWork(w) /\ w.step = "commit" /\ w.op \in {"create", "update", "delete"}
    /\ c = w.id /\ row = w.row /\ c \in Ids /\ row \in Rows /\ WriteOK(w)

LEMMA CommitWrites ==
    ASSUME IInv, NEW s \in Sessions, NEW w, w = work[s], w.step = "commit", NEW c, c = w.id, NEW row, row = w.row
    PROVE  Writes(w, c, row)
<1>1. w \in Work /\ GoodWork(w)  BY DEF IInv, Types
<1>2. w.op \in {"create", "update", "delete"}  BY <1>1 DEF Work, GoodWork, Shape, Idle
<1>3. WriteOK(w) /\ c \in Ids /\ row \in Rows  BY <1>1 DEF GoodWork, WriteOK
<1>4. QED  BY <1>1, <1>2, <1>3 DEF Writes

LEMMA WrittenRow ==
    ASSUME RecordsAssumption, Types, NEW w, NEW c, NEW row, Writes(w, c, row)
    PROVE  /\ w.op = "create" => records[c] = None /\ ~There(c) /\ row.version = 1
           /\ w.op # "create" => There(c) /\ records[c] \in Rows /\ records[c].origin = "staff"
           /\ row.origin = "staff"
           /\ w.op = "update" => row.kind = records[c].kind /\ row.version = records[c].version + 1
           /\ w.op = "delete" => row.kind = "none" /\ row.version = records[c].version /\ Children(c) = {}
           /\ w.op # "delete" => /\ w.data \in Data /\ row.kind = w.data.kind /\ row.kind \in Kinds /\ row.kind # "none"
                                 /\ row.item = w.data.item /\ row.order = w.data.order /\ row.amount = w.data.amount
<1>1. None \notin Rows  BY NoneIsNothing
<1>2. w.op \in {"create", "update", "delete"}  BY DEF Writes
<1>3. CASE w.op = "create"
  <2>1. records[c] = None /\ row = Inserted(w.data) /\ w.data \in Data
    BY <1>3 DEF Writes, WriteOK, CreateOK, GoodWork, Shape
  <2>2. PICK d \in Data : d = w.data  BY <2>1
  <2>3. d.kind \in Kinds /\ d.kind # "none"  BY DEF Data, Kinds
  <2>4. QED  BY <1>3, <2>1, <2>2, <2>3, InsertedRow DEF There
<1>4. CASE w.op = "update"
  <2>1. StaffRow(c) /\ row = Updated(records[c], w.data) /\ w.data \in Data /\ records[c].kind \in {w.data.kind, "none"}
    BY <1>4 DEF Writes, WriteOK, SeenOK, UpdateOK, GoodWork, Shape, OldOK
  <2>2. There(c) /\ records[c].origin = "staff" /\ records[c] \in Rows /\ records[c].kind = w.data.kind
    BY <2>1 DEF StaffRow, There, Types
  <2>3. PICK d \in Data : d = w.data  BY <2>1
  <2>4. PICK old \in Rows : old = records[c]  BY <2>2
  <2>5. d.kind \in Kinds /\ d.kind # "none"  BY DEF Data, Kinds
  <2>6. QED  BY <1>4, <2>1, <2>2, <2>3, <2>4, <2>5, UpdatedRow
<1>5. CASE w.op = "delete"
  <2>1. StaffRow(c) /\ row = [records[c] EXCEPT !.kind = "none"] /\ Children(c) = {}
    BY <1>5 DEF Writes, WriteOK, SeenOK, DeleteOK
  <2>2. There(c) /\ records[c].origin = "staff" /\ records[c] \in Rows  BY <2>1 DEF StaffRow, There, Types
  <2>3. PICK old \in Rows : old = records[c]  BY <2>2
  <2>4. QED  BY <1>5, <2>1, <2>2, <2>3, DeletedRow
<1>6. QED  BY <1>2, <1>3, <1>4, <1>5

\* What a commit does to the rows.
LEMMA RowsAfter ==
    ASSUME RecordsAssumption, Types, NEW w, NEW c, NEW row, Writes(w, c, row), records' = [records EXCEPT ![c] = row]
    PROVE  /\ records' \in [Ids -> Rows \cup {None}]
           /\ records'[c] = row /\ \A j \in Ids \ {c} : records'[j] = records[j]
           /\ \A j \in Ids : records[j] # None => /\ records'[j] # None /\ records'[j].origin = records[j].origin
                                                  /\ records'[j].kind \in {records[j].kind, "none"}
           /\ \A j : There(j) /\ (j # c \/ w.op # "delete") => There(j)'
           /\ \A j : There(j)' /\ j # c => There(j)
           /\ There(c)' <=> w.op # "delete"
<1>1. c \in Ids /\ row \in Rows /\ records \in [Ids -> Rows \cup {None}] /\ None \notin Rows
  BY NoneIsNothing DEF Writes, Types
<1>2. records'[c] = row /\ \A j \in Ids \ {c} : records'[j] = records[j]  BY <1>1
<1>3. records' \in [Ids -> Rows \cup {None}]  BY <1>1
<1>4. w.op \in {"create", "update", "delete"}  BY DEF Writes
<1>5. records[c] # None => /\ row.origin = records[c].origin /\ row.kind \in {records[c].kind, "none"}
  BY <1>4, WrittenRow
<1>6. row # None  BY <1>1
<1>7. \A j \in Ids : records[j] # None => /\ records'[j] # None /\ records'[j].origin = records[j].origin
                                         /\ records'[j].kind \in {records[j].kind, "none"}
  BY <1>2, <1>5, <1>6
<1>8. There(c)' <=> w.op # "delete"  BY <1>1, <1>2, <1>4, <1>6, WrittenRow DEF There
<1>9. \A j : There(j) /\ (j # c \/ w.op # "delete") => There(j)'  BY <1>2, <1>8 DEF There
<1>10. \A j : There(j)' /\ j # c => There(j)  BY <1>2 DEF There
<1>11. QED  BY <1>2, <1>3, <1>7, <1>8, <1>9, <1>10

LEMMA TypeAfter ==
    ASSUME RecordsAssumption, Types, TypeOK, Items, NEW w, NEW c, NEW row, Writes(w, c, row),
           records' = [records EXCEPT ![c] = row]
    PROVE  (TypeOK /\ Items)'
<1>1. /\ records' \in [Ids -> Rows \cup {None}]
      /\ records'[c] = row /\ \A j \in Ids \ {c} : records'[j] = records[j]
      /\ \A j \in Ids : records[j] # None => /\ records'[j] # None /\ records'[j].origin = records[j].origin
                                             /\ records'[j].kind \in {records[j].kind, "none"}
      /\ \A j : There(j) /\ (j # c \/ w.op # "delete") => There(j)'
      /\ \A j : There(j)' /\ j # c => There(j)
      /\ There(c)' <=> w.op # "delete"
  BY ONLY RecordsAssumption, Types, Writes(w, c, row), records' = [records EXCEPT ![c] = row], RowsAfter
<1>2. /\ c \in Ids /\ row \in Rows /\ w.op \in {"create", "update", "delete"} /\ w.id = c /\ w.row = row
      /\ w.step = "commit" /\ WriteOK(w) /\ GoodWork(w)
  BY DEF Writes
<1>3. None \notin Data  BY NoneIsNothing
<1>4. ASSUME There(c)'
      PROVE  /\ row.kind \in Kinds /\ row.origin \in Origins
             /\ \A k \in Refs(row) : There(k)'
             /\ row.kind = "order_items" => row.order \in Ids /\ records'[row.order].origin = row.origin
  <2>1. w.op # "delete" /\ w.data \in Data /\ row.kind = w.data.kind /\ row.kind \in Kinds /\ row.origin = "staff"
        /\ row.order = w.data.order
    BY <1>1, <1>4, WrittenRow
  <2>2. \A k \in NewRefs(w) : There(k)  BY <1>2, <2>1 DEF WriteOK, RefsOK
  <2>3. ASSUME NEW k \in Refs(row) PROVE There(k)
    <3>1. CASE w.op = "create"  BY <1>2, <2>2, <3>1 DEF NewRefs
    <3>2. CASE w.op = "update"
      <4>1. k \in NewRefs(w) \/ k \in Refs(records[c])  BY <1>2, <3>2 DEF NewRefs
      <4>2. There(c)  BY <3>2, WrittenRow
      <4>3. QED  BY <1>2, <2>2, <4>1, <4>2 DEF TypeOK
    <3>3. QED  BY <1>2, <2>1, <3>1, <3>2
  <2>4. ItemOK(w)  BY <1>2, <1>3, <2>1 DEF GoodWork
  <2>5. row.kind = "order_items" => row.order \in Ids /\ records'[row.order].origin = row.origin
    BY <1>1, <2>1, <2>4 DEF ItemOK
  <2>6. row.origin \in Origins  BY <1>2 DEF Rows
  <2>7. QED  BY <1>1, <2>1, <2>3, <2>5, <2>6
<1>5. ASSUME NEW i \in Ids, There(i)', i # c
      PROVE  /\ records'[i].kind \in Kinds /\ records'[i].origin \in Origins
             /\ \A k \in Refs(records'[i]) : There(k)'
             /\ records'[i].kind = "order_items" =>
                  records'[i].order \in Ids /\ records'[records'[i].order].origin = records'[i].origin
  <2>1. There(i) /\ records'[i] = records[i]  BY <1>1, <1>5
  <2>2. records[i].kind \in Kinds /\ records[i].origin \in Origins /\ \A k \in Refs(records[i]) : There(k)
    BY <2>1 DEF TypeOK
  <2>3. ASSUME NEW k \in Refs(records[i]) PROVE There(k)'
    <3>1. There(k)  BY <2>2
    <3>2. ASSUME w.op = "delete" PROVE k # c
      <4>1. Children(c) = {}  BY <3>2, WrittenRow
      <4>2. QED  BY <2>1, <4>1 DEF Children
    <3>3. QED  BY <1>1, <3>1, <3>2
  <2>4. ASSUME records[i].kind = "order_items"
        PROVE records[i].order \in Ids /\ records'[records[i].order].origin = records[i].origin
    <3>1. records[i].order \in Ids  BY <2>1, <2>4 DEF Items, Is
    <3>2. records[i].order # 0  BY <3>1, NoneIsNothing
    <3>3. There(records[i].order)  BY <2>2, <3>2 DEF Refs
    <3>4. records[records[i].order].origin = records[i].origin  BY <2>1, <2>4 DEF TypeOK
    <3>5. QED  BY <1>1, <3>1, <3>3, <3>4 DEF There
  <2>5. QED  BY <2>1, <2>2, <2>3, <2>4
<1>6. ASSUME NEW j \in Ids \ {c}, There(c)', row.kind = "orders", Is(j, "orders")'
      PROVE  row.session # records'[j].session
  <2>1. w.op # "delete"  BY <1>1, <1>6
  <2>2. VisitFree(c, row)  BY <1>2, <1>6, <2>1 DEF WriteOK, VisitOK
  <2>3. Is(j, "orders") /\ records'[j] = records[j]  BY <1>1, <1>6 DEF Is
  <2>4. QED  BY <2>2, <2>3 DEF VisitFree
<1>7. ASSUME NEW i \in Ids, NEW j \in Ids, i # j, Is(i, "orders")', Is(j, "orders")', records'[i].session # 0
      PROVE  records'[i].session # records'[j].session
  <2>1. CASE i = c  BY <1>1, <1>6, <1>7, <2>1 DEF Is
  <2>2. CASE j = c  BY <1>1, <1>6, <1>7, <2>2 DEF Is
  <2>3. CASE i # c /\ j # c
    <3>1. /\ Is(i, "orders") /\ Is(j, "orders") /\ records'[i] = records[i] /\ records'[j] = records[j]
      BY <1>1, <1>7, <2>3 DEF Is
    <3>2. QED  BY <1>7, <3>1 DEF TypeOK
  <2>4. QED  BY <2>1, <2>2, <2>3
<1>8. ASSUME NEW i \in Ids, There(i)'
      PROVE  /\ records'[i].kind \in Kinds /\ records'[i].origin \in Origins
             /\ \A k \in Refs(records'[i]) : There(k)'
             /\ records'[i].kind = "order_items" =>
                  records'[i].order \in Ids /\ records'[records'[i].order].origin = records'[i].origin
  BY <1>1, <1>4, <1>5, <1>8
<1>9. Items'  BY <1>8 DEF Items, Is
<1>10. TypeOK'  BY <1>7, <1>8 DEF TypeOK, Refs
<1>11. QED  BY <1>9, <1>10
LEMMA AuditAfter ==
    ASSUME RecordsAssumption, Types, AuditComplete, Unlogged, NEW w, NEW c, NEW row, Writes(w, c, row),
           records' = [records EXCEPT ![c] = row],
           audited' = IF w.op = "create" THEN [audited EXCEPT !.created = @ + 1]
                                         ELSE [audited EXCEPT !.changed[c] = @ + 1]
    PROVE  (AuditComplete /\ Unlogged)' /\ audited' \in [changed : [Ids -> Nat], created : Nat]
<1>1. /\ records' \in [Ids -> Rows \cup {None}]
      /\ records'[c] = row /\ \A j \in Ids \ {c} : records'[j] = records[j]
      /\ \A j \in Ids : records[j] # None => /\ records'[j] # None /\ records'[j].origin = records[j].origin
                                             /\ records'[j].kind \in {records[j].kind, "none"}
      /\ \A j : There(j) /\ (j # c \/ w.op # "delete") => There(j)'
      /\ \A j : There(j)' /\ j # c => There(j)
      /\ There(c)' <=> w.op # "delete"
  BY ONLY RecordsAssumption, Types, Writes(w, c, row), records' = [records EXCEPT ![c] = row], RowsAfter
<1>2. c \in Ids /\ row \in Rows /\ row # None /\ w.op \in {"create", "update", "delete"}
  BY NoneIsNothing DEF Writes
<1>3. PICK changed \in [Ids -> Nat] : changed = audited.changed  BY DEF Types
<1>4. PICK created \in Nat : created = audited.created  BY DEF Types
<1>5. /\ w.op = "create" => audited'.changed = changed /\ audited'.created = created + 1
      /\ w.op # "create" => audited'.changed = [changed EXCEPT ![c] = @ + 1] /\ audited'.created = created
      /\ audited' \in [changed : [Ids -> Nat], created : Nat]
  <2>1. audited = [changed |-> changed, created |-> created]  BY <1>3, <1>4 DEF Types
  <2>2. CASE w.op = "create"
    <3>1. audited' = [changed |-> changed, created |-> created + 1]  BY <2>1, <2>2
    <3>2. created + 1 \in Nat  OBVIOUS
    <3>3. audited'.changed = changed /\ audited'.created = created + 1  BY <3>1
    <3>4. audited' \in [changed : [Ids -> Nat], created : Nat]  BY ONLY <3>1, <3>2, changed \in [Ids -> Nat]
    <3>5. QED  BY <2>2, <3>3, <3>4
  <2>3. CASE w.op # "create"
    <3>1. PICK new : new = [changed EXCEPT ![c] = @ + 1]  OBVIOUS
    <3>2. audited' = [changed |-> new, created |-> created]  BY <2>1, <2>3, <3>1
    <3>3. changed[c] + 1 \in Nat  BY <1>2
    <3>4. new \in [Ids -> Nat]  BY <3>1, <3>3
    <3>5. audited'.changed = new /\ audited'.created = created  BY <3>2
    <3>6. audited' \in [changed : [Ids -> Nat], created : Nat]  BY ONLY <3>2, <3>4, created \in Nat
    <3>7. QED  BY <2>3, <3>1, <3>5, <3>6
  <2>4. QED  BY <2>2, <2>3
<1>6. /\ \A i \in DOMAIN Base : i \in Ids /\ records[i] # None
      /\ \A i \in DOMAIN Base : records[i].origin # "staff" => records[i] = Base[i]
  BY DEF Unlogged, AuditComplete, RecordsAssumption
<1>7. ASSUME NEW i \in DOMAIN Base, records'[i].origin # "staff" PROVE records'[i] = Base[i]
  <2>1. row.origin = "staff"  BY WrittenRow
  <2>2. i # c  BY <1>1, <1>7, <2>1
  <2>3. QED  BY <1>1, <1>6, <1>7, <2>2
<1>8. audited'.created = Cardinality({i \in Ids \ DOMAIN Base : records'[i] # None})
  <2> DEFINE New == {i \in Ids \ DOMAIN Base : records[i] # None}
             After == {i \in Ids \ DOMAIN Base : records'[i] # None}
  <2>1. created = Cardinality(New)  BY <1>4 DEF AuditComplete
  <2>2. CASE w.op = "create"
    <3>1. records[c] = None /\ c \notin New  BY <2>2, WrittenRow
    <3>2. c \notin DOMAIN Base  BY <1>6, <3>1
    <3>3. After = New \cup {c}  BY <1>1, <1>2, <3>2
    <3>4. IsFiniteSet(New)  BY NoneIsNothing, FS_Subset
    <3>5. Cardinality(New \cup {c}) = Cardinality(New) + 1
      <4> HIDE DEF New
      <4>1. QED  BY <3>1, <3>4, FS_AddElement
    <3>6. audited'.created = Cardinality(After)
      <4> HIDE DEF New, After
      <4>1. QED  BY <1>5, <2>1, <2>2, <3>3, <3>5
    <3>7. QED  BY <3>6
  <2>3. CASE w.op # "create"
    <3>1. records[c] # None  BY <2>3, WrittenRow DEF There
    <3>2. After = New  BY <1>1, <1>2, <3>1
    <3>3. audited'.created = Cardinality(After)
      <4> HIDE DEF New, After
      <4>1. QED  BY <1>5, <2>1, <2>3, <3>2
    <3>4. QED  BY <3>3
  <2>4. QED  BY <2>2, <2>3
<1>9. ASSUME NEW i \in Ids, records'[i] # None
      PROVE  audited'.changed[i] = records'[i].version - 1 + (IF There(i)' THEN 0 ELSE 1)
  <2>1. CASE i # c
    <3>1. records'[i] = records[i] /\ (There(i)' <=> There(i))  BY <1>1, <2>1
    <3>2. audited'.changed[i] = changed[i]  BY <1>2, <1>5, <2>1
    <3>3. changed[i] = records[i].version - 1 + (IF There(i) THEN 0 ELSE 1)
      BY <1>3, <1>9, <3>1 DEF AuditComplete
    <3>4. QED  BY <3>1, <3>2, <3>3
  <2>2. CASE i = c /\ w.op = "create"
    <3>1. row.version = 1 /\ records[c] = None  BY <2>2, WrittenRow
    <3>2. changed[c] = 0  BY <1>2, <1>3, <3>1 DEF Unlogged
    <3>3. audited'.changed = changed  BY <1>5, <2>2
    <3>4. There(c)'  BY <1>1, <2>2
    <3>5. QED  BY <1>1, <2>2, <3>1, <3>2, <3>3, <3>4
  <2>3. CASE i = c /\ w.op # "create"
    <3>1. There(c) /\ records[c] \in Rows  BY <2>3, WrittenRow
    <3>2. PICK n \in Nat : n = records[c].version  BY <3>1 DEF Rows
    <3>3. changed[c] = n - 1 + 0  BY <1>2, <1>3, <3>1, <3>2 DEF AuditComplete, There
    <3>4. audited'.changed[c] = changed[c] + 1  BY <1>2, <1>5, <2>3
    <3>5. row.version = (IF w.op = "update" THEN n + 1 ELSE n)  BY <1>2, <2>3, <3>2, WrittenRow
    <3>6. audited'.changed[c] = row.version - 1 + (IF w.op # "delete" THEN 0 ELSE 1)
      BY <1>2, <2>3, <3>3, <3>4, <3>5
    <3>7. QED  BY <1>1, <2>3, <3>6
  <2>4. QED  BY <2>1, <2>2, <2>3
<1>10. ASSUME NEW i \in Ids, records'[i] = None PROVE i \notin DOMAIN Base /\ audited'.changed[i] = 0
  <2>1. i # c /\ records[i] = None  BY <1>1, <1>2, <1>10
  <2>2. changed[i] = 0 /\ i \notin DOMAIN Base  BY <1>3, <2>1 DEF Unlogged
  <2>3. audited'.changed[i] = changed[i]  BY <1>2, <1>5, <2>1
  <2>4. QED  BY <2>2, <2>3
<1>11. AuditComplete'  BY <1>7, <1>8, <1>9 DEF AuditComplete
<1>12. Unlogged'  BY <1>10 DEF Unlogged
<1>13. QED  BY <1>5, <1>11, <1>12

-----------------------------------------------------------------------------
(* What another request has validated and checked outlives a commit.        *)

\* The locks of others are on rows that a commit does not write.
LEMMA OthersLocks ==
    ASSUME RecordsAssumption, Types, NEW w, NEW c, NEW row, Writes(w, c, row), records' = [records EXCEPT ![c] = row],
           NEW u \in Work, GoodWork(u), Apart(w, u), Apart(u, w)
    PROVE  /\ u.step = "commit" => u.id # c /\ u.id \in Ids /\ records'[u.id] = records[u.id]
           /\ WrittenOf(u)' = WrittenOf(u) /\ ItemOf(u)' = ItemOf(u)
           /\ u.step = "commit" => NewRefs(u)' = NewRefs(u)
           /\ StrongOf(u)' = StrongOf(u) /\ NoKeyOf(u)' = NoKeyOf(u) /\ KeyShareOf(u)' = KeyShareOf(u)
<1>1. w.step = "commit" /\ w.id = c /\ c \in Ids  BY DEF Writes
<1>2. \A j \in Ids \ {c} : records'[j] = records[j]
  BY ONLY RecordsAssumption, Types, Writes(w, c, row), records' = [records EXCEPT ![c] = row], RowsAfter
<1>3. u.step = "commit" => u.id \in Ids  BY DEF GoodWork, WriteOK
<1>4. u.step = "commit" => u.id # c  BY <1>1 DEF Apart, WrittenOf
<1>5. u.step = "commit" => records'[u.id] = records[u.id]  BY <1>2, <1>3, <1>4
<1>6. WrittenOf(u)' = WrittenOf(u) /\ ItemOf(u)' = ItemOf(u) /\ NoKeyOf(u)' = NoKeyOf(u)
  BY DEF WrittenOf, ItemOf, NoKeyOf
<1>7. u.step = "commit" => NewRefs(u)' = NewRefs(u)  BY <1>5 DEF NewRefs
<1>8. StrongOf(u)' = StrongOf(u)
  <2>1. ASSUME NEW i \in WrittenOf(u) PROVE records'[i] = records[i]  BY <1>5 DEF WrittenOf
  <2>2. QED  BY <1>6, <2>1 DEF StrongOf
<1>9. KeyShareOf(u)' = KeyShareOf(u)  BY <1>7 DEF KeyShareOf
<1>10. QED  BY <1>3, <1>4, <1>5, <1>6, <1>7, <1>8, <1>9

LEMMA OthersStay ==
    ASSUME RecordsAssumption, Types, NEW w, NEW c, NEW row, Writes(w, c, row), records' = [records EXCEPT ![c] = row],
           NEW u \in Work, GoodWork(u), Apart(w, u), Apart(u, w)
    PROVE  GoodWork(u)'
<1>1. /\ records' \in [Ids -> Rows \cup {None}]
      /\ records'[c] = row /\ \A j \in Ids \ {c} : records'[j] = records[j]
      /\ \A j \in Ids : records[j] # None => /\ records'[j] # None /\ records'[j].origin = records[j].origin
                                             /\ records'[j].kind \in {records[j].kind, "none"}
      /\ \A j : There(j) /\ (j # c \/ w.op # "delete") => There(j)'
      /\ \A j : There(j)' /\ j # c => There(j)
      /\ There(c)' <=> w.op # "delete"
  BY ONLY RecordsAssumption, Types, Writes(w, c, row), records' = [records EXCEPT ![c] = row], RowsAfter
<1>2. /\ c \in Ids /\ row \in Rows /\ w.op \in {"create", "update", "delete"} /\ w.id = c /\ w.row = row
      /\ w.step = "commit" /\ w \in Work
  BY DEF Writes
<1>3. /\ u.step = "commit" => u.id # c /\ u.id \in Ids /\ records'[u.id] = records[u.id]
      /\ u.step = "commit" => NewRefs(u)' = NewRefs(u)
  BY OthersLocks
<1>4. Shape(u)'  BY DEF GoodWork, Shape
<1>5. OldOK(u)'
  <2>1. Shape(u) /\ OldOK(u)  BY DEF GoodWork
  <2>2. ASSUME u.op \in {"update", "delete"} PROVE records'[u.id] # None  BY <1>1, <2>1, <2>2 DEF Shape, OldOK
  <2>3. ASSUME u.op = "update" PROVE records'[u.id].kind \in {u.data.kind, "none"}
    <3>1. u.id \in Ids /\ records[u.id] # None /\ records[u.id].kind \in {u.data.kind, "none"}
      BY <2>1, <2>3 DEF Shape, OldOK
    <3>2. records'[u.id].kind \in {records[u.id].kind, "none"}  BY <1>1, <3>1
    <3>3. QED  BY <3>1, <3>2
  <2>4. QED  BY <2>2, <2>3 DEF OldOK
<1>6. ASSUME u.step \in {"write", "commit"}, u.data # None PROVE ItemOK(u)'
  <2>1. ItemOK(u)  BY <1>6 DEF GoodWork
  <2>2. QED  BY <1>1, <2>1 DEF ItemOK
<1>7. ASSUME u.step \in {"write", "commit"}, u.data # None PROVE RefundOK(u)'
  <2>1. SUFFICES ASSUME u.data.kind = "order_item_refunds"
                 PROVE  /\ Is(u.data.item, "order_items")' /\ records'[u.data.item].order = u.data.order
                        /\ Refunded(u.data.item, u.id)' + u.data.amount <= records'[u.data.item].amount
    BY DEF RefundOK
  <2>2. PICK item : item = u.data.item  OBVIOUS
  <2>3. /\ Is(item, "order_items") /\ records[item].order = u.data.order
        /\ Refunded(item, u.id) + u.data.amount <= records[item].amount
    BY <1>7, <2>1, <2>2 DEF GoodWork, RefundOK
  <2>4. item \in Ids /\ item # 0 /\ There(item)  BY <2>3, NoneIsNothing DEF Is, There
  <2>5. item \in StrongOf(u)  BY <1>7, <2>2, <2>4 DEF StrongOf, ItemOf
  <2>6. item # c
    <3>1. w.op = "create" => ~There(c)  BY WrittenRow
    <3>2. w.op = "update" => c \in NoKeyOf(w)  BY <1>2 DEF NoKeyOf, WrittenOf
    <3>3. w.op = "delete" => c \in StrongOf(w)  BY <1>2 DEF StrongOf, WrittenOf
    <3>4. QED  BY <1>2, <2>4, <2>5, <3>1, <3>2, <3>3 DEF Apart
  <2>7. records'[item] = records[item] /\ Is(item, "order_items")'  BY <1>1, <2>3, <2>4, <2>6 DEF Is
  <2>8. PICK S : S = RefundsOf(item, u.id)'  OBVIOUS
  <2>9. PICK T : T = RefundsOf(item, u.id)  OBVIOUS
  <2>10. c \notin S
    <3>1. ASSUME c \in S PROVE FALSE
      <4>1. There(c)' /\ row.kind = "order_item_refunds" /\ row.item = item
        BY <1>1, <2>8, <3>1 DEF RefundsOf, Is
      <4>2. w.op # "delete"  BY <1>1, <4>1
      <4>3. w.data \in Data /\ w.data.item = item  BY <4>1, <4>2, WrittenRow
      <4>4. item \in StrongOf(w)  BY <1>2, <2>4, <4>3, NoneIsNothing DEF StrongOf, ItemOf
      <4>5. QED  BY <2>5, <4>4 DEF Apart
    <3>2. QED  BY <3>1
  <2>11. S \subseteq T /\ T \subseteq Ids /\ \A i \in S : records'[i] = records[i]
    <3>1. S \subseteq Ids  BY <2>8 DEF RefundsOf
    <3>2. \A i \in S : records'[i] = records[i]  BY <1>1, <2>10, <3>1
    <3>3. S \subseteq T  BY <1>1, <2>8, <2>9, <2>10, <3>1, <3>2 DEF RefundsOf, Is
    <3>4. QED  BY <2>9, <3>2, <3>3 DEF RefundsOf
  <2>12. \A i \in T : records[i] \in Rows /\ records[i].amount \in Nat
    BY <2>9 DEF RefundsOf, Is, There, Types, Rows
  <2>13. PICK f : f = [i \in S |-> records'[i].amount]  OBVIOUS
  <2>14. PICK g : g = [i \in T |-> records[i].amount]  OBVIOUS
  <2>15. Sum(S, f) \in Nat /\ Sum(T, g) \in Nat /\ Sum(S, f) <= Sum(T, g)
    <3>1. IsFiniteSet(T)  BY <2>11, NoneIsNothing, FS_Subset
    <3>2. \A x \in T : g[x] \in Nat  BY <2>12, <2>14
    <3>3. \A x \in S : f[x] = g[x]  BY <2>11, <2>13, <2>14
    <3>4. S \in SUBSET T  BY <2>11
    <3>5. QED  BY ONLY <3>1, <3>2, <3>3, <3>4, SumFewer
  <2>16. Refunded(item, u.id)' = Sum(S, f) /\ Refunded(item, u.id) = Sum(T, g)
    BY <2>8, <2>9, <2>13, <2>14 DEF Refunded
  <2>17. PICK n \in Nat : n = records[item].amount  BY <2>4 DEF There, Types, Rows
  <2>18. PICK d \in Nat : d = u.data.amount  BY <1>7 DEF Work, Data
  <2>19. Sum(S, f) + d <= n  BY <2>3, <2>15, <2>16, <2>17, <2>18
  <2>20. QED  BY <2>2, <2>3, <2>7, <2>16, <2>17, <2>18, <2>19
<1>8. ASSUME u.step = "commit" PROVE WriteOK(u)'
  <2>1. WriteOK(u) /\ u.id \in Ids /\ u.id # c /\ records'[u.id] = records[u.id] /\ NewRefs(u)' = NewRefs(u)
    BY <1>3, <1>8 DEF GoodWork
  <2>2. There(u.id)' <=> There(u.id)  BY <1>1, <2>1
  <2>3. CreateOK(u)'  BY <2>1 DEF WriteOK, CreateOK
  <2>4. SeenOK(u)'  BY <2>1, <2>2 DEF WriteOK, SeenOK, StaffRow
  <2>5. UpdateOK(u)'  BY <2>1 DEF WriteOK, UpdateOK, Updated, With
  <2>6. ASSUME u.op = "delete" PROVE Children(u.id)' = {}
    <3>1. u.id \in StrongOf(u)  BY <1>8, <2>6 DEF StrongOf, WrittenOf
    <3>2. Children(u.id) = {}  BY <2>1, <2>6 DEF WriteOK, DeleteOK
    <3>3. ASSUME NEW j \in Ids, There(j)', u.id \in Refs(records'[j]) PROVE FALSE
      <4>1. j = c  BY <1>1, <3>2, <3>3 DEF Children
      <4>2. w.op # "delete" /\ u.id \in Refs(row)  BY <1>1, <3>3, <4>1
      <4>3. u.id \notin NewRefs(w)  BY <1>2, <3>1, <4>2 DEF Apart, KeyShareOf
      <4>4. w.op = "update" /\ u.id \in Refs(records[c])  BY <1>2, <4>2, <4>3 DEF NewRefs
      <4>5. There(c)  BY <4>4, WrittenRow
      <4>6. QED  BY <1>2, <3>2, <4>4, <4>5 DEF Children
    <3>4. QED  BY <3>3 DEF Children
  <2>7. DeleteOK(u)'  BY <2>1, <2>6 DEF WriteOK, DeleteOK
  <2>8. RefsOK(u)'
    <3>1. ASSUME u.op # "delete", NEW k \in NewRefs(u) PROVE There(k)'
      <4>1. There(k) /\ k \in KeyShareOf(u)  BY <1>8, <2>1, <3>1 DEF WriteOK, RefsOK, KeyShareOf
      <4>2. w.op = "delete" => k # c  BY <1>2, <4>1 DEF Apart, StrongOf, WrittenOf
      <4>3. QED  BY <1>1, <4>1, <4>2
    <3>2. QED  BY <2>1, <3>1 DEF RefsOK
  <2>9. VisitOK(u)'
    <3>1. ASSUME u.op # "delete", u.row.kind = "orders", NEW j \in Ids \ {u.id}, Is(j, "orders")'
          PROVE records'[j].session # u.row.session
      <4>1. CASE j = c
        <5>1. row.kind = "orders"  BY <1>1, <3>1, <4>1 DEF Is
        <5>2. QED  BY <1>1, <1>2, <1>8, <3>1, <4>1, <5>1 DEF Apart
      <4>2. CASE j # c
        <5>1. Is(j, "orders") /\ records'[j] = records[j]  BY <1>1, <3>1, <4>2 DEF Is
        <5>2. QED  BY <2>1, <3>1, <5>1 DEF WriteOK, VisitOK, VisitFree
      <4>3. QED  BY <4>1, <4>2
    <3>2. QED  BY <3>1 DEF VisitOK, VisitFree
  <2>10. QED  BY <2>1, <2>3, <2>4, <2>5, <2>7, <2>8, <2>9 DEF WriteOK
<1>9. QED  BY <1>4, <1>5, <1>6, <1>7, <1>8 DEF GoodWork
LEMMA CommitStep ==
    ASSUME RecordsAssumption, IInv, NEW s \in Sessions, Commit(s)
    PROVE  IInv'
<1>1. PICK w : w = work[s]  OBVIOUS
<1>2. PICK c : c = w.id  OBVIOUS
<1>3. PICK row : row = w.row  OBVIOUS
<1>4. CASE Fail(s)  BY <1>4, FailStep
<1>5. ASSUME records' = [records EXCEPT ![c] = row],
             audited' = IF w.op = "create" THEN [audited EXCEPT !.created = @ + 1]
                                           ELSE [audited EXCEPT !.changed[c] = @ + 1],
             work' = [work EXCEPT ![s] = Idle]
      PROVE IInv'
  <2>1. Types /\ TypeOK /\ Items /\ AuditComplete /\ Unlogged /\ AllApart  BY DEF IInv
  <2>2. w.step = "commit"  BY <1>1 DEF Commit, At
  <2>3. Writes(w, c, row)  BY <1>1, <1>2, <1>3, <2>2, CommitWrites
  <2>4. (TypeOK /\ Items)'  BY ONLY RecordsAssumption, <1>5, <2>1, <2>3, TypeAfter
  <2>5. (AuditComplete /\ Unlogged)' /\ audited' \in [changed : [Ids -> Nat], created : Nat]
    BY ONLY RecordsAssumption, <1>5, <2>1, <2>3, AuditAfter
  <2>6. records' \in [Ids -> Rows \cup {None}]
    BY ONLY RecordsAssumption, <1>5, <2>1, <2>3, RowsAfter
  <2>7. work'[s] = Idle /\ \A r \in Others(s) : work'[r] = work[r]  BY <1>5, <2>1 DEF Types, Others
  <2>8. Types'  BY <1>5, <2>1, <2>5, <2>6, IdleIsGood DEF Types
  <2>9. ASSUME NEW r \in Others(s), NEW u, u = work[r] PROVE u \in Work /\ GoodWork(u) /\ Apart(w, u) /\ Apart(u, w)
    BY <1>1, <2>9 DEF Others, IInv, Types, AllApart
  <2>10. ASSUME NEW r \in Sessions PROVE GoodWork(work[r])'
    <3>1. CASE r = s
      <4>1. GoodWork(Idle)'  BY DEF GoodWork, Shape, OldOK, Idle
      <4>2. QED  BY <2>7, <3>1, <4>1 DEF GoodWork, Shape, OldOK, Idle
    <3>2. CASE r # s
      <4>1. PICK u : u = work[r]  OBVIOUS
      <4>2. r \in Others(s)  BY <3>2 DEF Others
      <4>3. u \in Work /\ GoodWork(u) /\ Apart(w, u) /\ Apart(u, w)  BY <2>9, <4>1, <4>2
      <4>4. GoodWork(u)'  BY ONLY RecordsAssumption, <1>5, <2>1, <2>3, <4>3, OthersStay
      <4>5. QED  BY <2>7, <4>1, <4>2, <4>4
    <3>3. QED  BY <3>1, <3>2
  <2>11. ASSUME NEW r \in Sessions, NEW q \in Sessions, r # q PROVE Apart(work[r], work[q])'
    <3>1. PICK v : v = work'[r]  OBVIOUS
    <3>2. PICK u : u = work'[q]  OBVIOUS
    <3>3. ASSUME NEW x PROVE Apart(Idle, x)' /\ Apart(x, Idle)'
      <4>1. (StrongOf(Idle) = {} /\ NoKeyOf(Idle) = {} /\ KeyShareOf(Idle) = {} /\ WrittenOf(Idle) = {})'
        BY DEF StrongOf, ItemOf, NoKeyOf, KeyShareOf, WrittenOf, Idle
      <4>2. QED  BY <4>1 DEF Apart, Idle
    <3>4. CASE r = s  BY <2>7, <3>1, <3>2, <3>3, <3>4
    <3>5. CASE q = s  BY <2>7, <3>1, <3>2, <3>3, <3>5
    <3>6. CASE r # s /\ q # s
      <4>1. v = work[r] /\ u = work[q] /\ r \in Others(s) /\ q \in Others(s)
        BY <2>7, <3>1, <3>2, <3>6 DEF Others
      <4>2. v \in Work /\ GoodWork(v) /\ Apart(w, v) /\ Apart(v, w)  BY <2>9, <4>1
      <4>3. u \in Work /\ GoodWork(u) /\ Apart(w, u) /\ Apart(u, w)  BY <2>9, <4>1
      <4>4. Apart(v, u)  BY <2>1, <2>11, <4>1 DEF AllApart
      <4>5. WrittenOf(v)' = WrittenOf(v) /\ StrongOf(v)' = StrongOf(v)
        BY ONLY RecordsAssumption, <1>5, <2>1, <2>3, <4>2, OthersLocks
      <4>6. WrittenOf(u)' = WrittenOf(u) /\ StrongOf(u)' = StrongOf(u) /\ NoKeyOf(u)' = NoKeyOf(u)
            /\ KeyShareOf(u)' = KeyShareOf(u)
        BY ONLY RecordsAssumption, <1>5, <2>1, <2>3, <4>3, OthersLocks
      <4>7. Apart(v, u)'  BY <4>4, <4>5, <4>6 DEF Apart
      <4>8. QED  BY <3>1, <3>2, <4>7
    <3>7. QED  BY <3>4, <3>5, <3>6
  <2>12. AllApart'  BY <2>11 DEF AllApart
  <2>13. QED  BY <2>4, <2>5, <2>8, <2>10, <2>12 DEF IInv
<1>6. QED  BY <1>1, <1>2, <1>3, <1>4, <1>5 DEF Commit

LEMMA NextHolds ==
    ASSUME RecordsAssumption, IInv, [Next]_vars
    PROVE  IInv'
<1>1. ASSUME NEW s \in Sessions, Submit(s) \/ Serve(s) PROVE IInv'
  BY <1>1, SubmitStep, EnsureStep, ValidateStep, InsertStep, UpdateStep, DeleteStep, CommitStep DEF Serve
<1>2. CASE UNCHANGED vars
  <2>1. records' = records /\ work' = work /\ audited' = audited  BY <1>2 DEF vars
  <2>2. (Types /\ TypeOK /\ Items /\ AuditComplete /\ Unlogged)'
    BY <2>1 DEF IInv, Types, TypeOK, Items, AuditComplete, Unlogged, Is, There
  <2>3. ASSUME NEW r \in Sessions PROVE GoodWork(work[r])'
    <3>1. PICK v : v = work[r]  OBVIOUS
    <3>2. GoodWork(v)  BY <3>1 DEF IInv
    <3>3. GoodWork(v)'  BY <2>1, <3>2, SameRows
    <3>4. QED  BY <2>1, <3>1, <3>3
  <2>4. ASSUME NEW r \in Sessions, NEW q \in Sessions, r # q PROVE Apart(work[r], work[q])'
    <3>1. PICK v : v = work[r]  OBVIOUS
    <3>2. PICK u : u = work[q]  OBVIOUS
    <3>3. Apart(v, u)  BY <2>4, <3>1, <3>2 DEF IInv, AllApart
    <3>4. Apart(v, u)'  BY <2>1, <3>3, SameRows
    <3>5. QED  BY <2>1, <3>1, <3>2, <3>4
  <2>5. QED  BY <2>2, <2>3, <2>4 DEF IInv, AllApart
<1>3. QED  BY <1>1, <1>2 DEF Next

LEMMA Inductive == ASSUME RecordsAssumption PROVE Spec => []IInv
<1>1. Init => IInv  BY InitHolds
<1>2. IInv /\ [Next]_vars => IInv'  BY NextHolds
<1>3. QED  BY <1>1, <1>2, PTL DEF Spec

-----------------------------------------------------------------------------
(* Theorems.                                                                *)

\* No row refers to one that was deleted, an item of the staff's orders is one of the
\* staff, and no visit gets two orders, however the statements of creations, changes and
\* deletions interleave (_ensure_mutable_version, validate, the foreign keys).
THEOREM TypeCorrect == ASSUME RecordsAssumption PROVE Spec => []TypeOK
<1>1. IInv => TypeOK  BY DEF IInv
<1>2. QED  BY <1>1, Inductive, PTL

\* A change is in the audit trail if and only if it was committed, and imported and
\* customers' rows are as they were (create, update, delete, and record_audit in the same
\* transaction).
THEOREM TrailIsComplete == ASSUME RecordsAssumption PROVE Spec => []AuditComplete
<1>1. IInv => AuditComplete  BY DEF IInv
<1>2. QED  BY <1>1, Inductive, PTL

\* Only its own session moves a request, and it writes rows only in its commit.
LEMMA OwnCommit ==
    ASSUME IInv, [Next]_vars, NEW s \in Sessions, At(s, "commit"), records' # records, work'[s] = Idle,
           NEW w, w = work[s]
    PROVE  Writes(w, w.id, w.row) /\ records' = [records EXCEPT ![w.id] = w.row]
<1>1. w.step = "commit" /\ w # Idle  BY DEF At, Idle
<1>2. ASSUME NEW r \in Sessions, Submit(r) \/ Serve(r), r # s PROVE work'[s] = work[s]
  BY <1>2 DEF IInv, Types, Submit, Serve, BeginCreate, BeginUpdate, BeginDelete, EnsureMutableVersion, Validate,
              Insert, Update, Delete, Commit, Goto, Fail, Write
<1>3. Submit(s) \/ Serve(s)  BY <1>1, <1>2 DEF Next, vars
<1>4. Commit(s)
  BY <1>1, <1>3 DEF Submit, Serve, BeginCreate, BeginUpdate, BeginDelete, EnsureMutableVersion, Validate,
                    Insert, Update, Delete, At
<1>5. records' = [records EXCEPT ![w.id] = w.row]  BY <1>4 DEF Commit, Fail
<1>6. Writes(w, w.id, w.row)  BY <1>1, CommitWrites
<1>7. QED  BY <1>5, <1>6

\* A change overwrites the version its author had seen, even if it waited for the row
\* (the row_version in the WHERE clause of update and delete).
THEOREM WritesAsSeen == ASSUME RecordsAssumption PROVE Spec => WrittenAsSeen
<1>1. ASSUME IInv, [Next]_vars, NEW s \in Sessions, At(s, "commit"), records' # records, work'[s] = Idle,
             work[s].op # "create"
      PROVE  records[work[s].id].version = work[s].version
  <2>1. PICK w : w = work[s]  OBVIOUS
  <2>2. Writes(w, w.id, w.row)  BY <1>1, <2>1, OwnCommit
  <2>3. w.op \in {"update", "delete"} /\ SeenOK(w)  BY <1>1, <2>1, <2>2 DEF Writes, WriteOK
  <2>4. QED  BY <2>1, <2>3 DEF SeenOK
<1>2. IInv /\ [Next]_vars =>
        [\A s \in Sessions :
           At(s, "commit") /\ records' # records /\ work'[s] = Idle /\ work[s].op # "create"
           => records[work[s].id].version = work[s].version]_vars
  BY <1>1
<1>3. QED  BY <1>2, Inductive, PTL DEF Spec, WrittenAsSeen

\* The sum of an item's refunds after one of them was written.
LEMMA RefundCommit ==
    ASSUME RecordsAssumption, IInv, [Next]_vars, NEW s \in Sessions, NEW item \in Ids,
           At(s, "commit"), records' # records, work'[s] = Idle,
           work[s].row.kind = "order_item_refunds", work[s].row.item = item
    PROVE  records'[item].order = work[s].row.order /\ Refunded(item, 0)' <= records'[item].amount
<1>1. PICK w : w = work[s]  OBVIOUS
<1>2. PICK c : c = w.id  OBVIOUS
<1>3. PICK row : row = w.row  OBVIOUS
<1>4. Writes(w, c, row) /\ records' = [records EXCEPT ![c] = row]  BY <1>1, <1>2, <1>3, OwnCommit
<1>5. Types  BY DEF IInv
<1>6. /\ records' \in [Ids -> Rows \cup {None}]
      /\ records'[c] = row /\ \A j \in Ids \ {c} : records'[j] = records[j]
  BY <1>4, <1>5 DEF Types, Writes
<1>7. row.kind = "order_item_refunds" /\ row.item = item  BY <1>1, <1>3
<1>8. /\ w.op # "delete" /\ w.data \in Data /\ w.data.kind = "order_item_refunds" /\ w.data.item = item
      /\ row.order = w.data.order /\ row.amount = w.data.amount
  BY <1>4, <1>5, <1>7, WrittenRow DEF Writes
<1>9. c \in Ids /\ row \in Rows /\ w.step = "commit" /\ GoodWork(w) /\ w.id = c  BY <1>4 DEF Writes
<1>10. RefundOK(w)  BY <1>8, <1>9, NoneIsNothing DEF GoodWork
<1>11. /\ Is(item, "order_items") /\ records[item].order = row.order
       /\ Refunded(item, c) + row.amount <= records[item].amount
  BY <1>8, <1>9, <1>10 DEF RefundOK
<1>12. item # c
  <2>1. w.op = "create" => ~There(c)  BY <1>4, <1>5, WrittenRow
  <2>2. w.op = "update" => records[c].kind = row.kind  BY <1>4, <1>5, WrittenRow
  <2>3. w.op \in {"create", "update", "delete"}  BY <1>4 DEF Writes
  <2>4. QED  BY <1>7, <1>8, <1>11, <2>1, <2>2, <2>3 DEF Is
<1>13. records'[item] = records[item]  BY <1>6, <1>12
<1>14. PICK S : S = RefundsOf(item, c)  OBVIOUS
<1>15. PICK T : T = RefundsOf(item, 0)'  OBVIOUS
<1>16. PICK f : f = [i \in S |-> records[i].amount]  OBVIOUS
<1>17. PICK g : g = [i \in T |-> records'[i].amount]  OBVIOUS
<1>18. Refunded(item, c) = Sum(S, f) /\ Refunded(item, 0)' = Sum(T, g)
  BY <1>14, <1>15, <1>16, <1>17 DEF Refunded
<1>19. S \subseteq Ids /\ T \subseteq Ids /\ c \notin S  BY <1>14, <1>15 DEF RefundsOf
<1>20. T \subseteq S \cup {c}
  <2>1. ASSUME NEW i \in T, i # c PROVE i \in S
    <3>1. i \in Ids /\ There(i)' /\ records'[i].kind = "order_item_refunds" /\ records'[i].item = item
      BY <1>15 DEF RefundsOf, Is
    <3>2. There(i) /\ records'[i] = records[i]  BY <1>6, <2>1, <3>1 DEF There
    <3>3. QED  BY <1>14, <2>1, <3>1, <3>2 DEF RefundsOf, Is
  <2>2. QED  BY <2>1
<1>21. c \in T
  <2>1. There(c)'  BY <1>6, <1>7, <1>9, NoneIsNothing DEF There
  <2>2. c # 0  BY <1>9, NoneIsNothing
  <2>3. QED  BY <1>6, <1>7, <1>9, <1>15, <2>1, <2>2 DEF RefundsOf, Is
<1>22. PICK a \in Nat : a = row.amount  BY <1>9 DEF Rows
<1>23. g[c] = a /\ (\A y \in S : f[y] \in Nat) /\ \A y \in T \ {c} : f[y] = g[y]
  <2>1. g[c] = a  BY <1>6, <1>17, <1>21, <1>22
  <2>2. ASSUME NEW y \in S PROVE f[y] \in Nat
    <3>1. records[y] \in Rows  BY <1>5, <1>14 DEF RefundsOf, Is, There, Types
    <3>2. QED  BY <1>16, <3>1 DEF Rows
  <2>3. ASSUME NEW y \in T \ {c} PROVE f[y] = g[y]
    <3>1. y \in S /\ records'[y] = records[y]  BY <1>6, <1>19, <1>20
    <3>2. QED  BY <1>16, <1>17, <3>1
  <2>4. QED  BY <2>1, <2>2, <2>3
<1>24. IsFiniteSet(S)  BY <1>19, NoneIsNothing, FS_Subset
<1>25. Sum(S, f) \in Nat /\ Sum(T, g) \in Nat /\ Sum(T, g) <= Sum(S, f) + a
  BY ONLY <1>19, <1>20, <1>22, <1>23, <1>24, SumOneMore
<1>26. PICK n \in Nat : n = records[item].amount  BY <1>5, <1>11 DEF Is, There, Types, Rows
<1>27. Sum(S, f) + a <= n  BY <1>11, <1>18, <1>22, <1>26
<1>28. Sum(T, g) <= n  BY ONLY <1>25, <1>27, a \in Nat, n \in Nat
<1>29. QED  BY <1>1, <1>3, <1>11, <1>13, <1>18, <1>26, <1>28

\* A refund that is written is of its item's order, and together with the item's other
\* refunds within its price, whatever is created, changed and deleted at the same time: its
\* item stays locked from the validation to the commit (validate, SELECT ... FOR UPDATE).
THEOREM RefundsFit == ASSUME RecordsAssumption PROVE Spec => RefundFits
<1>1. IInv /\ [Next]_vars =>
        [\A s \in Sessions, item \in Ids :
           /\ At(s, "commit") /\ records' # records /\ work'[s] = Idle
           /\ work[s].row.kind = "order_item_refunds" /\ work[s].row.item = item
           => /\ records'[item].order = work[s].row.order
              /\ Refunded(item, 0)' <= records'[item].amount]_vars
  BY RefundCommit
<1>2. QED  BY <1>1, Inductive, PTL DEF Spec, RefundFits

=============================================================================
