------------------------------ MODULE RefundProofs ------------------------------
(***************************************************************************)
(* Orders, payments and refunds, for every set of orders, items, requests, *)
(* refund rows, clients and connections, and every price.                  *)
(*                                                                         *)
(* The first half is about OrderRefunds: sums of cents, and the invariants *)
(* of the requests as atomic steps.  The second half shows that the row    *)
(* locks of RefundTransactions are enough: every commit is such a step,    *)
(* and no transactions wait for each other in a circle.                    *)
(*                                                                         *)
(* The argument of the second half: a row is locked before what is decided *)
(* on it is read, and whoever changes what a transaction has read would    *)
(* have to hold a lock that excludes its own.  So what it has seen is      *)
(* still so when it commits.  Rows are locked in one order, so waiting     *)
(* ends somewhere.                                                         *)
(***************************************************************************)
EXTENDS RefundTransactions, FiniteSetTheorems, SequenceTheorems, TLAPS

-----------------------------------------------------------------------------
(* What sums of cents do when rows come, go or keep their amount.           *)

\* One row contributes its amount.
LEMMA CentsOfRow ==
    ASSUME NEW x, NEW n \in Nat
    PROVE  IsFiniteSet({x} \X (1..n)) /\ Cardinality({x} \X (1..n)) = n
<1>1. IsFiniteSet({x}) /\ Cardinality({x}) = 1
  BY FS_Singleton
<1>2. IsFiniteSet(1..n) /\ Cardinality(1..n) = n
  BY FS_Interval
<1>3. /\ IsFiniteSet({x} \X (1..n))
      /\ Cardinality({x} \X (1..n)) = Cardinality({x}) * Cardinality(1..n)
  BY <1>1, <1>2, FS_Product
<1> QED
  BY <1>1, <1>2, <1>3

\* Finitely many rows of finitely many cents: the sum is a number.
LEMMA SumType ==
    ASSUME NEW S, IsFiniteSet(S), NEW amount, \A x \in S : amount[x] \in Nat
    PROVE  IsFiniteSet(CentsOf(S, amount)) /\ Sum(S, amount) \in Nat
<1> DEFINE cents == [x \in S |-> {x} \X (1..amount[x])]
           rows  == {cents[x] : x \in S}
<1>1. cents \in Surjection(S, rows)
  BY DEF Surjection
<1>2. IsFiniteSet(rows)
  <2> HIDE DEF cents, rows
  <2> QED BY <1>1, FS_Surjection
<1>3. \A T \in rows : IsFiniteSet(T)
  <2> SUFFICES ASSUME NEW x \in S PROVE IsFiniteSet({x} \X (1..amount[x]))
    OBVIOUS
  <2> QED BY CentsOfRow
<1>4. IsFiniteSet(UNION rows)
  <2> HIDE DEF rows
  <2> QED BY <1>2, <1>3, FS_UNION
<1>5. CentsOf(S, amount) = UNION rows
  BY DEF CentsOf
<1> QED
  BY <1>4, <1>5, FS_CardinalityType DEF Sum

\* The empty sum.
LEMMA SumEmpty == \A amount : Sum({}, amount) = 0
  BY FS_EmptySet DEF Sum, CentsOf

\* A sum only reads the amounts of its rows.
LEMMA SumSame ==
    ASSUME NEW S, NEW f, NEW g, \A x \in S : f[x] = g[x]
    PROVE  Sum(S, f) = Sum(S, g)
  BY DEF Sum, CentsOf

\* A new row adds its amount.
LEMMA SumAdd ==
    ASSUME NEW S, IsFiniteSet(S), NEW x, x \notin S, NEW amount,
           \A y \in S \cup {x} : amount[y] \in Nat
    PROVE  Sum(S \cup {x}, amount) = Sum(S, amount) + amount[x]
<1> DEFINE old == CentsOf(S, amount)
           new == {x} \X (1..amount[x])
<1>1. IsFiniteSet(old) /\ Cardinality(old) \in Nat
  BY SumType DEF Sum
<1>2. IsFiniteSet(new) /\ Cardinality(new) = amount[x]
  BY CentsOfRow
<1>3. CentsOf(S \cup {x}, amount) = old \cup new
  BY DEF CentsOf
<1>4. old \cap new = {}
  BY DEF CentsOf
<1>5. Cardinality(old \cap new) = 0
  BY <1>4, FS_EmptySet
<1>6. Cardinality(old \cup new)
        = Cardinality(old) + Cardinality(new) - Cardinality(old \cap new)
  <2> HIDE DEF old, new
  <2> QED BY <1>1, <1>2, FS_Union
<1>7. Cardinality(old \cup new) = Cardinality(old) + amount[x]
  <2> HIDE DEF old, new
  <2> QED BY <1>1, <1>2, <1>5, <1>6
<1> QED
  BY <1>3, <1>7 DEF Sum

\* A row that goes takes its amount with it.
LEMMA SumRemove ==
    ASSUME NEW S, IsFiniteSet(S), NEW x \in S, NEW amount,
           \A y \in S : amount[y] \in Nat
    PROVE  /\ Sum(S, amount) = Sum(S \ {x}, amount) + amount[x]
           /\ Sum(S \ {x}, amount) \in Nat
<1>1. IsFiniteSet(S \ {x})
  BY FS_RemoveElement
<1>2. S = (S \ {x}) \cup {x}
  OBVIOUS
<1>3. Sum((S \ {x}) \cup {x}, amount) = Sum(S \ {x}, amount) + amount[x]
  BY <1>1, SumAdd
<1> QED
  BY <1>1, <1>2, <1>3, SumType

\* Rows in groups, each within its group's bound, are together within the sum of the
\* bounds; below it, if one group is below its own.
LEMMA SumWithin ==
    ASSUME NEW I, IsFiniteSet(I), NEW bound, \A i \in I : bound[i] \in Nat,
           NEW S, IsFiniteSet(S), NEW group, NEW amount,
           \A x \in S : group[x] \in I /\ amount[x] \in Nat,
           \A i \in I : Sum({x \in S : group[x] = i}, amount) <= bound[i]
    PROVE  /\ Sum(S, amount) \in Nat /\ Sum(I, bound) \in Nat
           /\ Sum(S, amount) <= Sum(I, bound)
           /\ \A j \in I : Sum({x \in S : group[x] = j}, amount) < bound[j]
                             => Sum(S, amount) < Sum(I, bound)
<1> DEFINE cents(i) == CentsOf({x \in S : group[x] = i}, amount)
           size     == [i \in I |-> Cardinality(cents(i))]
           nth      == [i \in I |-> CHOOSE f : f \in Bijection(1..size[i], cents(i))]
           slots    == CentsOf(I, size)
           fill     == [c \in slots |-> nth[c[1]][c[2]]]
<1>1. ASSUME NEW i \in I
      PROVE  size[i] \in Nat /\ size[i] <= bound[i] /\ nth[i] \in Bijection(1..size[i], cents(i))
  <2>1. IsFiniteSet({x \in S : group[x] = i})  BY FS_Subset
  <2>2. IsFiniteSet(cents(i)) /\ Cardinality(cents(i)) \in Nat  BY <2>1, SumType DEF Sum
  <2>3. ExistsBijection(1..size[i], cents(i))
    <3> HIDE DEF cents
    <3> QED  BY <2>2, FS_CardinalityType
  <2>4. \E f : f \in Bijection(1..size[i], cents(i))  BY <2>3 DEF ExistsBijection
  <2>5. size[i] <= bound[i]  BY DEF Sum
  <2>6. nth[i] = CHOOSE f : f \in Bijection(1..size[i], cents(i))  OBVIOUS
  <2> HIDE DEF nth, size, cents
  <2>7. nth[i] \in Bijection(1..size[i], cents(i))  BY <2>4, <2>6
  <2> QED  BY <2>2, <2>5, <2>7 DEF size
<1>2. IsFiniteSet(slots) /\ IsFiniteSet(CentsOf(I, bound)) /\ Sum(I, bound) \in Nat
  <2> HIDE DEF size
  <2> QED  BY <1>1, SumType
<1>3. slots \subseteq CentsOf(I, bound)
  <2> HIDE DEF size
  <2>1. ASSUME NEW c \in slots PROVE c \in CentsOf(I, bound)
    <3>1. PICK i \in I : c \in {i} \X (1..size[i])  BY DEF CentsOf
    <3>2. size[i] \in Nat /\ bound[i] \in Nat /\ size[i] <= bound[i]  BY <1>1
    <3>3. 1..size[i] \subseteq 1..bound[i]
      <4> DEFINE a == size[i]
                 b == bound[i]
      <4> HIDE DEF a, b
      <4>1. a \in Nat /\ b \in Nat /\ a <= b  BY <3>2 DEF a, b
      <4>2. 1..a \subseteq 1..b  BY <4>1
      <4> QED  BY <4>2 DEF a, b
    <3>4. c \in {i} \X (1..bound[i])  BY <3>1, <3>3
    <3> QED  BY <3>4 DEF CentsOf
  <2> QED  BY <2>1
<1>4. fill \in Surjection(slots, CentsOf(S, amount))
  <2>1. ASSUME NEW c \in slots PROVE fill[c] \in CentsOf(S, amount)
    <3> HIDE DEF size, nth
    <3>1. PICK i \in I : \E k \in 1..size[i] : c = <<i, k>>  BY DEF CentsOf
    <3>2. PICK k \in 1..size[i] : c = <<i, k>>  BY <3>1
    <3>3. nth[i][k] \in cents(i)
      <4> HIDE DEF cents
      <4> QED  BY <1>1 DEF Bijection, Injection
    <3>4. cents(i) \subseteq CentsOf(S, amount)  BY DEF CentsOf
    <3> QED  BY <3>2, <3>3, <3>4
  <2>2. ASSUME NEW y \in CentsOf(S, amount) PROVE \E c \in slots : fill[c] = y
    <3>1. PICK x \in S : y \in {x} \X (1..amount[x])  BY DEF CentsOf
    <3>2. PICK i \in I : i = group[x]  OBVIOUS
    <3>3. y \in cents(i)  BY <3>1, <3>2 DEF CentsOf
    <3> HIDE DEF size, nth, cents
    <3>4. PICK k \in 1..size[i] : nth[i][k] = y
      BY <1>1, <3>3 DEF Bijection, Surjection
    <3>5. <<i, k>> \in slots  BY DEF CentsOf
    <3> QED  BY <3>4, <3>5
  <2>3. fill \in [slots -> CentsOf(S, amount)]  BY <2>1
  <2> HIDE DEF fill, slots
  <2> QED  BY <2>2, <2>3 DEF Surjection
<1>5. Sum(S, amount) \in Nat  BY SumType
<1>6. Cardinality(slots) \in Nat  BY <1>2, FS_CardinalityType
<1>7. Sum(S, amount) <= Cardinality(slots)
  <2> HIDE DEF fill, slots
  <2> QED  BY <1>2, <1>4, FS_Surjection DEF Sum
<1>8. Cardinality(slots) <= Sum(I, bound)
      /\ (Cardinality(slots) = Sum(I, bound) => slots = CentsOf(I, bound))
  <2> HIDE DEF slots
  <2> QED  BY <1>2, <1>3, FS_Subset DEF Sum
<1>9. ASSUME NEW j \in I, size[j] < bound[j] PROVE Sum(S, amount) < Sum(I, bound)
  <2> HIDE DEF size
  <2>1. <<j, bound[j]>> \in CentsOf(I, bound)
    <3>1. bound[j] \in 1..bound[j]
      <4>1. bound[j] \in Nat /\ size[j] \in Nat /\ size[j] < bound[j]  BY <1>1, <1>9
      <4> QED  BY <4>1
    <3> QED  BY <3>1 DEF CentsOf
  <2>2. <<j, bound[j]>> \notin slots
    <3>1. bound[j] \notin 1..size[j]
      <4>1. bound[j] \in Nat /\ size[j] \in Nat /\ size[j] < bound[j]  BY <1>1, <1>9
      <4> QED  BY <4>1
    <3> QED  BY <3>1 DEF CentsOf
  <2> HIDE DEF slots
  <2> QED  BY <1>2, <1>5, <1>6, <1>7, <1>8, <2>1, <2>2
<1>10. \A j \in I : size[j] = Sum({x \in S : group[x] = j}, amount)  BY DEF Sum
<1> HIDE DEF size, slots
<1> QED  BY <1>2, <1>5, <1>6, <1>7, <1>8, <1>9, <1>10

-----------------------------------------------------------------------------
ApiNext == Next \/ GenericStep

-----------------------------------------------------------------------------
(* Types.                                                                   *)

LEMMA InitType == Init => TypeOK
  BY DEF Init, TypeOK, NoOrder, NoPayment, NoRequest, NoRefund, NoView

LEMMA OrderStepType == TypeOK /\ OrderStep => TypeOK'
<1> SUFFICES ASSUME TypeOK, OrderStep PROVE TypeOK'
  OBVIOUS
<1> USE DEF TypeOK, MoveOrder, Submits, OrderStatus, PaymentStatus, Methods, NoOrder, NoPayment
<1>1. ASSUME NEW o \in Orders, NEW m \in Methods, Checkout(o, m) PROVE TypeOK'
  BY <1>1 DEF Checkout
<1>2. ASSUME NEW s \in Staff, NEW o \in Orders, StartProcessing(s, o) PROVE TypeOK'
  BY <1>2 DEF StartProcessing
<1>3. ASSUME NEW s \in Staff, NEW o \in Orders, ReadyShipped(s, o) PROVE TypeOK'
  BY <1>3 DEF ReadyShipped, Compatible, Uncollected
<1>4. ASSUME NEW o \in Orders, CancelEffect(o) PROVE TypeOK'
  BY <1>4 DEF CancelEffect, Compatible, Uncollected
<1>5. ASSUME NEW c \in Customers, NEW o \in Orders, ConfirmDelivery(c, o) PROVE TypeOK'
  BY <1>5 DEF ConfirmDelivery
<1> QED
  BY <1>1, <1>2, <1>3, <1>4, <1>5 DEF OrderStep, StaffCancel, CancelOrder

LEMMA RefundStepType == TypeOK /\ RefundStep => TypeOK'
<1> SUFFICES ASSUME TypeOK, RefundStep PROVE TypeOK'
  OBVIOUS
<1> USE DEF TypeOK, MoveRequest, RequestStatus, NoRequest
<1>1. ASSUME NEW c \in Customers, NEW r \in Requests, NEW i \in Items,
             NEW amount \in 1..Price[i], CreateRequest(c, r, i, amount)
      PROVE  TypeOK'
  <2>1. amount \in Nat \ {0}
    BY PriceAssumption
  <2> QED BY <1>1, <2>1 DEF CreateRequest
<1>2. ASSUME NEW s \in Staff, NEW r \in Requests, Approve(s, r) PROVE TypeOK'
  BY <1>2 DEF Approve
<1>3. ASSUME NEW s \in Staff, NEW r \in Requests, Reject(s, r) PROVE TypeOK'
  BY <1>3 DEF Reject
<1>4. ASSUME NEW s \in Staff, NEW r \in Requests, NEW f \in Refunds, Process(s, r, f)
      PROVE  TypeOK'
  <2> DEFINE i == request[r].item
             o == OrderOf[i]
  <2>1. i \in Items /\ request[r].amount \in Nat \ {0}
    BY <1>4 DEF Process
  <2>2. o \in Orders /\ order[o] # NoOrder /\ payment[o] # NoPayment
    BY <1>4, <2>1, RowsAssumption DEF Process, Eligible, NoOrder, NoPayment
  <2>3. request' \in [Requests -> {NoRequest} \cup
                       [status : RequestStatus, version : Nat \ {0},
                        item : Items, amount : Nat \ {0}]]
    BY <1>4 DEF Process
  <2>4. refund' \in [Refunds -> {NoRefund} \cup
                      [item : Items, amount : Nat \ {0}, request : Requests \cup {None}]]
    BY <1>4, <2>1 DEF Process, InsertRefund
  <2>5. payment' \in [Orders -> {NoPayment} \cup [method : Methods, status : PaymentStatus]]
    BY <1>4, <2>2 DEF Process, PaymentStatus, NoPayment
  <2>6. order' \in [Orders -> {NoOrder} \cup
                     [status : OrderStatus, version : Nat \ {0}, confirmed : BOOLEAN]]
    BY <1>4, <2>2 DEF Process, MoveOrder, OrderStatus, NoOrder
  <2> QED
    BY <1>4, <2>3, <2>4, <2>5, <2>6 DEF Process
<1> QED
  BY <1>1, <1>2, <1>3, <1>4 DEF RefundStep

LEMMA GenericStepType == TypeOK /\ GenericStep => TypeOK'
<1> SUFFICES ASSUME TypeOK, GenericStep PROVE TypeOK'
  OBVIOUS
<1>1. ASSUME NEW f \in Refunds, NEW i \in Items, NEW amount \in 1..Price[i],
             PostRefund(f, i, amount) \/ PutRefund(f, i, amount)
      PROVE  TypeOK'
  <2>1. amount \in Nat \ {0}
    BY PriceAssumption
  <2> QED BY <1>1, <2>1 DEF TypeOK, PostRefund, PutRefund, InsertRefund
<1>2. ASSUME NEW f \in Refunds, DeleteRefund(f) PROVE TypeOK'
  BY <1>2 DEF TypeOK, DeleteRefund
<1> QED
  BY <1>1, <1>2 DEF GenericStep

LEMMA OpenType ==
    ASSUME TypeOK, NEW c \in Clients, NEW row \in Rows, Open(c, row)
    PROVE  TypeOK'
<1>1. Version(row) \in Nat /\ Status(row) \in OrderStatus \cup RequestStatus
  BY DEF TypeOK, Open, Version, Status, Rows, NoOrder, NoRequest
<1> QED
  BY <1>1 DEF TypeOK, Open

LEMMA StepType == TypeOK /\ [ApiNext]_vars => TypeOK'
<1>1. TypeOK /\ UNCHANGED vars => TypeOK'
  BY DEF TypeOK, vars
<1> QED
  BY <1>1, OrderStepType, RefundStepType, GenericStepType, OpenType DEF ApiNext, Next

\* Every row keeps the columns of its table, whatever endpoints are used.
THEOREM ApiTypeCorrect == ApiSpec => []TypeOK
<1>1. ApiSpec => Init /\ [][ApiNext]_vars
  BY DEF ApiSpec, ApiNext
<1> QED
  BY <1>1, InitType, StepType, PTL

\* The application's own pages are a part of the endpoints.
LEMMA SpecIsApi == Spec => ApiSpec
<1>1. [Next]_vars => [Next \/ GenericStep]_vars
  OBVIOUS
<1> QED
  BY <1>1, PTL DEF Spec, ApiSpec

THEOREM TypeCorrect == Spec => []TypeOK
  BY SpecIsApi, ApiTypeCorrect, PTL

-----------------------------------------------------------------------------
(* What the sums become when one refund row is written.                     *)

LEMMA Finite == \A i : IsFiniteSet(RefundsOf(i)) /\ IsFiniteSet(ApprovedOf(i))
  BY RowsAssumption, FS_Subset DEF RefundsOf, ApprovedOf

LEMMA SumsAreNumbers ==
    ASSUME TypeOK, NEW i \in Items
    PROVE  /\ Refunded(i) \in Nat
           /\ \A X : Reserved(i, X) \in Nat
<1>1. \A f \in RefundsOf(i) : RefundAmounts[f] \in Nat
  BY DEF TypeOK, RefundsOf, RefundAmounts, NoRefund
<1>2. \A r \in ApprovedOf(i) : RequestAmounts[r] \in Nat
  BY DEF TypeOK, ApprovedOf, RequestAmounts, NoRequest
<1>3. ASSUME NEW X PROVE Reserved(i, X) \in Nat
  <2>1. IsFiniteSet(ApprovedOf(i) \ X)
    BY Finite, FS_Difference
  <2> QED BY <1>2, <2>1, SumType DEF Reserved
<1> QED
  BY <1>1, <1>3, Finite, SumType DEF Refunded

\* Row f now refunds amount of item i: it counts for i, and for nothing else.
LEMMA RowWritten ==
    ASSUME TypeOK, NEW f \in Refunds, NEW i \in Items, NEW amount \in Nat \ {0}, NEW r,
           refund' = [refund EXCEPT ![f] = [item |-> i, amount |-> amount, request |-> r]]
    PROVE  /\ Refunded(i)' = Sum(RefundsOf(i) \ {f}, RefundAmounts) + amount
           /\ \A j \in Items \ {i} : Refunded(j)' = Sum(RefundsOf(j) \ {f}, RefundAmounts)
<1> DEFINE others(j) == RefundsOf(j) \ {f}
<1>1. \A j \in Items : IsFiniteSet(others(j)) /\ f \notin others(j)
  BY Finite, FS_Difference
<1>2. \A j \in Items : RefundsOf(j)' = IF j = i THEN others(j) \cup {f} ELSE others(j)
  BY DEF TypeOK, RefundsOf
<1>3. RefundAmounts'[f] = amount
  BY DEF TypeOK, RefundAmounts
<1>4. \A j \in Items : \A g \in others(j) :
        RefundAmounts'[g] = RefundAmounts[g] /\ RefundAmounts'[g] \in Nat
  BY DEF TypeOK, RefundAmounts, RefundsOf, NoRefund
<1>5. \A j \in Items : Sum(others(j), RefundAmounts') = Sum(others(j), RefundAmounts)
  <2> SUFFICES ASSUME NEW j \in Items
               PROVE  Sum(others(j), RefundAmounts') = Sum(others(j), RefundAmounts)
    OBVIOUS
  <2>1. \A g \in others(j) : RefundAmounts'[g] = RefundAmounts[g]
    BY <1>4
  <2> HIDE DEF others
  <2> QED BY <2>1, SumSame
<1>6. Sum(others(i) \cup {f}, RefundAmounts') = Sum(others(i), RefundAmounts') + RefundAmounts'[f]
  <2>1. \A g \in others(i) \cup {f} : RefundAmounts'[g] \in Nat
    BY <1>3, <1>4
  <2> HIDE DEF others
  <2> QED BY <1>1, <2>1, SumAdd
<1>7. Refunded(i)' = Sum(others(i) \cup {f}, RefundAmounts')
  BY <1>2 DEF Refunded
<1>8. \A j \in Items \ {i} : Refunded(j)' = Sum(others(j), RefundAmounts')
  BY <1>2 DEF Refunded
<1>9. Refunded(i)' = Sum(others(i), RefundAmounts) + amount
  <2> HIDE DEF others
  <2> QED BY <1>3, <1>5, <1>6, <1>7
<1> QED
  BY <1>5, <1>8, <1>9

\* An unused row counted for nothing.
LEMMA InsertNew ==
    ASSUME TypeOK, NEW f \in Refunds, NEW i \in Items, NEW amount \in Nat \ {0}, NEW r,
           InsertRefund(f, i, amount, r)
    PROVE  /\ Refunded(i)' = Refunded(i) + amount
           /\ \A j \in Items \ {i} : Refunded(j)' = Refunded(j)
<1>1. \A j \in Items : RefundsOf(j) \ {f} = RefundsOf(j)
  BY RowsAssumption DEF InsertRefund, RefundsOf, NoRefund
<1>2. refund' = [refund EXCEPT ![f] = [item |-> i, amount |-> amount, request |-> r]]
  BY DEF InsertRefund
<1>3. /\ Refunded(i)' = Sum(RefundsOf(i) \ {f}, RefundAmounts) + amount
      /\ \A j \in Items \ {i} : Refunded(j)' = Sum(RefundsOf(j) \ {f}, RefundAmounts)
  BY <1>2, RowWritten
<1>4. \A j \in Items : Sum(RefundsOf(j) \ {f}, RefundAmounts) = Refunded(j)
  BY <1>1 DEF Refunded
<1> QED
  BY <1>3, <1>4

\* Taking a row out of an item's sum never makes it larger.
LEMMA LessOneRefund ==
    ASSUME TypeOK, NEW f \in Refunds, NEW j \in Items
    PROVE  /\ Sum(RefundsOf(j) \ {f}, RefundAmounts) \in Nat
           /\ Sum(RefundsOf(j) \ {f}, RefundAmounts) <= Refunded(j)
<1>1. CASE f \in RefundsOf(j)
  <2>1. \A g \in RefundsOf(j) : RefundAmounts[g] \in Nat
    BY DEF TypeOK, RefundsOf, RefundAmounts, NoRefund
  <2>2. /\ Refunded(j) = Sum(RefundsOf(j) \ {f}, RefundAmounts) + RefundAmounts[f]
        /\ Sum(RefundsOf(j) \ {f}, RefundAmounts) \in Nat
    BY <1>1, <2>1, Finite, SumRemove DEF Refunded
  <2> QED BY <1>1, <2>1, <2>2
<1>2. CASE f \notin RefundsOf(j)
  <2>1. RefundsOf(j) \ {f} = RefundsOf(j)
    BY <1>2
  <2> QED BY <2>1, SumsAreNumbers DEF Refunded
<1> QED
  BY <1>1, <1>2

LEMMA OthersWithinPrice ==
    ASSUME TypeOK, RefundsWithinPrice, NEW f \in Refunds, NEW j \in Items
    PROVE  Sum(RefundsOf(j) \ {f}, RefundAmounts) <= Price[j]
<1>1. /\ Sum(RefundsOf(j) \ {f}, RefundAmounts) \in Nat
      /\ Sum(RefundsOf(j) \ {f}, RefundAmounts) <= Refunded(j)
  BY LessOneRefund
<1>2. Refunded(j) \in Nat /\ Price[j] \in Nat
  BY SumsAreNumbers, PriceAssumption
<1>3. Refunded(j) <= Price[j]
  BY DEF RefundsWithinPrice
<1> QED
  BY <1>1, <1>2, <1>3

-----------------------------------------------------------------------------
(* Refunds never exceed the price.                                          *)

\* Steps that write no refund row leave every sum of refunds alone.
LEMMA RefundedUnchanged == UNCHANGED refund => \A i : Refunded(i)' = Refunded(i)
  BY DEF Refunded, RefundsOf, RefundAmounts

LEMMA ProcessInserts ==
    ASSUME TypeOK, NEW s \in Staff, NEW r \in Requests, NEW f \in Refunds, Process(s, r, f)
    PROVE  /\ request[r].item \in Items
           /\ request[r].amount \in Nat \ {0}
           /\ InsertRefund(f, request[r].item, request[r].amount, r)
           /\ request[r].amount <= Remaining(request[r].item, Refunded(request[r].item))
  BY DEF TypeOK, Process, NoRequest

LEMMA StepWithinPrice == TypeOK /\ RefundsWithinPrice /\ [ApiNext]_vars => RefundsWithinPrice'
<1> SUFFICES ASSUME TypeOK, RefundsWithinPrice, [ApiNext]_vars PROVE RefundsWithinPrice'
  OBVIOUS
<1>1. CASE UNCHANGED refund
  BY <1>1, RefundedUnchanged DEF RefundsWithinPrice
<1>2. ASSUME NEW f \in Refunds, NEW i \in Items, NEW amount \in Nat \ {0}, NEW r,
             InsertRefund(f, i, amount, r), Refunded(i) + amount <= Price[i]
      PROVE  RefundsWithinPrice'
  <2>1. /\ Refunded(i)' = Refunded(i) + amount
        /\ \A j \in Items \ {i} : Refunded(j)' = Refunded(j)
    BY <1>2, InsertNew
  <2> QED BY <1>2, <2>1 DEF RefundsWithinPrice
<1>3. ASSUME NEW s \in Staff, NEW r \in Requests, NEW f \in Refunds, Process(s, r, f)
      PROVE  RefundsWithinPrice'
  <2>1. PICK i \in Items, amount \in Nat \ {0} :
          /\ InsertRefund(f, i, amount, r)
          /\ amount <= Remaining(i, Refunded(i))
    BY <1>3, ProcessInserts
  <2>2. Refunded(i) + amount <= Price[i]
    BY <2>1, SumsAreNumbers, PriceAssumption DEF Remaining
  <2> QED BY <1>2, <2>1, <2>2
<1>4. ASSUME NEW f \in Refunds, NEW i \in Items, NEW amount \in 1..Price[i],
             PostRefund(f, i, amount)
      PROVE  RefundsWithinPrice'
  <2>1. amount \in Nat \ {0}
    BY PriceAssumption
  <2> QED BY <1>2, <1>4, <2>1 DEF PostRefund
<1>5. ASSUME NEW f \in Refunds, NEW i \in Items, NEW amount \in 1..Price[i],
             PutRefund(f, i, amount)
      PROVE  RefundsWithinPrice'
  <2>1. amount \in Nat \ {0}
    BY PriceAssumption
  <2>2. /\ Refunded(i)' = Sum(RefundsOf(i) \ {f}, RefundAmounts) + amount
        /\ \A j \in Items \ {i} : Refunded(j)' = Sum(RefundsOf(j) \ {f}, RefundAmounts)
    BY <1>5, <2>1, RowWritten DEF PutRefund
  <2>3. Refunded(i)' <= Price[i]
    BY <1>5, <2>2 DEF PutRefund
  <2>4. ASSUME NEW j \in Items \ {i} PROVE Refunded(j)' <= Price[j]
    BY <2>2, OthersWithinPrice
  <2> QED BY <2>3, <2>4 DEF RefundsWithinPrice
<1>6. ASSUME NEW f \in Refunds, DeleteRefund(f) PROVE RefundsWithinPrice'
  <2>1. \A j \in Items : Refunded(j)' = Sum(RefundsOf(j) \ {f}, RefundAmounts)
    <3> SUFFICES ASSUME NEW j \in Items
                 PROVE  Refunded(j)' = Sum(RefundsOf(j) \ {f}, RefundAmounts)
      OBVIOUS
    <3>1. RefundsOf(j)' = RefundsOf(j) \ {f}
      BY <1>6, RowsAssumption DEF DeleteRefund, RefundsOf, TypeOK, NoRefund
    <3>2. \A g \in RefundsOf(j) \ {f} : RefundAmounts'[g] = RefundAmounts[g]
      BY <1>6 DEF DeleteRefund, RefundAmounts, RefundsOf, TypeOK
    <3>3. Sum(RefundsOf(j) \ {f}, RefundAmounts') = Sum(RefundsOf(j) \ {f}, RefundAmounts)
      BY <3>2, SumSame
    <3> QED BY <3>1, <3>3 DEF Refunded
  <2> QED
    BY <2>1, OthersWithinPrice DEF RefundsWithinPrice
<1>7. CASE Next
  <2>1. ASSUME NEW c \in Clients, NEW row \in Rows, Open(c, row) PROVE UNCHANGED refund
    BY <2>1 DEF Open
  <2>2. CASE OrderStep
    <3>1. UNCHANGED refund
      BY <2>2 DEF OrderStep, Checkout, StartProcessing, ReadyShipped, StaffCancel,
                  CancelOrder, CancelEffect, ConfirmDelivery
    <3> QED BY <1>1, <3>1
  <2>3. CASE RefundStep
    BY <1>1, <1>3, <2>3 DEF RefundStep, CreateRequest, Approve, Reject
  <2> QED BY <1>1, <1>7, <2>1, <2>2, <2>3 DEF Next
<1>8. CASE GenericStep
  BY <1>4, <1>5, <1>6, <1>8 DEF GenericStep
<1> QED
  BY <1>1, <1>7, <1>8 DEF ApiNext, vars

LEMMA InitWithinPrice == Init => RefundsWithinPrice
<1> SUFFICES ASSUME Init, NEW i \in Items PROVE Refunded(i) <= Price[i]
  BY DEF RefundsWithinPrice
<1>1. RefundsOf(i) = {}
  BY RowsAssumption DEF Init, RefundsOf, NoRefund
<1> QED
  BY <1>1, SumEmpty, PriceAssumption DEF Refunded

\* No mixture of refund requests and directly posted refunds ever returns more
\* for an item than was paid for it.
THEOREM RefundsNeverExceedPrice == ApiSpec => []RefundsWithinPrice
<1>1. ApiSpec => Init /\ [][ApiNext]_vars
  BY DEF ApiSpec, ApiNext
<1> QED
  BY <1>1, InitWithinPrice, StepWithinPrice, ApiTypeCorrect, PTL

-----------------------------------------------------------------------------
(* What is reserved, when requests are made, approved, rejected or processed. *)

\* Requests that are not approved, before or after, reserve nothing.
LEMMA ReservedUnchanged ==
    ASSUME TypeOK, NEW i,
           \A r \in Requests : request[r].status = "approved" \/ request'[r].status = "approved"
                                 => request'[r] = request[r]
    PROVE  Reserved(i, {})' = Reserved(i, {})
<1>1. ApprovedOf(i)' = ApprovedOf(i)
  BY DEF ApprovedOf
<1>2. \A r \in ApprovedOf(i) \ {} : RequestAmounts'[r] = RequestAmounts[r]
  BY DEF ApprovedOf, RequestAmounts
<1>3. Sum(ApprovedOf(i) \ {}, RequestAmounts') = Sum(ApprovedOf(i) \ {}, RequestAmounts)
  BY <1>2, SumSame
<1> QED
  BY <1>1, <1>3 DEF Reserved

\* Approving a request reserves its amount of its item.
LEMMA ApproveReserves ==
    ASSUME TypeOK, NEW r \in Requests, NEW i \in Items, request[r].item = i,
           request[r].status = "pending",
           MoveRequest(r, "approved")
    PROVE  /\ Reserved(i, {r}) = Reserved(i, {})
           /\ Reserved(i, {})' = Reserved(i, {}) + request[r].amount
           /\ \A j \in Items \ {i} : Reserved(j, {})' = Reserved(j, {})
<1>1. /\ r \notin ApprovedOf(i)
      /\ ApprovedOf(i)' = ApprovedOf(i) \cup {r}
      /\ \A j \in Items \ {i} : ApprovedOf(j)' = ApprovedOf(j)
  BY DEF ApprovedOf, MoveRequest, TypeOK
<1>2. \A q \in Requests : RequestAmounts'[q] = RequestAmounts[q]
  BY DEF RequestAmounts, MoveRequest, TypeOK
<1>3. \A q \in ApprovedOf(i) \cup {r} : RequestAmounts[q] \in Nat
  BY DEF RequestAmounts, ApprovedOf, TypeOK, NoRequest
<1>4. Sum(ApprovedOf(i) \cup {r}, RequestAmounts) = Sum(ApprovedOf(i), RequestAmounts) + RequestAmounts[r]
  BY <1>1, <1>3, Finite, SumAdd
<1>5. \A q \in ApprovedOf(i) \cup {r} : RequestAmounts'[q] = RequestAmounts[q]
  BY <1>2 DEF ApprovedOf
<1>6. Sum(ApprovedOf(i) \cup {r}, RequestAmounts') = Sum(ApprovedOf(i) \cup {r}, RequestAmounts)
  BY <1>5, SumSame
<1>7. ASSUME NEW j \in Items \ {i} PROVE Reserved(j, {})' = Reserved(j, {})
  <2>1. \A q \in ApprovedOf(j) : RequestAmounts'[q] = RequestAmounts[q]
    BY <1>2 DEF ApprovedOf
  <2>2. Sum(ApprovedOf(j), RequestAmounts') = Sum(ApprovedOf(j), RequestAmounts)
    BY <2>1, SumSame
  <2>3. ApprovedOf(j) \ {} = ApprovedOf(j) /\ (ApprovedOf(j) \ {})' = ApprovedOf(j)
    BY <1>1
  <2> QED BY <2>2, <2>3 DEF Reserved
<1>8. ApprovedOf(i) \ {} = ApprovedOf(i) /\ ApprovedOf(i) \ {r} = ApprovedOf(i)
      /\ (ApprovedOf(i)') \ {} = ApprovedOf(i) \cup {r}
  BY <1>1
<1>9. RequestAmounts[r] = request[r].amount
  BY DEF RequestAmounts
<1>10. Reserved(i, {r}) = Sum(ApprovedOf(i), RequestAmounts)
       /\ Reserved(i, {}) = Sum(ApprovedOf(i), RequestAmounts)
  BY <1>8 DEF Reserved
<1>11. Reserved(i, {})' = Sum(ApprovedOf(i) \cup {r}, RequestAmounts')
  BY <1>8, <1>1 DEF Reserved
<1> QED
  BY <1>4, <1>6, <1>7, <1>9, <1>10, <1>11

\* Processing it gives the reservation up.
LEMMA ProcessReleases ==
    ASSUME TypeOK, NEW r \in Requests, NEW i \in Items, request[r].item = i,
           request[r].status = "approved",
           MoveRequest(r, "processed")
    PROVE  /\ Reserved(i, {}) = Reserved(i, {})' + request[r].amount
           /\ Reserved(i, {})' \in Nat
           /\ \A j \in Items \ {i} : Reserved(j, {})' = Reserved(j, {})
<1>1. /\ r \in ApprovedOf(i)
      /\ ApprovedOf(i)' = ApprovedOf(i) \ {r}
      /\ \A j \in Items \ {i} : ApprovedOf(j)' = ApprovedOf(j)
  BY DEF ApprovedOf, MoveRequest, TypeOK
<1>2. \A q \in Requests : RequestAmounts'[q] = RequestAmounts[q]
  BY DEF RequestAmounts, MoveRequest, TypeOK
<1>3. \A q \in ApprovedOf(i) : RequestAmounts[q] \in Nat
  BY DEF RequestAmounts, ApprovedOf, TypeOK, NoRequest
<1>4. /\ Sum(ApprovedOf(i), RequestAmounts) = Sum(ApprovedOf(i) \ {r}, RequestAmounts) + RequestAmounts[r]
      /\ Sum(ApprovedOf(i) \ {r}, RequestAmounts) \in Nat
  BY <1>1, <1>3, Finite, SumRemove
<1>5. \A q \in ApprovedOf(i) \ {r} : RequestAmounts'[q] = RequestAmounts[q]
  BY <1>2 DEF ApprovedOf
<1>6. Sum(ApprovedOf(i) \ {r}, RequestAmounts') = Sum(ApprovedOf(i) \ {r}, RequestAmounts)
  BY <1>5, SumSame
<1>7. ASSUME NEW j \in Items \ {i} PROVE Reserved(j, {})' = Reserved(j, {})
  <2>1. \A q \in ApprovedOf(j) : RequestAmounts'[q] = RequestAmounts[q]
    BY <1>2 DEF ApprovedOf
  <2>2. Sum(ApprovedOf(j), RequestAmounts') = Sum(ApprovedOf(j), RequestAmounts)
    BY <2>1, SumSame
  <2>3. ApprovedOf(j) \ {} = ApprovedOf(j) /\ (ApprovedOf(j) \ {})' = ApprovedOf(j)
    BY <1>1
  <2> QED BY <2>2, <2>3 DEF Reserved
<1>8. ApprovedOf(i) \ {} = ApprovedOf(i) /\ (ApprovedOf(i)') \ {} = ApprovedOf(i) \ {r}
  BY <1>1
<1>9. RequestAmounts[r] = request[r].amount
  BY DEF RequestAmounts
<1>10. Reserved(i, {}) = Sum(ApprovedOf(i), RequestAmounts)
  BY <1>8 DEF Reserved
<1>11. Reserved(i, {})' = Sum(ApprovedOf(i) \ {r}, RequestAmounts')
  BY <1>8 DEF Reserved
<1> QED
  BY <1>4, <1>6, <1>7, <1>9, <1>10, <1>11

-----------------------------------------------------------------------------
(* Reservations are covered, by the application's own pages.                *)

LEMMA StepCovered == TypeOK /\ ReservationsCovered /\ [Next]_vars => ReservationsCovered'
<1> SUFFICES ASSUME TypeOK, ReservationsCovered, [Next]_vars PROVE ReservationsCovered'
  OBVIOUS
<1>1. ASSUME UNCHANGED refund,
             \A r \in Requests : request[r].status = "approved" \/ request'[r].status = "approved"
                                   => request'[r] = request[r]
      PROVE  ReservationsCovered'
  BY <1>1, RefundedUnchanged, ReservedUnchanged DEF ReservationsCovered
<1>2. ASSUME NEW s \in Staff, NEW r \in Requests, Approve(s, r) PROVE ReservationsCovered'
  <2>1. PICK i \in Items, amount \in Nat \ {0} : i = request[r].item /\ amount = request[r].amount
    BY <1>2 DEF Approve, TypeOK, NoRequest
  <2>2. /\ Reserved(i, {r}) = Reserved(i, {})
        /\ Reserved(i, {})' = Reserved(i, {}) + amount
        /\ \A j \in Items \ {i} : Reserved(j, {})' = Reserved(j, {})
    BY <1>2, <2>1, ApproveReserves DEF Approve
  <2>3. amount <= Remaining(i, Refunded(i) + Reserved(i, {r}))
    BY <1>2, <2>1 DEF Approve
  <2>4. \A j \in Items : Refunded(j)' = Refunded(j)
    BY <1>2, RefundedUnchanged DEF Approve
  <2>5. Refunded(i) \in Nat /\ Reserved(i, {}) \in Nat /\ Price[i] \in Nat
    BY <2>1, SumsAreNumbers, PriceAssumption
  <2>6. Refunded(i) + Reserved(i, {}) + amount <= Price[i]
    BY <2>1, <2>2, <2>3, <2>5 DEF Remaining
  <2>7. Refunded(i)' + Reserved(i, {})' <= Price[i]
    BY <2>1, <2>2, <2>4, <2>5, <2>6
  <2> QED BY <2>1, <2>2, <2>4, <2>7 DEF ReservationsCovered
<1>3. ASSUME NEW s \in Staff, NEW r \in Requests, NEW f \in Refunds, Process(s, r, f)
      PROVE  ReservationsCovered'
  <2>1. PICK i \in Items, amount \in Nat \ {0} :
          /\ i = request[r].item /\ amount = request[r].amount
          /\ InsertRefund(f, i, amount, r)
    BY <1>3, ProcessInserts
  <2>2. /\ Reserved(i, {}) = Reserved(i, {})' + amount
        /\ Reserved(i, {})' \in Nat
        /\ \A j \in Items \ {i} : Reserved(j, {})' = Reserved(j, {})
    BY <1>3, <2>1, ProcessReleases DEF Process
  <2>3. /\ Refunded(i)' = Refunded(i) + amount
        /\ \A j \in Items \ {i} : Refunded(j)' = Refunded(j)
    BY <2>1, InsertNew
  <2>4. Refunded(i) \in Nat /\ Refunded(i) + Reserved(i, {}) <= Price[i]
    BY <2>1, SumsAreNumbers DEF ReservationsCovered
  <2>5. Refunded(i)' + Reserved(i, {})' <= Price[i]
    BY <2>1, <2>2, <2>3, <2>4
  <2> QED BY <2>1, <2>2, <2>3, <2>5 DEF ReservationsCovered
<1>4. ASSUME NEW c \in Clients, NEW row \in Rows, Open(c, row) PROVE ReservationsCovered'
  BY <1>1, <1>4 DEF Open
<1>5. CASE OrderStep
  <2>1. UNCHANGED <<request, refund>>
    BY <1>5 DEF OrderStep, Checkout, StartProcessing, ReadyShipped, StaffCancel,
                CancelOrder, CancelEffect, ConfirmDelivery
  <2> QED BY <1>1, <2>1
<1>6. ASSUME NEW c \in Customers, NEW r \in Requests, NEW i \in Items, NEW amount \in 1..Price[i],
             CreateRequest(c, r, i, amount)
      PROVE  ReservationsCovered'
  BY <1>1, <1>6 DEF CreateRequest, TypeOK, NoRequest
<1>7. ASSUME NEW s \in Staff, NEW r \in Requests, Reject(s, r) PROVE ReservationsCovered'
  BY <1>1, <1>7 DEF Reject, MoveRequest, TypeOK
<1>8. CASE UNCHANGED vars
  BY <1>1, <1>8 DEF vars
<1> QED
  BY <1>2, <1>3, <1>4, <1>5, <1>6, <1>7, <1>8 DEF Next, RefundStep

LEMMA InitCovered == Init => ReservationsCovered
<1> SUFFICES ASSUME Init, NEW i \in Items PROVE Refunded(i) + Reserved(i, {}) <= Price[i]
  BY DEF ReservationsCovered
<1>1. RefundsOf(i) = {} /\ ApprovedOf(i) \ {} = {}
  BY RowsAssumption DEF Init, RefundsOf, NoRefund, ApprovedOf, NoRequest
<1>2. Refunded(i) = 0 /\ Reserved(i, {}) = 0
  BY <1>1, SumEmpty DEF Refunded, Reserved
<1> QED
  BY <1>2, PriceAssumption

\* However many requests are approved for an item, and in whatever order they
\* are processed, their amounts fit beside its refunds in the item's price.
THEOREM ApprovalsAreCovered == Spec => []ReservationsCovered
  BY InitCovered, StepCovered, TypeCorrect, PTL DEF Spec

-----------------------------------------------------------------------------
(* Payments follow their orders, whatever endpoints are used.               *)

LEMMA StepFollows == TypeOK /\ PaymentFollowsOrder /\ [ApiNext]_vars => PaymentFollowsOrder'
<1> SUFFICES ASSUME TypeOK, PaymentFollowsOrder, [ApiNext]_vars PROVE PaymentFollowsOrder'
  OBVIOUS
<1>1. CASE UNCHANGED <<order, payment>>
  BY <1>1 DEF PaymentFollowsOrder
<1>2. CASE OrderStep
  <2> USE DEF TypeOK, PaymentFollowsOrder, MoveOrder, NoOrder, NoPayment
  <2>1. ASSUME NEW o \in Orders, NEW m \in Methods, Checkout(o, m) PROVE PaymentFollowsOrder'
    BY <2>1 DEF Checkout, Methods
  <2>2. ASSUME NEW s \in Staff, NEW o \in Orders, StartProcessing(s, o) PROVE PaymentFollowsOrder'
    BY <2>2 DEF StartProcessing
  <2>3. ASSUME NEW s \in Staff, NEW o \in Orders, ReadyShipped(s, o) PROVE PaymentFollowsOrder'
    BY <2>3 DEF ReadyShipped
  <2>4. ASSUME NEW o \in Orders, CancelEffect(o) PROVE PaymentFollowsOrder'
    BY <2>4 DEF CancelEffect, Compatible, Uncollected, Methods
  <2>5. ASSUME NEW c \in Customers, NEW o \in Orders, ConfirmDelivery(c, o)
        PROVE  PaymentFollowsOrder'
    BY <2>5 DEF ConfirmDelivery
  <2> QED
    BY <1>2, <2>1, <2>2, <2>3, <2>4, <2>5 DEF OrderStep, StaffCancel, CancelOrder
<1>3. ASSUME NEW s \in Staff, NEW r \in Requests, NEW f \in Refunds, Process(s, r, f)
      PROVE  PaymentFollowsOrder'
  <2>1. PICK o \in Orders :
          /\ order[o].status \in {"ready_shipped", "delivered"}
          /\ \/ /\ payment' = [payment EXCEPT ![o].status = "refunded"]
                /\ MoveOrder(o, "refunded")
             \/ /\ payment' = [payment EXCEPT ![o].status = "partially_refunded"]
                /\ UNCHANGED order
    BY <1>3, ProcessInserts, RowsAssumption DEF Process, Eligible
  <2> QED
    BY <2>1 DEF TypeOK, PaymentFollowsOrder, MoveOrder, NoOrder, NoPayment
<1> QED
  BY <1>1, <1>2, <1>3
     DEF ApiNext, Next, vars, Open, RefundStep, GenericStep, CreateRequest, Approve, Reject,
         PostRefund, PutRefund, DeleteRefund

LEMMA InitFollows == Init => PaymentFollowsOrder
  BY DEF Init, PaymentFollowsOrder, NoOrder

\* Cash is collected by the time the parcel is shipped, and a cancelled order
\* gave back exactly what had been collected.
THEOREM PaymentsFollowOrders == ApiSpec => []PaymentFollowsOrder
<1>1. ApiSpec => Init /\ [][ApiNext]_vars
  BY DEF ApiSpec, ApiNext
<1> QED
  BY <1>1, InitFollows, StepFollows, ApiTypeCorrect, PTL

-----------------------------------------------------------------------------
(* A request is paid at most once.                                          *)

LEMMA StepOneRefund == TypeOK /\ OneRefundPerRequest /\ [ApiNext]_vars => OneRefundPerRequest'
<1> SUFFICES ASSUME TypeOK, OneRefundPerRequest, [ApiNext]_vars,
                    NEW q \in Requests
             PROVE  LET paid == {f \in Refunds : refund'[f].request = q} IN
                    IF request'[q].status = "processed"
                      THEN \E f \in paid : /\ paid = {f}
                                           /\ refund'[f].item = request'[q].item
                                           /\ refund'[f].amount = request'[q].amount
                      ELSE paid = {}
  BY DEF OneRefundPerRequest
<1> DEFINE Paid(rows) == {f \in Refunds : rows[f].request = q}
           Good == IF request[q].status = "processed"
                     THEN \E f \in Paid(refund) : /\ Paid(refund) = {f}
                                                  /\ refund[f].item = request[q].item
                                                  /\ refund[f].amount = request[q].amount
                     ELSE Paid(refund) = {}
<1>0. Good
  BY DEF OneRefundPerRequest
<1>1. CASE UNCHANGED <<request, refund>>
  BY <1>0, <1>1
<1>2. ASSUME UNCHANGED refund, NEW r \in Requests, request[r].status # "processed",
             request'[r].status # "processed",
             \A p \in Requests \ {r} : request'[p] = request[p]
      PROVE  Good'
  BY <1>0, <1>2
<1>3. ASSUME NEW s \in Staff, NEW r \in Requests, NEW f \in Refunds, Process(s, r, f)
      PROVE  Good'
  <2>1. PICK i \in Items, amount \in Nat \ {0} :
          /\ i = request[r].item /\ amount = request[r].amount
          /\ InsertRefund(f, i, amount, r)
    BY <1>3, ProcessInserts
  <2>2. /\ refund' = [refund EXCEPT ![f] = [item |-> i, amount |-> amount, request |-> r]]
        /\ refund[f].request = None /\ None \notin Requests
    BY <2>1, RowsAssumption DEF InsertRefund, NoRefund
  <2>3. /\ request[r].status = "approved"
        /\ request'[r].status = "processed" /\ request'[r].item = i /\ request'[r].amount = amount
        /\ \A p \in Requests \ {r} : request'[p] = request[p]
    BY <1>3, <2>1 DEF Process, MoveRequest, TypeOK
  <2>4. CASE q = r
    <3>1. Paid(refund) = {}
      BY <1>0, <2>3, <2>4
    <3>2. Paid(refund') = {f} /\ refund'[f].item = i /\ refund'[f].amount = amount
      BY <2>2, <2>4, <3>1 DEF TypeOK
    <3> QED BY <2>3, <2>4, <3>2
  <2>5. CASE q # r
    <3>1. Paid(refund') = Paid(refund)
      BY <2>2, <2>5 DEF TypeOK
    <3>2. \A g \in Paid(refund) : refund'[g] = refund[g]
      BY <2>2 DEF TypeOK
    <3>3. request'[q] = request[q]
      BY <2>3, <2>5
    <3> QED BY <1>0, <3>1, <3>2, <3>3
  <2> QED BY <2>4, <2>5
<1>4. ASSUME UNCHANGED request, NEW f \in Refunds,
             refund[f].request = None, refund'[f].request = None,
             \A g \in Refunds \ {f} : refund'[g] = refund[g]
      PROVE  Good'
  <2>1. None # q
    BY RowsAssumption
  <2>2. Paid(refund') = Paid(refund) /\ \A g \in Paid(refund) : refund'[g] = refund[g]
    BY <1>4, <2>1
  <2> QED BY <1>0, <1>4, <2>2
<1>5. ASSUME NEW c \in Customers, NEW r \in Requests, NEW i \in Items, NEW amount \in 1..Price[i],
             CreateRequest(c, r, i, amount)
      PROVE  Good'
  BY <1>2, <1>5 DEF CreateRequest, TypeOK, NoRequest
<1>6. ASSUME NEW s \in Staff, NEW r \in Requests, Approve(s, r) \/ Reject(s, r) PROVE Good'
  <2>1. UNCHANGED refund /\ request[r].status = "pending"
    BY <1>6 DEF Approve, Reject
  <2>2. PICK status \in {"approved", "rejected"} : MoveRequest(r, status)
    BY <1>6 DEF Approve, Reject
  <2>3. request'[r].status # "processed" /\ \A p \in Requests \ {r} : request'[p] = request[p]
    BY <2>2 DEF MoveRequest, TypeOK
  <2> QED BY <1>2, <2>1, <2>3
<1>7. CASE GenericStep
  <2>1. ASSUME NEW f \in Refunds, NEW i \in Items, NEW amount \in 1..Price[i],
               PostRefund(f, i, amount)
        PROVE  Good'
    BY <1>4, <2>1 DEF PostRefund, InsertRefund, TypeOK, NoRefund
  <2>2. ASSUME NEW f \in Refunds, NEW i \in Items, NEW amount \in 1..Price[i],
               PutRefund(f, i, amount)
        PROVE  Good'
    BY <1>4, <2>2 DEF PutRefund, TypeOK
  <2>3. ASSUME NEW f \in Refunds, DeleteRefund(f) PROVE Good'
    BY <1>4, <2>3 DEF DeleteRefund, TypeOK, NoRefund
  <2> QED BY <1>7, <2>1, <2>2, <2>3 DEF GenericStep
<1>8. CASE OrderStep
  BY <1>1, <1>8 DEF OrderStep, Checkout, StartProcessing, ReadyShipped, StaffCancel,
                    CancelOrder, CancelEffect, ConfirmDelivery
<1> QED
  BY <1>1, <1>3, <1>5, <1>6, <1>7, <1>8 DEF ApiNext, Next, vars, Open, RefundStep

LEMMA InitOneRefund == Init => OneRefundPerRequest
  BY RowsAssumption DEF Init, OneRefundPerRequest, NoRequest, NoRefund

\* Two staff members who process the same request, or one who submits it twice,
\* pay it once; and nobody pays a request that was never approved.
THEOREM RequestsPaidOnce == ApiSpec => []OneRefundPerRequest
<1>1. ApiSpec => Init /\ [][ApiNext]_vars
  BY DEF ApiSpec, ApiNext
<1> QED
  BY <1>1, InitOneRefund, StepOneRefund, ApiTypeCorrect, PTL

-----------------------------------------------------------------------------
(* What went back of an order.                                              *)

RefundRow  == {NoRefund} \cup [item : Items, amount : Nat \ {0}, request : Requests \cup {None}]
RequestRow == {NoRequest} \cup [status : RequestStatus, version : Nat \ {0},
                                item : Items, amount : Nat \ {0}]

\* It is within what the order cost, and below it while one of its items is not
\* refunded in full.
LEMMA BackWithin ==
    ASSUME NEW rows \in [Refunds -> RefundRow], NEW o \in Orders,
           \A i \in Items : Sum({f \in Refunds : rows[f].item = i}, [f \in Refunds |-> rows[f].amount]) <= Price[i]
    PROVE  /\ OrderRefunded(o, rows) \in Nat /\ OrderTotal(o) \in Nat \ {0}
           /\ OrderRefunded(o, rows) <= OrderTotal(o)
           /\ \A i \in ItemsOf(o) :
                Sum({f \in Refunds : rows[f].item = i}, [f \in Refunds |-> rows[f].amount]) < Price[i]
                  => OrderRefunded(o, rows) < OrderTotal(o)
<1> DEFINE S      == {f \in Refunds : rows[f].item \in ItemsOf(o)}
           item   == [f \in Refunds |-> rows[f].item]
           amount == [f \in Refunds |-> rows[f].amount]
           I      == ItemsOf(o)
<1>1. IsFiniteSet(I) /\ IsFiniteSet(S) /\ I \subseteq Items
  BY RowsAssumption, FS_Subset DEF ItemsOf
<1>2. \A i \in I : Price[i] \in Nat
  BY <1>1, PriceAssumption
<1>3. \A f \in S : item[f] \in I /\ amount[f] \in Nat
  BY RowsAssumption DEF RefundRow, NoRefund, ItemsOf
<1>4. \A i \in I : {f \in S : item[f] = i} = {f \in Refunds : rows[f].item = i}
  OBVIOUS
<1>5. \A i \in I : Sum({f \in S : item[f] = i}, amount) <= Price[i]
  BY <1>1, <1>4
<1>6. /\ Sum(S, amount) \in Nat /\ Sum(I, Price) \in Nat
      /\ Sum(S, amount) <= Sum(I, Price)
      /\ \A j \in I : Sum({f \in S : item[f] = j}, amount) < Price[j] => Sum(S, amount) < Sum(I, Price)
  <2> HIDE DEF S, item, amount, I
  <2> QED BY <1>1, <1>2, <1>3, <1>5, SumWithin
<1>7. Sum(I, Price) # 0
  <2>1. PICK i \in I : TRUE
    BY RowsAssumption DEF ItemsOf
  <2>2. Sum(I, Price) = Sum(I \ {i}, Price) + Price[i] /\ Sum(I \ {i}, Price) \in Nat
    <3> HIDE DEF I
    <3> QED BY <1>1, <1>2, SumRemove
  <2>3. Price[i] \in Nat \ {0}
    BY <1>1, PriceAssumption
  <2> QED BY <2>2, <2>3
<1>8. OrderRefunded(o, rows) = Sum(S, amount) /\ OrderTotal(o) = Sum(I, Price)
  BY DEF OrderRefunded, OrderTotal
<1> QED
  BY <1>4, <1>6, <1>7, <1>8

\* A new refund row counts for the order of its item.
LEMMA BackGrows ==
    ASSUME TypeOK, NEW f \in Refunds, NEW i \in Items, NEW amount \in Nat \ {0}, NEW r,
           InsertRefund(f, i, amount, r)
    PROVE  /\ OrderRefunded(OrderOf[i], refund') = OrderRefunded(OrderOf[i], refund) + amount
           /\ \A o \in Orders \ {OrderOf[i]} : OrderRefunded(o, refund') = OrderRefunded(o, refund)
<1> DEFINE S(o)   == {g \in Refunds : refund[g].item \in ItemsOf(o)}
           new    == [g \in Refunds |-> refund'[g].amount]
<1>1. refund[f] = NoRefund /\ refund' = [refund EXCEPT ![f] = [item |-> i, amount |-> amount, request |-> r]]
  BY DEF InsertRefund
<1>2. \A o : f \notin S(o) /\ IsFiniteSet(S(o))
  BY <1>1, RowsAssumption, FS_Subset DEF ItemsOf, NoRefund
<1>3. \A o : {g \in Refunds : refund'[g].item \in ItemsOf(o)}
               = IF OrderOf[i] = o THEN S(o) \cup {f} ELSE S(o)
  <2>1. \A g \in Refunds : refund'[g].item = IF g = f THEN i ELSE refund[g].item  BY <1>1 DEF TypeOK
  <2>2. \A o : i \in ItemsOf(o) <=> OrderOf[i] = o  BY DEF ItemsOf
  <2>3. QED  BY <1>2, <2>1, <2>2
<1>4. \A o : \A g \in S(o) : new[g] = RefundAmounts[g] /\ new[g] \in Nat
  BY <1>1, <1>2 DEF TypeOK, RefundAmounts, NoRefund
<1>5. new[f] = amount
  BY <1>1 DEF TypeOK
<1>6. \A o : OrderRefunded(o, refund) = Sum(S(o), RefundAmounts)
  BY DEF OrderRefunded, RefundAmounts
<1>7. \A o : OrderRefunded(o, refund') = Sum(IF OrderOf[i] = o THEN S(o) \cup {f} ELSE S(o), new)
  BY <1>3 DEF OrderRefunded
<1> HIDE DEF S, new
<1>8. \A o : Sum(S(o), new) = Sum(S(o), RefundAmounts)
  <2> SUFFICES ASSUME NEW o PROVE Sum(S(o), new) = Sum(S(o), RefundAmounts)
    OBVIOUS
  <2>1. \A g \in S(o) : new[g] = RefundAmounts[g]
    BY <1>4
  <2> QED BY <2>1, SumSame
<1>9. Sum(S(OrderOf[i]) \cup {f}, new) = Sum(S(OrderOf[i]), new) + amount
  <2>1. \A g \in S(OrderOf[i]) \cup {f} : new[g] \in Nat
    BY <1>4, <1>5
  <2>2. Sum(S(OrderOf[i]) \cup {f}, new) = Sum(S(OrderOf[i]), new) + new[f]
    BY <1>2, <2>1, SumAdd
  <2> QED BY <1>5, <2>2
<1> QED
  BY <1>6, <1>7, <1>8, <1>9

\* An approved request has reserved its amount of its item, at least.
LEMMA ReservesItsAmount ==
    ASSUME NEW rows \in [Requests -> RequestRow], NEW q \in Requests, rows[q].status = "approved"
    PROVE  LET approved == {r \in Requests : rows[r].item = rows[q].item /\ rows[r].status = "approved"}
               amount   == [r \in Requests |-> rows[r].amount]
           IN  /\ Sum(approved \ {}, amount) \in Nat
               /\ rows[q].amount \in Nat \ {0} /\ rows[q].amount <= Sum(approved \ {}, amount)
<1> DEFINE approved == {r \in Requests : rows[r].item = rows[q].item /\ rows[r].status = "approved"}
           amount   == [r \in Requests |-> rows[r].amount]
<1>1. approved \ {} = approved /\ q \in approved /\ IsFiniteSet(approved)
  BY RowsAssumption, FS_Subset
<1>2. \A r \in approved : amount[r] \in Nat
  BY DEF RequestRow, NoRequest
<1>3. amount[q] = rows[q].amount /\ rows[q].amount \in Nat \ {0}
  BY DEF RequestRow, NoRequest
<1> HIDE DEF approved, amount
<1>4. Sum(approved, amount) = Sum(approved \ {q}, amount) + amount[q] /\ Sum(approved \ {q}, amount) \in Nat
  BY <1>1, <1>2, SumRemove
<1>5. Sum(approved \ {}, amount) = Sum(approved, amount)
  BY <1>1
<1> QED
  BY <1>3, <1>4, <1>5 DEF approved, amount

-----------------------------------------------------------------------------
(* The money follows the goods.                                             *)

\* The part of ApprovedNotStranded that is inductive; the other part is what
\* ReservationsCovered says.
ApprovedEligible ==
    \A r \in Requests : request[r].status = "approved" => Eligible(OrderOf[request[r].item])

Settled == ApprovedEligible /\ PaymentMatchesRefunds /\ RefundedOnlyIfShipped

LEMMA SettledIsEnough == TypeOK /\ ReservationsCovered /\ Settled => RefundsSettle
<1> SUFFICES ASSUME TypeOK, ReservationsCovered, Settled, NEW r \in Requests,
                    request[r].status = "approved"
             PROVE  request[r].amount <= Remaining(request[r].item, Refunded(request[r].item))
  BY DEF Settled, RefundsSettle, ApprovedNotStranded, ApprovedEligible
<1> PICK i : i = request[r].item
  OBVIOUS
<1>1. i \in Items /\ request[r].amount \in Nat \ {0}
  BY DEF TypeOK, NoRequest
<1>2. request \in [Requests -> RequestRow]
  BY DEF TypeOK, RequestRow
<1>3. Reserved(i, {}) \in Nat /\ request[r].amount <= Reserved(i, {})
  BY <1>2, ReservesItsAmount DEF Reserved, ApprovedOf, RequestAmounts
<1>4. Refunded(i) \in Nat /\ Price[i] \in Nat /\ Refunded(i) + Reserved(i, {}) <= Price[i]
  BY <1>1, SumsAreNumbers, PriceAssumption DEF ReservationsCovered
<1>5. Refunded(i) + request[r].amount <= Price[i]
  BY <1>1, <1>3, <1>4
<1> QED
  BY <1>1, <1>4, <1>5 DEF Remaining

LEMMA InitSettled == Init => Settled
<1> SUFFICES ASSUME Init PROVE Settled
  OBVIOUS
<1>1. ApprovedEligible
  BY DEF Init, ApprovedEligible, NoRequest
<1>2. PaymentMatchesRefunds
  BY DEF Init, PaymentMatchesRefunds, NoOrder
<1>3. ASSUME NEW o \in Orders PROVE OrderRefunded(o, refund) = 0
  <2>1. {f \in Refunds : refund[f].item \in ItemsOf(o)} = {}
    BY RowsAssumption DEF Init, NoRefund, ItemsOf
  <2> QED BY <2>1, SumEmpty DEF OrderRefunded
<1>4. RefundedOnlyIfShipped
  BY <1>3 DEF RefundedOnlyIfShipped
<1> QED
  BY <1>1, <1>2, <1>4 DEF Settled

\* What has come back of an order is a number within its total.
LEMMA BackIsWithin ==
    ASSUME TypeOK, ReservationsCovered, NEW o \in Orders
    PROVE  /\ OrderRefunded(o, refund) \in Nat /\ OrderTotal(o) \in Nat \ {0}
           /\ OrderRefunded(o, refund) <= OrderTotal(o)
<1>1. refund \in [Refunds -> RefundRow]
  BY DEF TypeOK, RefundRow
<1>2. ASSUME NEW i \in Items PROVE Refunded(i) <= Price[i]
  <2>1. Refunded(i) \in Nat /\ Reserved(i, {}) \in Nat /\ Price[i] \in Nat
    BY SumsAreNumbers, PriceAssumption
  <2>2. Refunded(i) + Reserved(i, {}) <= Price[i]
    BY DEF ReservationsCovered
  <2> QED BY <2>1, <2>2
<1>3. \A i \in Items : Sum({f \in Refunds : refund[f].item = i}, [f \in Refunds |-> refund[f].amount]) <= Price[i]
  BY <1>2 DEF Refunded, RefundsOf, RefundAmounts
<1> QED
  BY <1>1, <1>3, BackWithin

\* How an order moves, but for its refund: "from" one status "to" the next.
Moved(o, from, to) == order[o].status = from /\ order'[o].status = to

OrderMove(o) ==
    /\ \A p \in Orders \ {o} : order'[p] = order[p] /\ payment'[p] = payment[p]
    /\ \/ Moved(o, "none", "pending") /\ payment'[o].status \in {"pending", "paid"}
       \/ Moved(o, "pending", "processing") /\ payment'[o] = payment[o]
       \/ Moved(o, "processing", "ready_shipped") /\ payment'[o].status = "paid"
       \/ Moved(o, "pending", "cancelled")
       \/ Moved(o, "ready_shipped", "delivered") /\ payment'[o] = payment[o]

LEMMA OrderMoves ==
    ASSUME TypeOK, OrderStep
    PROVE  UNCHANGED <<request, refund>> /\ \E o \in Orders : OrderMove(o)
<1> USE DEF TypeOK, MoveOrder, NoOrder, NoPayment, OrderMove, Moved
<1>1. ASSUME NEW o \in Orders, NEW m \in Methods, Checkout(o, m) PROVE OrderMove(o)
  BY <1>1 DEF Checkout
<1>2. ASSUME NEW s \in Staff, NEW o \in Orders, StartProcessing(s, o) PROVE OrderMove(o)
  BY <1>2 DEF StartProcessing
<1>3. ASSUME NEW s \in Staff, NEW o \in Orders, ReadyShipped(s, o) PROVE OrderMove(o)
  BY <1>3 DEF ReadyShipped, Compatible, Uncollected
<1>4. ASSUME NEW o \in Orders, CancelEffect(o) PROVE OrderMove(o)
  BY <1>4 DEF CancelEffect
<1>5. ASSUME NEW c \in Customers, NEW o \in Orders, ConfirmDelivery(c, o) PROVE OrderMove(o)
  BY <1>5 DEF ConfirmDelivery
<1> HIDE DEF TypeOK, MoveOrder, NoOrder, NoPayment, OrderMove, Moved
<1>6. \E o \in Orders : OrderMove(o)
  BY <1>1, <1>2, <1>3, <1>4, <1>5 DEF OrderStep, StaffCancel, CancelOrder
<1>7. UNCHANGED <<request, refund>>
  BY DEF OrderStep, Checkout, StartProcessing, ReadyShipped, StaffCancel, CancelOrder, CancelEffect,
         ConfirmDelivery
<1> QED
  BY <1>6, <1>7

LEMMA OrderStepSettled == TypeOK /\ ReservationsCovered /\ Settled /\ OrderStep => Settled'
<1> SUFFICES ASSUME TypeOK, ReservationsCovered, Settled, OrderStep PROVE Settled'
  OBVIOUS
<1>1. UNCHANGED <<request, refund>>
  BY OrderMoves
<1>2. PICK o \in Orders : OrderMove(o)
  BY OrderMoves
<1>3. \A p \in Orders : OrderRefunded(p, refund') = OrderRefunded(p, refund)
  BY <1>1 DEF OrderRefunded
<1>4. OrderRefunded(o, refund) \in Nat /\ OrderTotal(o) \in Nat \ {0}
  BY BackIsWithin
<1>5. order[o].status \notin {"ready_shipped", "delivered", "refunded"} => OrderRefunded(o, refund) = 0
  BY <1>4 DEF Settled, RefundedOnlyIfShipped
<1>6. ApprovedEligible'
  <2>1. ASSUME NEW p \in Orders, Eligible(p) PROVE Eligible(p)'
    BY <1>2, <2>1 DEF OrderMove, Moved, Eligible
  <2>2. ASSUME NEW r \in Requests, request[r].status = "approved" PROVE OrderOf[request[r].item] \in Orders
    BY <2>2, RowsAssumption DEF TypeOK, NoRequest
  <2>3. ASSUME NEW r \in Requests, request'[r].status = "approved"
        PROVE  Eligible(OrderOf[request[r].item])'
    BY <1>1, <2>1, <2>2, <2>3 DEF Settled, ApprovedEligible
  <2> QED BY <1>1, <2>3 DEF ApprovedEligible, Eligible
<1>7. PaymentMatchesRefunds'
  <2>1. ASSUME NEW p \in Orders, order'[p].status \notin {"none", "cancelled"}
        PROVE  LET back == OrderRefunded(p, refund) IN
               /\ payment'[p].status \in {"pending", "paid"} <=> back = 0
               /\ payment'[p].status = "partially_refunded" <=> 0 < back /\ back < OrderTotal(p)
               /\ payment'[p].status = "refunded" <=> back = OrderTotal(p)
               /\ order'[p].status = "refunded" <=> payment'[p].status = "refunded"
    <3>1. CASE p # o
      BY <1>2, <2>1, <3>1 DEF OrderMove, Settled, PaymentMatchesRefunds
    <3>2. CASE p = o /\ order[o].status \in {"none", "processing"}
      BY <1>2, <1>4, <1>5, <3>2 DEF OrderMove, Moved
    <3>3. CASE p = o /\ order[o].status = "pending"
      <4>1. payment[o].status \in {"pending", "paid"}
        BY <1>5, <3>3 DEF Settled, PaymentMatchesRefunds
      <4> QED BY <1>2, <1>4, <1>5, <2>1, <3>3, <4>1 DEF OrderMove, Moved
    <3>4. CASE p = o /\ order[o].status = "ready_shipped"
      BY <1>2, <3>4 DEF OrderMove, Moved, Settled, PaymentMatchesRefunds
    <3> QED BY <1>2, <3>1, <3>2, <3>3, <3>4 DEF OrderMove, Moved
  <2> QED BY <1>3, <2>1 DEF PaymentMatchesRefunds
<1>8. RefundedOnlyIfShipped'
  <2>1. ASSUME NEW p \in Orders, OrderRefunded(p, refund) > 0
        PROVE  order'[p].status \in {"ready_shipped", "delivered", "refunded"}
    BY <1>2, <1>4, <1>5, <2>1 DEF OrderMove, Moved, Settled, RefundedOnlyIfShipped
  <2> QED BY <1>3, <2>1 DEF RefundedOnlyIfShipped
<1> QED
  BY <1>6, <1>7, <1>8 DEF Settled

\* Processing a request pays its amount back; if that closes the order, nothing
\* else of it was still approved.
LEMMA ProcessSettled ==
    ASSUME TypeOK, ReservationsCovered, Settled, TypeOK', ReservationsCovered',
           NEW s \in Staff, NEW r \in Requests, NEW f \in Refunds, Process(s, r, f)
    PROVE  Settled'
<1>1. PICK i \in Items, amount \in Nat \ {0} :
        /\ i = request[r].item /\ amount = request[r].amount
        /\ InsertRefund(f, i, amount, r)
  BY ProcessInserts
<1>2. PICK o \in Orders : o = OrderOf[i]
  BY RowsAssumption
<1>3. /\ Eligible(o) /\ request[r].status = "approved" /\ MoveRequest(r, "processed")
      /\ IF OrderRefunded(o, refund') >= OrderTotal(o)
           THEN /\ payment' = [payment EXCEPT ![o].status = "refunded"]
                /\ MoveOrder(o, "refunded")
           ELSE /\ payment' = [payment EXCEPT ![o].status = "partially_refunded"]
                /\ UNCHANGED order
  BY <1>1, <1>2 DEF Process, CoversOrder
<1>4. /\ OrderRefunded(o, refund') = OrderRefunded(o, refund) + amount
      /\ \A p \in Orders \ {o} : OrderRefunded(p, refund') = OrderRefunded(p, refund)
  BY <1>1, <1>2, BackGrows
<1>5. /\ OrderRefunded(o, refund) \in Nat /\ OrderTotal(o) \in Nat \ {0}
      /\ OrderRefunded(o, refund') \in Nat /\ OrderRefunded(o, refund') > 0
  BY <1>4, BackIsWithin
<1>6. refund' \in [Refunds -> RefundRow] /\ request' \in [Requests -> RequestRow]
  BY DEF TypeOK, RefundRow, RequestRow
<1>7. \A j \in Items : Refunded(j)' = Sum({g \in Refunds : refund'[g].item = j}, [g \in Refunds |-> refund'[g].amount])
  BY DEF Refunded, RefundsOf, RefundAmounts
<1>8. ASSUME NEW j \in Items
      PROVE  Refunded(j)' \in Nat /\ Reserved(j, {})' \in Nat /\ Refunded(j)' + Reserved(j, {})' <= Price[j]
  <2>1. Refunded(j)' + Reserved(j, {})' <= Price[j]
    BY DEF ReservationsCovered
  <2>2. /\ Refunded(j)' = Refunded(j) \/ (j = i /\ Refunded(j)' = Refunded(j) + amount)
        /\ Refunded(j) \in Nat
    BY <1>1, InsertNew, SumsAreNumbers
  <2>3. Reserved(j, {})' \in Nat
    <3>1. \A k \in Items \ {i} : Reserved(k, {})' = Reserved(k, {})
      BY <1>1, <1>3, ProcessReleases
    <3>2. Reserved(i, {})' \in Nat
      BY <1>1, <1>3, ProcessReleases
    <3> QED BY <3>1, <3>2, SumsAreNumbers
  <2> QED BY <2>1, <2>2, <2>3
<1>9. /\ OrderRefunded(o, refund') <= OrderTotal(o)
      /\ \A j \in ItemsOf(o) : Refunded(j)' < Price[j] => OrderRefunded(o, refund') < OrderTotal(o)
  <2>1. \A j \in Items : Refunded(j)' <= Price[j]
    <3> SUFFICES ASSUME NEW j \in Items PROVE Refunded(j)' <= Price[j]
      OBVIOUS
    <3>1. Price[j] \in Nat
      BY PriceAssumption
    <3> QED BY <1>8, <3>1
  <2>2. \A j \in ItemsOf(o) : j \in Items
    BY DEF ItemsOf
  <2> QED BY <1>6, <1>7, <2>1, <2>2, BackWithin
<1>10. ApprovedEligible'
  <2> SUFFICES ASSUME NEW q \in Requests, request'[q].status = "approved",
                      NEW j, j = request'[q].item
               PROVE  Eligible(OrderOf[j])'
    BY DEF ApprovedEligible, Eligible
  <2>1. request'[q] = request[q]
    BY <1>3 DEF MoveRequest, TypeOK
  <2>2. j \in Items /\ j = request[q].item
    BY <2>1 DEF TypeOK, NoRequest
  <2>3. Eligible(OrderOf[j])
    BY <2>1, <2>2 DEF Settled, ApprovedEligible
  <2>4. CASE OrderOf[j] # o
    <3>1. OrderOf[j] \in Orders
      BY <2>2, RowsAssumption
    <3> QED BY <1>3, <2>2, <2>3, <2>4, <3>1 DEF Eligible, MoveOrder, TypeOK
  <2>5. CASE OrderOf[j] = o
    <3>1. Reserved(j, {})' > 0
      <4>1. LET approved == {p \in Requests : request'[p].item = request'[q].item /\ request'[p].status = "approved"}
                amounts  == [p \in Requests |-> request'[p].amount]
            IN  /\ Sum(approved \ {}, amounts) \in Nat
                /\ request'[q].amount \in Nat \ {0} /\ request'[q].amount <= Sum(approved \ {}, amounts)
        BY <1>6, ReservesItsAmount
      <4>2. request'[q].amount \in Nat \ {0} /\ request'[q].amount <= Reserved(j, {})'
        BY <2>1, <2>2, <4>1 DEF Reserved, ApprovedOf, RequestAmounts
      <4> QED BY <1>8, <2>2, <4>2
    <3>2. Refunded(j)' < Price[j]
      <4>1. Price[j] \in Nat
        BY <2>2, PriceAssumption
      <4> QED BY <1>8, <2>2, <3>1, <4>1
    <3>3. j \in ItemsOf(o)
      BY <2>2, <2>5 DEF ItemsOf
    <3>4. ~(OrderRefunded(o, refund') >= OrderTotal(o))
      BY <1>5, <1>9, <3>2, <3>3
    <3>5. order' = order /\ payment'[o].status = "partially_refunded"
      BY <1>3, <3>4 DEF TypeOK, NoPayment
    <3> QED BY <2>2, <2>3, <2>5, <3>5 DEF Eligible
  <2> QED BY <2>4, <2>5
<1>11. \A p \in Orders \ {o} : order'[p] = order[p] /\ payment'[p] = payment[p]
  BY <1>3 DEF MoveOrder, TypeOK
<1>12. \/ /\ OrderRefunded(o, refund') = OrderTotal(o)
          /\ payment'[o].status = "refunded" /\ order'[o].status = "refunded"
       \/ /\ OrderRefunded(o, refund') < OrderTotal(o)
          /\ payment'[o].status = "partially_refunded" /\ order'[o].status \in {"ready_shipped", "delivered"}
  <2>1. CASE OrderRefunded(o, refund') >= OrderTotal(o)
    <3>1. OrderRefunded(o, refund') = OrderTotal(o)
      BY <1>5, <1>9, <2>1
    <3>2. payment'[o].status = "refunded" /\ order'[o].status = "refunded"
      BY <1>3, <2>1 DEF MoveOrder, TypeOK, NoPayment, NoOrder
    <3> QED BY <3>1, <3>2
  <2>2. CASE ~(OrderRefunded(o, refund') >= OrderTotal(o))
    <3>1. OrderRefunded(o, refund') < OrderTotal(o)
      BY <1>5, <2>2
    <3>2. payment'[o].status = "partially_refunded" /\ order'[o].status \in {"ready_shipped", "delivered"}
      BY <1>3, <2>2 DEF Eligible, TypeOK, NoPayment
    <3> QED BY <3>1, <3>2
  <2> QED BY <2>1, <2>2
<1>13. PaymentMatchesRefunds'
  <2>1. ASSUME NEW p \in Orders, order'[p].status \notin {"none", "cancelled"}
        PROVE  LET back == OrderRefunded(p, refund') IN
               /\ payment'[p].status \in {"pending", "paid"} <=> back = 0
               /\ payment'[p].status = "partially_refunded" <=> 0 < back /\ back < OrderTotal(p)
               /\ payment'[p].status = "refunded" <=> back = OrderTotal(p)
               /\ order'[p].status = "refunded" <=> payment'[p].status = "refunded"
    <3>1. CASE p # o
      BY <1>4, <1>11, <2>1, <3>1 DEF Settled, PaymentMatchesRefunds
    <3>2. CASE p = o
      BY <1>5, <1>12, <3>2
    <3> QED BY <3>1, <3>2
  <2> QED BY <2>1 DEF PaymentMatchesRefunds
<1>14. RefundedOnlyIfShipped'
  BY <1>4, <1>11, <1>12 DEF Settled, RefundedOnlyIfShipped
<1> QED
  BY <1>10, <1>13, <1>14 DEF Settled

LEMMA StepSettled ==
    TypeOK /\ ReservationsCovered /\ Settled /\ TypeOK' /\ ReservationsCovered' /\ [Next]_vars => Settled'
<1> SUFFICES ASSUME TypeOK, ReservationsCovered, Settled, TypeOK', ReservationsCovered', [Next]_vars
             PROVE  Settled'
  OBVIOUS
<1>1. ASSUME UNCHANGED <<order, payment, refund>>,
             \A q \in Requests : request'[q].status = "approved" =>
                /\ request'[q].item = request[q].item
                /\ request[q].status = "approved" \/ Eligible(OrderOf[request[q].item])
      PROVE  Settled'
  <2>1. ApprovedEligible'
    BY <1>1 DEF Settled, ApprovedEligible, Eligible
  <2>2. PaymentMatchesRefunds' /\ RefundedOnlyIfShipped'
    BY <1>1 DEF Settled, PaymentMatchesRefunds, RefundedOnlyIfShipped, OrderRefunded, OrderTotal
  <2> QED BY <2>1, <2>2 DEF Settled
<1>2. ASSUME NEW c \in Customers, NEW r \in Requests, NEW i \in Items, NEW amount \in 1..Price[i],
             CreateRequest(c, r, i, amount)
      PROVE  Settled'
  BY <1>1, <1>2 DEF CreateRequest, TypeOK
<1>3. ASSUME NEW s \in Staff, NEW r \in Requests, Approve(s, r) PROVE Settled'
  BY <1>1, <1>3 DEF Approve, MoveRequest, TypeOK
<1>4. ASSUME NEW s \in Staff, NEW r \in Requests, Reject(s, r) PROVE Settled'
  BY <1>1, <1>4 DEF Reject, MoveRequest, TypeOK
<1>5. ASSUME NEW c \in Clients, NEW row \in Rows, Open(c, row) PROVE Settled'
  BY <1>1, <1>5 DEF Open
<1>6. CASE UNCHANGED vars
  BY <1>1, <1>6 DEF vars
<1> QED
  BY <1>2, <1>3, <1>4, <1>5, <1>6, OrderStepSettled, ProcessSettled DEF Next, RefundStep

\* The money follows the goods, whatever was refunded in between: an approved request
\* can be processed, order and payment tell what went back, and nothing goes back
\* before the parcel does.
THEOREM MoneyFollowsGoods == Spec => []RefundsSettle
<1>1. Init => Settled
  BY InitSettled
<1>2. Spec => []TypeOK
  BY TypeCorrect
<1>3. Spec => []ReservationsCovered
  BY ApprovalsAreCovered
<1>4. Spec => []Settled
  BY <1>1, <1>2, <1>3, StepSettled, PTL DEF Spec
<1> QED
  BY <1>2, <1>3, <1>4, SettledIsEnough, PTL

-----------------------------------------------------------------------------
(* Decisions on the current state, whatever endpoints are used.             *)

\* What a browser shows was once so: a row that has moved since has a greater version.
ViewsOnceTrue ==
    \A c \in Clients : view[c].row \in Rows =>
        /\ 0 < view[c].version /\ view[c].version <= Version(view[c].row)
        /\ view[c].version = Version(view[c].row) => view[c].status = Status(view[c].row)

LEMMA VersionsAreNumbers == TypeOK => \A row \in Rows : Version(row) \in Nat
  BY DEF TypeOK, Rows, Version, NoOrder, NoRequest

\* A row that moves moves on to its next version.
MovesOn(row) ==
    \/ Status(row)' = Status(row) /\ Version(row)' = Version(row)
    \/ Version(row)' = Version(row) + 1

LEMMA RowsMoveOn == TypeOK /\ [ApiNext]_vars => \A row \in Rows : MovesOn(row)
<1> SUFFICES ASSUME TypeOK, [ApiNext]_vars PROVE \A row \in Rows : MovesOn(row)
  OBVIOUS
<1>1. ASSUME \A o \in Orders : order'[o] = order[o] \/ order'[o].version = order[o].version + 1,
             \A r \in Requests : request'[r] = request[r] \/ request'[r].version = request[r].version + 1
      PROVE  \A row \in Rows : MovesOn(row)
  BY <1>1 DEF MovesOn, Rows, Status, Version
<1>2. CASE UNCHANGED <<order, request>>
  BY <1>1, <1>2
<1>3. ASSUME UNCHANGED request, NEW o \in Orders, NEW status, MoveOrder(o, status)
      PROVE  \A row \in Rows : MovesOn(row)
  <2>1. \A p \in Orders : order'[p] = order[p] \/ order'[p].version = order[p].version + 1
    BY <1>3 DEF MoveOrder, TypeOK, NoOrder
  <2> QED BY <1>1, <1>3, <2>1
<1>4. ASSUME UNCHANGED order, NEW r \in Requests, NEW status, MoveRequest(r, status)
      PROVE  \A row \in Rows : MovesOn(row)
  <2>1. \A q \in Requests : request'[q] = request[q] \/ request'[q].version = request[q].version + 1
    BY <1>4 DEF MoveRequest, TypeOK, NoRequest
  <2> QED BY <1>1, <1>4, <2>1
<1>5. CASE OrderStep
  <2>1. ASSUME NEW o \in Orders, NEW m \in Methods, Checkout(o, m) PROVE \A row \in Rows : MovesOn(row)
    <3>1. \A p \in Orders : order'[p] = order[p] \/ order'[p].version = order[p].version + 1
      BY <2>1 DEF Checkout, TypeOK, NoOrder
    <3> QED BY <1>1, <2>1, <3>1 DEF Checkout
  <2>2. ASSUME NEW c \in Customers, NEW o \in Orders, ConfirmDelivery(c, o)
        PROVE  \A row \in Rows : MovesOn(row)
    <3>1. \A p \in Orders : order'[p] = order[p] \/ order'[p].version = order[p].version + 1
      BY <2>2 DEF ConfirmDelivery, TypeOK, NoOrder
    <3> QED BY <1>1, <2>2, <3>1 DEF ConfirmDelivery
  <2>3. ASSUME NEW o \in Orders, CancelEffect(o) PROVE \A row \in Rows : MovesOn(row)
    BY <1>3, <2>3 DEF CancelEffect
  <2>4. ASSUME NEW s \in Staff, NEW o \in Orders, StartProcessing(s, o) \/ ReadyShipped(s, o)
        PROVE  \A row \in Rows : MovesOn(row)
    BY <1>3, <2>4 DEF StartProcessing, ReadyShipped
  <2> QED
    BY <1>5, <2>1, <2>2, <2>3, <2>4 DEF OrderStep, StaffCancel, CancelOrder
<1>6. CASE RefundStep
  <2>1. ASSUME NEW c \in Customers, NEW r \in Requests, NEW i \in Items, NEW amount \in 1..Price[i],
               CreateRequest(c, r, i, amount)
        PROVE  \A row \in Rows : MovesOn(row)
    <3>1. \A q \in Requests : request'[q] = request[q] \/ request'[q].version = request[q].version + 1
      BY <2>1 DEF CreateRequest, TypeOK, NoRequest
    <3> QED BY <1>1, <2>1, <3>1 DEF CreateRequest
  <2>2. ASSUME NEW s \in Staff, NEW r \in Requests, Approve(s, r) \/ Reject(s, r)
        PROVE  \A row \in Rows : MovesOn(row)
    BY <1>4, <2>2 DEF Approve, Reject
  <2>3. ASSUME NEW s \in Staff, NEW r \in Requests, NEW f \in Refunds, Process(s, r, f)
        PROVE  \A row \in Rows : MovesOn(row)
    <3>1. PICK i \in Items : i = request[r].item
      BY <2>3, ProcessInserts
    <3>2. \A q \in Requests : request'[q] = request[q] \/ request'[q].version = request[q].version + 1
      BY <2>3 DEF Process, MoveRequest, TypeOK, NoRequest
    <3>3. OrderOf[i] \in Orders /\ (order' = order \/ MoveOrder(OrderOf[i], "refunded"))
      BY <2>3, <3>1, RowsAssumption DEF Process
    <3>4. \A p \in Orders : order'[p] = order[p] \/ order'[p].version = order[p].version + 1
      BY <3>3 DEF MoveOrder, TypeOK, NoOrder
    <3> QED BY <1>1, <3>2, <3>4
  <2> QED
    BY <1>6, <2>1, <2>2, <2>3 DEF RefundStep
<1> QED
  BY <1>2, <1>5, <1>6
     DEF ApiNext, Next, vars, Open, GenericStep, PostRefund, PutRefund, DeleteRefund

LEMMA StepViews == TypeOK /\ ViewsOnceTrue /\ [ApiNext]_vars => ViewsOnceTrue'
<1> SUFFICES ASSUME TypeOK, ViewsOnceTrue, [ApiNext]_vars, NEW c \in Clients, NEW row \in Rows,
                    view'[c].row = row
             PROVE  /\ 0 < view'[c].version /\ view'[c].version <= Version(row)'
                    /\ view'[c].version = Version(row)' => view'[c].status = Status(row)'
  BY DEF ViewsOnceTrue, Version, Status
<1>1. MovesOn(row) /\ Version(row) \in Nat
  BY RowsMoveOn, VersionsAreNumbers
<1>2. CASE view'[c] = view[c]
  <2>1. /\ 0 < view[c].version /\ view[c].version <= Version(row) /\ view[c].version \in Nat
        /\ view[c].version = Version(row) => view[c].status = Status(row)
    BY <1>2 DEF ViewsOnceTrue, TypeOK
  <2> QED BY <1>1, <1>2, <2>1 DEF MovesOn
<1>3. ASSUME Open(c, row) PROVE view'[c].version = Version(row)' /\ view'[c].status = Status(row)' /\ 0 < Version(row)'
  <2>1. /\ Version(row)' = Version(row) /\ Status(row)' = Status(row)
        /\ view'[c].version = Version(row) /\ view'[c].status = Status(row)
    BY <1>3 DEF Open, TypeOK, Version, Status
  <2>2. Version(row) # 0
    BY <1>3 DEF Open, Status, Version, TypeOK, Rows, NoOrder, NoRequest
  <2> QED BY <1>1, <2>1, <2>2
<1>4. CASE view'[c] # view[c]
  <2>1. \/ view' = view
        \/ \E d \in Clients, other \in Rows : Open(d, other)
    BY DEF ApiNext, Next, vars, OrderStep, RefundStep, GenericStep, Checkout, StartProcessing, ReadyShipped,
           StaffCancel, CancelOrder, CancelEffect, ConfirmDelivery, CreateRequest, Approve, Reject, Process,
           PostRefund, PutRefund, DeleteRefund
  <2>2. PICK d \in Clients, other \in Rows : Open(d, other)
    BY <1>4, <2>1
  <2>3. d = c /\ other = row
    BY <1>4, <2>2 DEF Open, TypeOK
  <2>4. Version(row)' \in Nat
    BY <1>1, <2>2 DEF Open, Version
  <2> QED BY <1>3, <2>2, <2>3, <2>4
<1> QED
  BY <1>2, <1>4

\* A client whose submission is accepted is looking at the row as it is.
LEMMA SubmittedIsCurrent ==
    ASSUME ViewsOnceTrue, NEW c \in Clients, NEW row \in Rows, Submits(c, row)
    PROVE  view[c].row = row /\ view[c].status = Status(row)
  BY DEF ViewsOnceTrue, Submits

LEMMA DeciderSubmits ==
    ASSUME NEW c \in Clients, NEW row \in Rows, Decides(c, row)
    PROVE  Submits(c, row)
  BY DEF Decides, StartProcessing, ReadyShipped, StaffCancel, CancelOrder, ConfirmDelivery, Approve, Reject, Process

SeesCurrent ==
    \A c \in Clients, row \in Rows :
        Decides(c, row) => view[c].row = row /\ view[c].status = Status(row)

Decided(row) ==
    \E c \in Clients :
      \/ Decides(c, row)
      \/ /\ Status(row)' = "refunded"
         /\ \E r \in Requests : Decides(c, r) /\ OrderOf[request[r].item] = row

LEMMA StepDecided ==
    TypeOK /\ [ApiNext]_vars =>
        \A row \in Rows : Status(row) # "none" /\ Status(row)' # Status(row) => Decided(row)
<1> SUFFICES ASSUME TypeOK, [ApiNext]_vars, NEW row \in Rows,
                    Status(row) # "none", Status(row)' # Status(row)
             PROVE  Decided(row)
  OBVIOUS
<1>1. Customers \subseteq Clients /\ Staff \subseteq Clients /\ Orders \subseteq Rows /\ Requests \subseteq Rows
  BY DEF Clients, Rows
<1>2. ASSUME NEW o \in Orders, NEW c \in Clients, UNCHANGED request, Decides(c, o),
             \A p \in Orders \ {o} : order'[p] = order[p]
      PROVE  Decided(row)
  <2>1. row = o
    BY <1>2 DEF Status, Rows
  <2> QED BY <1>2, <2>1 DEF Decided
<1>3. CASE OrderStep
  <2>1. ASSUME NEW o \in Orders, NEW m \in Methods, Checkout(o, m) PROVE FALSE
    BY <2>1 DEF Checkout, Status, Rows, TypeOK, NoOrder
  <2>2. PICK o \in Orders, c \in Clients : Decides(c, o)
    BY <1>1, <1>3, <2>1 DEF OrderStep, Decides
  <2>3. UNCHANGED request /\ \A p \in Orders \ {o} : order'[p] = order[p]
    <3>1. o \notin Requests
      BY RowsAssumption
    <3> QED BY <2>2, <3>1 DEF Decides, StartProcessing, ReadyShipped, StaffCancel, CancelOrder, CancelEffect,
                              ConfirmDelivery, MoveOrder, TypeOK
  <2> QED BY <1>2, <2>2, <2>3
<1>4. CASE RefundStep
  <2>1. ASSUME NEW c \in Customers, NEW r \in Requests, NEW i \in Items, NEW amount \in 1..Price[i],
               CreateRequest(c, r, i, amount)
        PROVE  FALSE
    BY <2>1 DEF CreateRequest, Status, Rows, TypeOK, NoRequest
  <2>2. PICK s \in Staff, r \in Requests : Approve(s, r) \/ Reject(s, r) \/ \E f \in Refunds : Process(s, r, f)
    BY <1>4, <2>1 DEF RefundStep
  <2>3. s \in Clients /\ Decides(s, r)
    BY <1>1, <2>2 DEF Decides
  <2>4. \A q \in Requests \ {r} : request'[q] = request[q]
    <3>1. PICK status : MoveRequest(r, status)
      BY <2>2 DEF Approve, Reject, Process
    <3> QED BY <3>1 DEF MoveRequest, TypeOK, NoRequest
  <2>5. CASE row = r
    BY <2>3, <2>5 DEF Decided
  <2>6. CASE row # r
    <3>1. row \in Orders /\ order'[row].status # order[row].status
      BY <2>4, <2>6 DEF Status, Rows
    <3>2. PICK f \in Refunds : Process(s, r, f)
      BY <2>2, <3>1 DEF Approve, Reject
    <3>3. OrderOf[request[r].item] = row /\ order'[row].status = "refunded"
      <4>1. MoveOrder(OrderOf[request[r].item], "refunded")
        BY <3>1, <3>2 DEF Process
      <4> QED BY <3>1, <4>1 DEF MoveOrder, TypeOK, NoOrder
    <3>4. Status(row)' = "refunded"
      BY <3>1, <3>3 DEF Status
    <3> QED BY <2>3, <3>3, <3>4 DEF Decided
  <2> QED BY <2>5, <2>6
<1>5. ~ UNCHANGED <<order, request>>
  BY DEF Status
<1> QED
  BY <1>3, <1>4, <1>5
     DEF ApiNext, Next, vars, Open, GenericStep, PostRefund, PutRefund, DeleteRefund

LEMMA InitViews == Init => ViewsOnceTrue
  BY RowsAssumption DEF Init, ViewsOnceTrue, NoView, Rows

\* Nobody acts on a state a row has left: whoever decides on an order or a request was
\* shown its present status, and every status changes by such a decision on the row,
\* or on the request whose refund closes the order.
THEOREM DecisionsOnCurrentState == ApiSpec => DecidedOnCurrentState
<1> DEFINE Step == /\ SeesCurrent
                   /\ \A row \in Rows : Status(row) # "none" /\ Status(row)' # Status(row) => Decided(row)
<1>1. ApiSpec => Init /\ [][ApiNext]_vars
  BY DEF ApiSpec, ApiNext
<1>2. ApiSpec => []ViewsOnceTrue
  BY <1>1, InitViews, StepViews, ApiTypeCorrect, PTL
<1>3. TypeOK /\ ViewsOnceTrue /\ [ApiNext]_vars => [Step]_vars
  BY StepDecided, DeciderSubmits, SubmittedIsCurrent DEF SeesCurrent
<1>4. ApiSpec => [][Step]_vars
  BY <1>1, <1>2, <1>3, ApiTypeCorrect, PTL
<1> QED
  BY <1>4, PTL DEF DecidedOnCurrentState, SeesCurrent, Decided

-----------------------------------------------------------------------------
(* The transactions of RefundTransactions.                                  *)

Ops == StaffOrderOps \cup OwnerOps \cup RequestOps \cup AmountOps

\* What a statement reads and locks, in the order in which transactions lock them.
Locked == {"item", "request", "order", "payment"}
Rank == [item |-> 1, request |-> 2, order |-> 3, payment |-> 4]

Mode(op, what) == IF op = "post_refund" /\ what = "order" THEN "key_share" ELSE "update"

LockOf(t, what, c) == [row |-> Row(t, what), mode |-> Mode(t.op, what), by |-> c]

Fields == {"op", "order", "item", "request", "amount", "version", "done", "seen"}

\* A decision is about the rows its request names, an order's step about the order shown.
Subject(c, t) ==
    /\ t.op \in StaffOrderOps \cup OwnerOps =>
         /\ t.op \in StaffOrderOps => c \in Staff
         /\ t.op \in OwnerOps => c \in Customers /\ Owner[t.order] = c
         /\ view[c].row = t.order /\ view[c].version = t.version
    /\ t.op \in RequestOps =>
         /\ c \in Staff /\ t.request \in Requests /\ request[t.request] # NoRequest
         /\ t.item = request[t.request].item /\ t.amount = request[t.request].amount
         /\ view[c].row = t.request /\ view[c].version = t.version
    /\ t.op \in AmountOps =>
         /\ t.request = None /\ t.amount \in 1..Price[t.item]
         /\ t.op = "create_request" => c \in Customers /\ Owner[t.order] = c
    /\ t.op \in RequestOps \cup AmountOps => t.item \in Items /\ t.order = OrderOf[t.item]
    /\ t.order \in Orders /\ order[t.order] # NoOrder

\* What is read under a lock is read after it.
Progress(t) ==
    /\ DOMAIN t = Fields /\ t.op \in Ops /\ t.done \in 0..Len(Plan(t.op))
    /\ DOMAIN t.seen = {Plan(t.op)[n].what : n \in 1..t.done}
    /\ t.done > 0 => Passes(t)

\* What a transaction has seen is still so.
Current(t) ==
    /\ Seen(t, "order") /\ t.op # "post_refund" => t.seen.order = order[t.order]
    /\ Seen(t, "payment") => t.seen.payment = payment[t.order]
    /\ Seen(t, "request") => t.seen.request = request[t.request]
    /\ \A what \in {"pending", "refunded", "reserved", "order_refunded"} :
         Seen(t, what) => t.seen[what] = Value(t, what)

\* The locks a transaction holds are those of the rows it has read.
HasLocks(c, t) == \A what \in Locked : Seen(t, what) => LockOf(t, what, c) \in locks

Good(c) == txn[c] # Idle =>
    Subject(c, txn[c]) /\ Progress(txn[c]) /\ Current(txn[c]) /\ HasLocks(c, txn[c])

LocksHeld ==
    \A l \in locks : /\ l.by \in Clients /\ txn[l.by] # Idle
                     /\ \E what \in Locked : Seen(txn[l.by], what) /\ l = LockOf(txn[l.by], what, l.by)

Exclusive == \A l, m \in locks : l.row = m.row /\ l.by # m.by => ~ Conflict(l.mode, m.mode)

RequestsOfOrders == \A r \in Requests : request[r] # NoRequest => order[OrderOf[request[r].item]] # NoOrder

TInv ==
    /\ TypeOK /\ ViewsOnceTrue /\ RequestsOfOrders
    /\ DOMAIN txn = Clients /\ \A c \in Clients : Good(c)
    /\ LocksHeld /\ Exclusive
-----------------------------------------------------------------------------
(* The plans.                                                               *)

LEMMA Joined ==
    ASSUME NEW S, NEW s \in Seq(S), NEW t \in Seq(S), NEW u \in Seq(S), Len(u) = Len(s) + Len(t),
           \A i \in 1..Len(u) : u[i] = IF i <= Len(s) THEN s[i] ELSE t[i - Len(s)]
    PROVE  s \o t = u
<1>1. s \o t \in Seq(S) /\ Len(s \o t) = Len(s) + Len(t)
      /\ \A i \in 1..Len(s) + Len(t) : (s \o t)[i] = IF i <= Len(s) THEN s[i] ELSE t[i - Len(s)]
  BY ConcatProperties
<1>2. QED  BY <1>1, SeqEqual

LEMMA OneAndTwo == \A a, b, c : <<a>> \o <<b, c>> = <<a, b, c>>
<1> TAKE a, b, c
<1> DEFINE S == {a, b, c}
<1>1. PICK s, t, u : s = <<a>> /\ t = <<b, c>> /\ u = <<a, b, c>>  OBVIOUS
<1>2. /\ Len(s) = 1 /\ Len(t) = 2 /\ Len(u) = 3
      /\ s[1] = a /\ t[1] = b /\ t[2] = c
      /\ u[1] = a /\ u[2] = b /\ u[3] = c
  BY <1>1
<1>3. s \in Seq(S) /\ t \in Seq(S) /\ u \in Seq(S)  BY <1>1
<1>4. \A i \in 1..3 : i = 1 \/ i = 2 \/ i = 3  OBVIOUS
<1>5. \A i \in 1..Len(u) : u[i] = IF i <= Len(s) THEN s[i] ELSE t[i - Len(s)]
  <2> HIDE <1>1
  <2> QED  BY <1>2, <1>4
<1>6. Len(u) = Len(s) + Len(t)  BY <1>2
<1>7. s \o t = u
  <2> HIDE DEF S
  <2> QED  BY <1>3, <1>5, <1>6, Joined
<1>8. QED  BY <1>1, <1>7

LEMMA TwoAndTwo == \A a, b, c, d : <<a, b>> \o <<c, d>> = <<a, b, c, d>>
<1> TAKE a, b, c, d
<1> DEFINE S == {a, b, c, d}
<1>1. PICK s, t, u : s = <<a, b>> /\ t = <<c, d>> /\ u = <<a, b, c, d>>  OBVIOUS
<1>2. /\ Len(s) = 2 /\ Len(t) = 2 /\ Len(u) = 4
      /\ s[1] = a /\ s[2] = b /\ t[1] = c /\ t[2] = d
      /\ u[1] = a /\ u[2] = b /\ u[3] = c /\ u[4] = d
  BY <1>1
<1>3. s \in Seq(S) /\ t \in Seq(S) /\ u \in Seq(S)  BY <1>1
<1>4. \A i \in 1..4 : i = 1 \/ i = 2 \/ i = 3 \/ i = 4  OBVIOUS
<1>5. \A i \in 1..Len(u) : u[i] = IF i <= Len(s) THEN s[i] ELSE t[i - Len(s)]
  <2> HIDE <1>1
  <2> QED  BY <1>2, <1>4
<1>6. Len(u) = Len(s) + Len(t)  BY <1>2
<1>7. s \o t = u
  <2> HIDE DEF S
  <2> QED  BY <1>3, <1>5, <1>6, Joined
<1>8. QED  BY <1>1, <1>7

LEMMA ThreeAndThree == \A a, b, c, d, e, f : <<a, b, c>> \o <<d, e, f>> = <<a, b, c, d, e, f>>
<1> TAKE a, b, c, d, e, f
<1> DEFINE S == {a, b, c, d, e, f}
<1>1. PICK s, t, u : s = <<a, b, c>> /\ t = <<d, e, f>> /\ u = <<a, b, c, d, e, f>>  OBVIOUS
<1>2. /\ Len(s) = 3 /\ Len(t) = 3 /\ Len(u) = 6
      /\ s[1] = a /\ s[2] = b /\ s[3] = c /\ t[1] = d /\ t[2] = e /\ t[3] = f
      /\ u[1] = a /\ u[2] = b /\ u[3] = c /\ u[4] = d /\ u[5] = e /\ u[6] = f
  BY <1>1
<1>3. s \in Seq(S) /\ t \in Seq(S) /\ u \in Seq(S)  BY <1>1
<1>4. \A i \in 1..6 : i = 1 \/ i = 2 \/ i = 3 \/ i = 4 \/ i = 5 \/ i = 6  OBVIOUS
<1>5. \A i \in 1..Len(u) : u[i] = IF i <= Len(s) THEN s[i] ELSE t[i - Len(s)]
  <2> HIDE <1>1
  <2> QED  BY <1>2, <1>4
<1>6. Len(u) = Len(s) + Len(t)  BY <1>2
<1>7. s \o t = u
  <2> HIDE DEF S
  <2> QED  BY <1>3, <1>5, <1>6, Joined
<1>8. QED  BY <1>1, <1>7

LEMMA FourAndTwo == \A a, b, c, d, e, f : <<a, b, c, d>> \o <<e, f>> = <<a, b, c, d, e, f>>
<1> TAKE a, b, c, d, e, f
<1> DEFINE S == {a, b, c, d, e, f}
<1>1. PICK s, t, u : s = <<a, b, c, d>> /\ t = <<e, f>> /\ u = <<a, b, c, d, e, f>>  OBVIOUS
<1>2. /\ Len(s) = 4 /\ Len(t) = 2 /\ Len(u) = 6
      /\ s[1] = a /\ s[2] = b /\ s[3] = c /\ s[4] = d /\ t[1] = e /\ t[2] = f
      /\ u[1] = a /\ u[2] = b /\ u[3] = c /\ u[4] = d /\ u[5] = e /\ u[6] = f
  BY <1>1
<1>3. s \in Seq(S) /\ t \in Seq(S) /\ u \in Seq(S)  BY <1>1
<1>4. \A i \in 1..6 : i = 1 \/ i = 2 \/ i = 3 \/ i = 4 \/ i = 5 \/ i = 6  OBVIOUS
<1>5. \A i \in 1..Len(u) : u[i] = IF i <= Len(s) THEN s[i] ELSE t[i - Len(s)]
  <2> HIDE <1>1
  <2> QED  BY <1>2, <1>4
<1>6. Len(u) = Len(s) + Len(t)  BY <1>2
<1>7. s \o t = u
  <2> HIDE DEF S
  <2> QED  BY <1>3, <1>5, <1>6, Joined
<1>8. QED  BY <1>1, <1>7

LEMMA PlansAre ==
    /\ \A op \in StaffOrderOps \cup {"cancel_order"} : Plan(op) = <<Locking("order"), Locking("payment")>>
    /\ Plan("confirm_delivery") = <<Locking("order")>>
    /\ Plan("create_request") = <<Locking("item"), Locking("order"), Locking("payment"),
                                  Reading("pending"), Reading("refunded"), Reading("reserved")>>
    /\ Plan("approve") = <<Locking("item"), Locking("request"), Locking("order"), Locking("payment"),
                           Reading("refunded"), Reading("reserved")>>
    /\ Plan("reject") = <<Locking("item"), Locking("request")>>
    /\ Plan("process") = <<Locking("item"), Locking("request"), Locking("order"), Locking("payment"),
                           Reading("refunded"), Reading("order_refunded")>>
    /\ Plan("post_refund") = <<Locking("item"), Reading("refunded"), KeyShare("order")>>
<1> USE DEF StaffOrderOps, OwnerOps, RequestOps, AmountOps
<1>1. \A op \in StaffOrderOps \cup {"cancel_order"} : Plan(op) = OrderRows  BY DEF Plan
<1>2. Plan("confirm_delivery") = <<Locking("order")>>  BY DEF Plan
<1>3. Plan("create_request") = <<Locking("item")>> \o OrderRows
             \o <<Reading("pending"), Reading("refunded"), Reading("reserved")>>  BY DEF Plan
<1>4. Plan("approve") = DecisionRows \o <<Reading("refunded"), Reading("reserved")>>  BY DEF Plan
<1>5. Plan("reject") = RequestRows  BY DEF Plan
<1>6. Plan("process") = DecisionRows \o <<Reading("refunded"), Reading("order_refunded")>>  BY DEF Plan
<1>7. Plan("post_refund") = <<Locking("item"), Reading("refunded"), KeyShare("order")>>  BY DEF Plan
<1>8. \A a, b, c, d, e, f : <<a>> \o <<b, c>> \o <<d, e, f>> = <<a, b, c, d, e, f>>
  <2> TAKE a, b, c, d, e, f
  <2>1. <<a>> \o <<b, c>> = <<a, b, c>>  BY OneAndTwo
  <2>2. <<a, b, c>> \o <<d, e, f>> = <<a, b, c, d, e, f>>  BY ThreeAndThree
  <2>3. QED  BY <2>1, <2>2
<1>9. DecisionRows = <<Locking("item"), Locking("request"), Locking("order"), Locking("payment")>>
  BY TwoAndTwo DEF DecisionRows, RequestRows, OrderRows
<1>10. QED
  BY <1>1, <1>2, <1>3, <1>4, <1>5, <1>6, <1>7, <1>8, <1>9, FourAndTwo DEF OrderRows, RequestRows

\* What an operation reads, and how its statements follow each other: rows are locked in the
\* order of Rank, and the sums of an item or an order are read once its row is locked.
Reads(op) == {Plan(op)[n].what : n \in 1..Len(Plan(op))}

Ordered(op, p) ==
    /\ Len(p) \in 1..6
    /\ \A n \in 1..Len(p) :
         /\ p[n].what \in Locked => p[n].mode = Mode(op, p[n].what)
         /\ p[n].what \notin Locked =>
              p[n].mode = "read" /\ p[n].what \in {"pending", "refunded", "reserved", "order_refunded"}
         /\ p[n].what \in {"pending", "refunded", "reserved"} => \E m \in 1..(n - 1) : p[m].what = "item"
         /\ p[n].what = "order_refunded" => \E m \in 1..(n - 1) : p[m].what = "order"
         /\ \A m \in 1..(n - 1) :
              p[m].what \in Locked /\ p[n].what \in Locked => Rank[p[m].what] < Rank[p[n].what]

LEMMA PlansAreOrdered ==
    /\ \A op \in Ops : Ordered(op, Plan(op))
    /\ \A op \in StaffOrderOps \cup {"cancel_order"} : Reads(op) = {"order", "payment"}
    /\ Reads("confirm_delivery") = {"order"}
    /\ Reads("create_request") = {"item", "order", "payment", "pending", "refunded", "reserved"}
    /\ Reads("approve") = {"item", "request", "order", "payment", "refunded", "reserved"}
    /\ Reads("reject") = {"item", "request"}
    /\ Reads("process") = {"item", "request", "order", "payment", "refunded", "order_refunded"}
    /\ Reads("post_refund") = {"item", "refunded", "order"}
<1> USE DEF Locking, KeyShare, Reading, Mode, Locked, Rank, Reads
<1>1. ASSUME NEW op \in StaffOrderOps \cup {"cancel_order"}  PROVE Ordered(op, Plan(op)) /\ Reads(op) = {"order", "payment"}
  <2>1. PICK p : p = Plan(op)  OBVIOUS
  <2>2. /\ op # "post_refund" /\ Len(p) = 2
        /\ p[1] = [what |-> "order", mode |-> "update"]
        /\ p[2] = [what |-> "payment", mode |-> "update"]
    BY <1>1, <2>1, PlansAre DEF StaffOrderOps
  <2>3. \A i \in 1..2 : i = 1 \/ i = 2  OBVIOUS
  <2>4. Ordered(op, p)  BY <2>2, <2>3 DEF Ordered
  <2>5. {p[i].what : i \in 1..Len(p)} = {"order", "payment"}  BY <2>2, <2>3
  <2>6. QED  BY <2>1, <2>4, <2>5
<1>2. Ordered("confirm_delivery", Plan("confirm_delivery")) /\ Reads("confirm_delivery") = {"order"}
  <2>1. PICK p : p = Plan("confirm_delivery")  OBVIOUS
  <2>2. /\ Len(p) = 1
        /\ p[1] = [what |-> "order", mode |-> "update"]
    BY <2>1, PlansAre
  <2>3. \A i \in 1..1 : i = 1  OBVIOUS
  <2>4. Ordered("confirm_delivery", p)  BY <2>2, <2>3 DEF Ordered
  <2>5. {p[i].what : i \in 1..Len(p)} = {"order"}  BY <2>2, <2>3
  <2>6. QED  BY <2>1, <2>4, <2>5
<1>3. Ordered("create_request", Plan("create_request")) /\ Reads("create_request") = {"item", "order", "payment", "pending", "refunded", "reserved"}
  <2>1. PICK p : p = Plan("create_request")  OBVIOUS
  <2>2. /\ Len(p) = 6
        /\ p[1] = [what |-> "item", mode |-> "update"]
        /\ p[2] = [what |-> "order", mode |-> "update"]
        /\ p[3] = [what |-> "payment", mode |-> "update"]
        /\ p[4] = [what |-> "pending", mode |-> "read"]
        /\ p[5] = [what |-> "refunded", mode |-> "read"]
        /\ p[6] = [what |-> "reserved", mode |-> "read"]
    BY <2>1, PlansAre
  <2>3. \A i \in 1..6 : i = 1 \/ i = 2 \/ i = 3 \/ i = 4 \/ i = 5 \/ i = 6  OBVIOUS
  <2>4. Ordered("create_request", p)  BY <2>2, <2>3 DEF Ordered
  <2>5. {p[i].what : i \in 1..Len(p)} = {"item", "order", "payment", "pending", "refunded", "reserved"}  BY <2>2, <2>3
  <2>6. QED  BY <2>1, <2>4, <2>5
<1>4. Ordered("approve", Plan("approve")) /\ Reads("approve") = {"item", "request", "order", "payment", "refunded", "reserved"}
  <2>1. PICK p : p = Plan("approve")  OBVIOUS
  <2>2. /\ Len(p) = 6
        /\ p[1] = [what |-> "item", mode |-> "update"]
        /\ p[2] = [what |-> "request", mode |-> "update"]
        /\ p[3] = [what |-> "order", mode |-> "update"]
        /\ p[4] = [what |-> "payment", mode |-> "update"]
        /\ p[5] = [what |-> "refunded", mode |-> "read"]
        /\ p[6] = [what |-> "reserved", mode |-> "read"]
    BY <2>1, PlansAre
  <2>3. \A i \in 1..6 : i = 1 \/ i = 2 \/ i = 3 \/ i = 4 \/ i = 5 \/ i = 6  OBVIOUS
  <2>4. Ordered("approve", p)  BY <2>2, <2>3 DEF Ordered
  <2>5. {p[i].what : i \in 1..Len(p)} = {"item", "request", "order", "payment", "refunded", "reserved"}  BY <2>2, <2>3
  <2>6. QED  BY <2>1, <2>4, <2>5
<1>5. Ordered("reject", Plan("reject")) /\ Reads("reject") = {"item", "request"}
  <2>1. PICK p : p = Plan("reject")  OBVIOUS
  <2>2. /\ Len(p) = 2
        /\ p[1] = [what |-> "item", mode |-> "update"]
        /\ p[2] = [what |-> "request", mode |-> "update"]
    BY <2>1, PlansAre
  <2>3. \A i \in 1..2 : i = 1 \/ i = 2  OBVIOUS
  <2>4. Ordered("reject", p)  BY <2>2, <2>3 DEF Ordered
  <2>5. {p[i].what : i \in 1..Len(p)} = {"item", "request"}  BY <2>2, <2>3
  <2>6. QED  BY <2>1, <2>4, <2>5
<1>6. Ordered("process", Plan("process")) /\ Reads("process") = {"item", "request", "order", "payment", "refunded", "order_refunded"}
  <2>1. PICK p : p = Plan("process")  OBVIOUS
  <2>2. /\ Len(p) = 6
        /\ p[1] = [what |-> "item", mode |-> "update"]
        /\ p[2] = [what |-> "request", mode |-> "update"]
        /\ p[3] = [what |-> "order", mode |-> "update"]
        /\ p[4] = [what |-> "payment", mode |-> "update"]
        /\ p[5] = [what |-> "refunded", mode |-> "read"]
        /\ p[6] = [what |-> "order_refunded", mode |-> "read"]
    BY <2>1, PlansAre
  <2>3. \A i \in 1..6 : i = 1 \/ i = 2 \/ i = 3 \/ i = 4 \/ i = 5 \/ i = 6  OBVIOUS
  <2>4. Ordered("process", p)  BY <2>2, <2>3 DEF Ordered
  <2>5. {p[i].what : i \in 1..Len(p)} = {"item", "request", "order", "payment", "refunded", "order_refunded"}  BY <2>2, <2>3
  <2>6. QED  BY <2>1, <2>4, <2>5
<1>7. Ordered("post_refund", Plan("post_refund")) /\ Reads("post_refund") = {"item", "refunded", "order"}
  <2>1. PICK p : p = Plan("post_refund")  OBVIOUS
  <2>2. /\ Len(p) = 3
        /\ p[1] = [what |-> "item", mode |-> "update"]
        /\ p[2] = [what |-> "refunded", mode |-> "read"]
        /\ p[3] = [what |-> "order", mode |-> "key_share"]
    BY <2>1, PlansAre
  <2>3. \A i \in 1..3 : i = 1 \/ i = 2 \/ i = 3  OBVIOUS
  <2>4. Ordered("post_refund", p)  BY <2>2, <2>3 DEF Ordered
  <2>5. {p[i].what : i \in 1..Len(p)} = {"item", "refunded", "order"}  BY <2>2, <2>3
  <2>6. QED  BY <2>1, <2>4, <2>5
<1>8. QED  BY <1>1, <1>2, <1>3, <1>4, <1>5, <1>6, <1>7 DEF Ops, StaffOrderOps, OwnerOps, RequestOps, AmountOps
LEMMA RowIs ==
    ASSUME NEW t
    PROVE  /\ Row(t, "item") = <<"item", t.item>> /\ Row(t, "request") = <<"request", t.request>>
           /\ Row(t, "order") = <<"order", t.order>> /\ Row(t, "payment") = <<"payment", t.order>>
BY DEF Row

LEMMA RowsDiffer ==
    ASSUME NEW t, NEW u, NEW v \in Locked, NEW w \in Locked, Row(t, v) = Row(u, w)
    PROVE  v = w
BY DEF Row

-----------------------------------------------------------------------------
(* Waiting ends somewhere: whoever holds what a client waits for waits, if  *)
(* it does, for a row further on.                                           *)

LEMMA WaitsForLocked ==
    ASSUME TInv, NEW c \in Clients, Waiting(c)
    PROVE  /\ Progress(txn[c]) /\ txn[c].op \in Ops
           /\ txn[c].done + 1 \in 1..Len(Plan(txn[c].op))
           /\ NextStatement(c).what \in Locked
<1>1. Progress(txn[c]) /\ txn[c].op \in Ops /\ txn[c].done \in 0..Len(Plan(txn[c].op))
      /\ txn[c].done < Len(Plan(txn[c].op))
  BY DEF TInv, Good, Progress, Waiting
<1>2. Ordered(txn[c].op, Plan(txn[c].op))  BY <1>1, PlansAreOrdered
<1>3. txn[c].done + 1 \in 1..Len(Plan(txn[c].op))  BY <1>1, <1>2 DEF Ordered
<1>4. NextStatement(c).mode # "read"  BY DEF Waiting
<1>5. QED  BY <1>1, <1>2, <1>3, <1>4 DEF Ordered, NextStatement

LEMMA HolderIsFurther ==
    ASSUME TInv, NEW c \in Clients, Waiting(c), NEW l \in Blocking(c, NextStatement(c)), Waiting(l.by)
    PROVE  l.by \in Clients /\ Rank[NextStatement(c).what] < Rank[NextStatement(l.by).what]
<1>1. PICK d, v : d = l.by /\ v = NextStatement(c).what  OBVIOUS
<1>2. d \in Clients /\ v \in Locked /\ l \in locks /\ l.row = Row(txn[c], v)
  BY <1>1, WaitsForLocked DEF TInv, LocksHeld, Blocking
<1>3. PICK w \in Locked : Seen(txn[d], w) /\ l = LockOf(txn[d], w, d)
  BY <1>1, <1>2 DEF TInv, LocksHeld
<1>4. w = v
  <2>1. l.row = Row(txn[d], w)  BY <1>3 DEF LockOf
  <2>2. QED  BY <1>2, <2>1, RowsDiffer
<1>5. /\ Progress(txn[d]) /\ txn[d].op \in Ops
      /\ txn[d].done + 1 \in 1..Len(Plan(txn[d].op)) /\ NextStatement(d).what \in Locked
  BY <1>1, <1>2, WaitsForLocked
<1>6. PICK m \in 1..txn[d].done : Plan(txn[d].op)[m].what = v  BY <1>3, <1>4, <1>5 DEF Progress, Seen
<1>7. Ordered(txn[d].op, Plan(txn[d].op))  BY <1>5, PlansAreOrdered
<1>8. PICK p, k, n : p = Plan(txn[d].op) /\ k = txn[d].done /\ n = k + 1  OBVIOUS
<1>9. k \in Nat /\ n \in 1..Len(p) /\ m \in 1..(n - 1) /\ p[m].what = v /\ p[n].what \in Locked
  <2>1. k \in Nat  BY <1>5, <1>8 DEF Progress
  <2>2. m \in 1..k /\ n \in 1..Len(p) /\ p[m].what = v  BY <1>5, <1>6, <1>8
  <2>3. p[n].what \in Locked  BY <1>5, <1>8 DEF NextStatement
  <2>4. QED  BY <1>8, <2>1, <2>2, <2>3
<1>10. Rank[v] < Rank[p[n].what]  BY <1>2, <1>7, <1>8, <1>9 DEF Ordered
<1>11. QED  BY <1>1, <1>2, <1>8, <1>10 DEF NextStatement

LEMMA NoCircle == TInv => NoCircularWait
<1> SUFFICES ASSUME TInv, NEW S \in SUBSET Clients, S # {},
                    \A c \in S : Waiting(c) /\ \E l \in Blocking(c, NextStatement(c)) : l.by \in S
             PROVE  FALSE
  <2>1. ASSUME NEW S \in SUBSET Clients, S # {},
               ~ \E c \in S : ~ (Waiting(c) /\ \E d \in S : \E l \in Blocking(c, NextStatement(c)) : l.by = d)
        PROVE  \A c \in S : Waiting(c) /\ \E l \in Blocking(c, NextStatement(c)) : l.by \in S
    <3> TAKE c \in S
    <3>1. Waiting(c) /\ \E d \in S : \E l \in Blocking(c, NextStatement(c)) : l.by = d  BY <2>1
    <3>2. QED  BY <3>1
  <2>2. QED  BY <2>1 DEF NoCircularWait
<1> DEFINE R(c) == Rank[NextStatement(c).what]
<1>1. \A c \in S : R(c) \in 1..4
  <2>1. \A c \in S : NextStatement(c).what \in Locked  BY WaitsForLocked
  <2>2. QED  BY <2>1 DEF Rank, Locked
<1>2. \A c \in S : \E d \in S : R(c) < R(d)  BY HolderIsFurther
<1> HIDE DEF R
<1>3. PICK c1 \in S : TRUE  OBVIOUS
<1>4. PICK c2 \in S : R(c1) < R(c2)  BY <1>2
<1>5. PICK c3 \in S : R(c2) < R(c3)  BY <1>2
<1>6. PICK c4 \in S : R(c3) < R(c4)  BY <1>2
<1>7. PICK c5 \in S : R(c4) < R(c5)  BY <1>2
<1>8. QED  BY <1>1, <1>4, <1>5, <1>6, <1>7
-----------------------------------------------------------------------------
(* Every commit is an atomic step.                                          *)

\* At its commit a transaction has read all its plan says.
Ready(c, t) ==
    /\ t = txn[c] /\ t.op \in Ops /\ DOMAIN t.seen = Reads(t.op) /\ Passes(t)
    /\ Subject(c, t) /\ Current(t) /\ HasLocks(c, t) /\ UNCHANGED view

LEMMA CommitIsReady ==
    ASSUME TInv, NEW c \in Clients, Commit(c)
    PROVE  Ready(c, txn[c])
<1>1. PICK t : t = txn[c]  OBVIOUS
<1>2. t # Idle /\ t.done = Len(Plan(t.op)) /\ UNCHANGED view  BY <1>1 DEF Commit
<1>3. Subject(c, t) /\ Progress(t) /\ Current(t) /\ HasLocks(c, t)  BY <1>1, <1>2 DEF TInv, Good
<1>4. Ordered(t.op, Plan(t.op))  BY <1>3, PlansAreOrdered DEF Progress
<1>5. t.done > 0
  <2>1. PICK n : n = Len(Plan(t.op))  OBVIOUS
  <2>2. n \in 1..6 /\ t.done = n  BY <1>2, <1>4, <2>1 DEF Ordered
  <2>3. n > 0  BY <2>2
  <2>4. QED  BY <2>2, <2>3
<1>6. QED  BY <1>1, <1>2, <1>3, <1>5 DEF Ready, Progress, Reads

LEMMA CommitOrderOp ==
    ASSUME TInv, NEW c \in Clients, Commit(c), NEW t, t = txn[c], t.op \in StaffOrderOps \cup OwnerOps
    PROVE  /\ t.op = "start_processing" => StartProcessing(c, t.order)
           /\ t.op = "ready_shipped" => ReadyShipped(c, t.order)
           /\ t.op = "staff_cancel" => StaffCancel(c, t.order)
           /\ t.op = "cancel_order" => CancelOrder(c, t.order)
           /\ t.op = "confirm_delivery" => ConfirmDelivery(c, t.order)
<1>1. Ready(c, t)  BY CommitIsReady
<1>2. WriteOrder(t)  BY DEF Commit, StaffOrderOps, OwnerOps
<1>3. PICK o \in Orders : o = t.order  BY <1>1 DEF Ready, Subject
<1>4. Seen(t, "order") /\ (t.op # "confirm_delivery" => Seen(t, "payment"))
  BY <1>1, PlansAreOrdered DEF Ready, Seen, StaffOrderOps, OwnerOps
<1>5. /\ t.seen.order = order[o] /\ (t.op # "confirm_delivery" => t.seen.payment = payment[o])
  BY <1>1, <1>3, <1>4 DEF Ready, Current, StaffOrderOps, OwnerOps
<1>6. /\ order[o].version = t.version /\ order[o].status = RequiredStatus[t.op]
      /\ t.op # "confirm_delivery" => CompatibleSeen(payment[o])
  <2>1. OrderPasses(t)  BY <1>1 DEF Ready, Passes
  <2>2. QED  BY <1>4, <1>5, <2>1 DEF OrderPasses, VersionIs, StaffOrderOps, OwnerOps
<1>7. Submits(c, o)
  <2>1. view[c].row = o /\ view[c].version = t.version  BY <1>1, <1>3 DEF Ready, Subject
  <2>2. QED  BY <1>6, <2>1 DEF Submits, Version
<1>8. t.op # "confirm_delivery" => Compatible(o)
  BY <1>6 DEF CompatibleSeen, Compatible, Uncollected
<1>9. UNCHANGED <<request, refund, view>>  BY <1>1, <1>2 DEF Ready, WriteOrder
<1>10. RequiredStatus.start_processing = "pending" /\ RequiredStatus.ready_shipped = "processing"
       /\ RequiredStatus.staff_cancel = "pending" /\ RequiredStatus.cancel_order = "pending"
       /\ RequiredStatus.confirm_delivery = "ready_shipped"
  BY DEF RequiredStatus
<1>11. t.op = "start_processing" => StartProcessing(c, o)
  BY <1>2, <1>3, <1>6, <1>7, <1>8, <1>9, <1>10 DEF WriteOrder, StartProcessing
<1>12. t.op = "ready_shipped" => ReadyShipped(c, o)
  BY <1>2, <1>3, <1>6, <1>7, <1>8, <1>9, <1>10 DEF WriteOrder, ReadyShipped
<1>13. t.op \in {"staff_cancel", "cancel_order"} => CancelEffect(o)
  <2> SUFFICES ASSUME t.op \in {"staff_cancel", "cancel_order"} PROVE CancelEffect(o)  OBVIOUS
  <2>1. MoveOrder(o, "cancelled")  BY <1>2, <1>3 DEF WriteOrder
  <2>2. payment' = [payment EXCEPT ![o].status = IF payment[o].status = "paid" THEN "refunded" ELSE @]
    BY <1>2, <1>3, <1>5 DEF WriteOrder
  <2>3. payment' = [payment EXCEPT ![o].status = IF @ = "paid" THEN "refunded" ELSE @]
    BY <2>2 DEF TInv, TypeOK
  <2>4. QED  BY <1>6, <1>8, <1>9, <1>10, <2>1, <2>3 DEF CancelEffect
<1>14. t.op = "cancel_order" => Owner[o] = c
  BY <1>1, <1>3 DEF Ready, Subject, OwnerOps
<1>15. t.op = "confirm_delivery" => ConfirmDelivery(c, o)
  <2>1. t.op = "confirm_delivery" => Owner[o] = c
    BY <1>1, <1>3 DEF Ready, Subject, OwnerOps
  <2>2. QED  BY <1>2, <1>3, <1>6, <1>7, <1>9, <1>10, <2>1 DEF WriteOrder, ConfirmDelivery
<1>16. QED  BY <1>3, <1>7, <1>11, <1>12, <1>13, <1>14, <1>15 DEF StaffCancel, CancelOrder
LEMMA CommitRequestOp ==
    ASSUME TInv, NEW c \in Clients, Commit(c), NEW t, t = txn[c],
           t.op \in {"create_request", "approve", "reject"}
    PROVE  /\ t.op = "create_request" => c \in Customers /\ \E r \in Requests : CreateRequest(c, r, t.item, t.amount)
           /\ t.op = "approve" => Approve(c, t.request)
           /\ t.op = "reject" => Reject(c, t.request)
<1>1. Ready(c, t)  BY CommitIsReady
<1>2. WriteRequest(t)  BY DEF Commit, StaffOrderOps, OwnerOps
<1>3. UNCHANGED <<order, payment, refund, view>>  BY <1>1, <1>2 DEF Ready, WriteRequest
<1>4. PICK i \in Items : i = t.item  BY <1>1 DEF Ready, Subject, RequestOps, AmountOps
<1>5. t.order = OrderOf[i] /\ OrderOf[i] \in Orders
  BY <1>1, <1>4 DEF Ready, Subject, RequestOps, AmountOps
<1>6. RefundPasses(t)  BY <1>1 DEF Ready, Passes, StaffOrderOps, OwnerOps
<1>7. ASSUME t.op \in {"create_request", "approve"}
      PROVE  Eligible(OrderOf[i]) /\ t.amount <= Remaining(i, Refunded(i) + Reserved(i, {t.request}))
  <2>1. Seen(t, "order") /\ Seen(t, "payment") /\ Seen(t, "refunded") /\ Seen(t, "reserved")
    BY <1>1, <1>7, PlansAreOrdered DEF Ready, Seen
  <2>2. /\ t.seen.order = order[t.order] /\ t.seen.payment = payment[t.order]
        /\ t.seen.refunded = Refunded(i) /\ t.seen.reserved = Reserved(i, {t.request})
    BY <1>1, <1>4, <1>7, <2>1 DEF Ready, Current, Value
  <2>3. QED  BY <1>4, <1>5, <1>6, <2>1, <2>2 DEF RefundPasses, EligibleSeen, Eligible
<1>8. t.op \in {"approve", "reject"} =>
        /\ c \in Staff /\ t.request \in Requests /\ i = request[t.request].item /\ t.amount = request[t.request].amount
        /\ request[t.request].status = "pending" /\ Submits(c, t.request)
  <2> SUFFICES ASSUME t.op \in {"approve", "reject"}
               PROVE  /\ c \in Staff /\ t.request \in Requests /\ i = request[t.request].item
                      /\ t.amount = request[t.request].amount
                      /\ request[t.request].status = "pending" /\ Submits(c, t.request)
    OBVIOUS
  <2>1. Seen(t, "request") /\ t.seen.request = request[t.request]
    BY <1>1, PlansAreOrdered DEF Ready, Seen, Current
  <2>2. request[t.request].version = t.version /\ request[t.request].status = "pending"
    BY <1>6, <2>1 DEF RefundPasses, VersionIs, RequiredStatus
  <2>3. /\ c \in Staff /\ t.request \in Requests /\ i = request[t.request].item
        /\ t.amount = request[t.request].amount
        /\ view[c].row = t.request /\ view[c].version = t.version
    BY <1>1, <1>4 DEF Ready, Subject, RequestOps
  <2>4. QED  BY <2>2, <2>3, RowsAssumption DEF Submits, Version
<1>9. t.op = "approve" => Approve(c, t.request)
  <2> SUFFICES ASSUME t.op = "approve" PROVE Approve(c, t.request)  OBVIOUS
  <2>1. MoveRequest(t.request, "approved")  BY <1>2 DEF WriteRequest
  <2>2. QED  BY <1>3, <1>7, <1>8, <2>1 DEF Approve
<1>10. t.op = "reject" => Reject(c, t.request)
  <2> SUFFICES ASSUME t.op = "reject" PROVE Reject(c, t.request)  OBVIOUS
  <2>1. MoveRequest(t.request, "rejected")  BY <1>2 DEF WriteRequest
  <2>2. QED  BY <1>3, <1>8, <2>1 DEF Reject
<1>11. ASSUME t.op = "create_request"
       PROVE  c \in Customers /\ \E r \in Requests : CreateRequest(c, r, i, t.amount)
  <2>1. c \in Customers /\ Owner[OrderOf[i]] = c /\ t.request = None
    BY <1>1, <1>5, <1>11 DEF Ready, Subject, AmountOps
  <2>2. PICK r \in Requests :
          /\ request[r] = NoRequest
          /\ request' = [request EXCEPT ![r] = [status |-> "pending", version |-> 1, item |-> i, amount |-> t.amount]]
    BY <1>2, <1>4, <1>11 DEF WriteRequest
  <2>3. \A q \in Requests : ~ (request[q].item = i /\ request[q].status = "pending")
    <3>1. Seen(t, "pending")  BY <1>1, <1>11, PlansAreOrdered DEF Ready, Seen
    <3>2. t.seen["pending"] = {q \in Requests : request[q].item = i /\ request[q].status = "pending"}
      BY <1>1, <1>4, <3>1 DEF Ready, Current, Value
    <3>3. t.seen["pending"] = {}  BY <1>6, <3>1 DEF RefundPasses
    <3>4. QED  BY <3>2, <3>3
  <2>4. Reserved(i, {t.request}) = Reserved(i, {})
    <3>1. ApprovedOf(i) \ {t.request} = ApprovedOf(i) \ {}  BY <2>1, RowsAssumption DEF ApprovedOf
    <3>2. QED  BY <3>1 DEF Reserved
  <2>5. QED  BY <1>3, <1>7, <1>11, <2>1, <2>2, <2>3, <2>4 DEF CreateRequest
<1>12. QED  BY <1>4, <1>9, <1>10, <1>11

LEMMA CommitRefundOp ==
    ASSUME TInv, NEW c \in Clients, Commit(c), NEW t, t = txn[c], t.op \in {"process", "post_refund"}
    PROVE  \E f \in Refunds : /\ t.op = "process" => Process(c, t.request, f)
                              /\ t.op = "post_refund" => PostRefund(f, t.item, t.amount)
<1>1. Ready(c, t)  BY CommitIsReady
<1>2. PICK f \in Refunds : WriteRefund(t, f)
  BY DEF Commit, StaffOrderOps, OwnerOps
<1>3. PICK i \in Items : i = t.item  BY <1>1 DEF Ready, Subject, RequestOps, AmountOps
<1>4. PICK o \in Orders : o = t.order /\ o = OrderOf[i]
  BY <1>1, <1>3 DEF Ready, Subject, RequestOps, AmountOps
<1>5. InsertRefund(f, i, t.amount, t.request)  BY <1>2, <1>3 DEF WriteRefund
<1>6. RefundPasses(t)  BY <1>1 DEF Ready, Passes, StaffOrderOps, OwnerOps
<1>7. Seen(t, "refunded") /\ ~ Seen(t, "reserved")
  BY <1>1, PlansAreOrdered DEF Ready, Seen
<1>8. t.amount <= Remaining(i, Refunded(i))
  <2>1. t.seen.refunded = Refunded(i)  BY <1>1, <1>3, <1>7 DEF Ready, Current, Value
  <2>2. Refunded(i) \in Nat  BY SumsAreNumbers DEF TInv
  <2>3. QED  BY <1>3, <1>6, <1>7, <2>1, <2>2 DEF RefundPasses
<1>9. ASSUME t.op = "post_refund" PROVE PostRefund(f, i, t.amount)
  <2>1. order[OrderOf[i]] # NoOrder /\ t.request = None /\ t.amount \in 1..Price[i]
    BY <1>1, <1>3, <1>4, <1>9 DEF Ready, Subject, AmountOps
  <2>2. Refunded(i) \in Nat /\ Price[i] \in Nat  BY SumsAreNumbers, PriceAssumption DEF TInv
  <2>3. Refunded(i) + t.amount <= Price[i]  BY <1>8, <2>1, <2>2 DEF Remaining
  <2>4. UNCHANGED <<order, payment, request, view>>  BY <1>1, <1>2, <1>9 DEF Ready, WriteRefund
  <2>5. QED  BY <1>5, <2>1, <2>3, <2>4 DEF PostRefund
<1>10. ASSUME t.op = "process" PROVE Process(c, t.request, f)
  <2>1. PICK r \in Requests : r = t.request  BY <1>1, <1>10 DEF Ready, Subject, RequestOps
  <2>2. /\ c \in Staff /\ i = request[r].item /\ t.amount = request[r].amount
        /\ view[c].row = r /\ view[c].version = t.version /\ request[r] # NoRequest
    BY <1>1, <1>3, <1>10, <2>1 DEF Ready, Subject, RequestOps
  <2>3. Seen(t, "order") /\ Seen(t, "payment") /\ Seen(t, "request") /\ Seen(t, "order_refunded")
    BY <1>1, <1>10, PlansAreOrdered DEF Ready, Seen
  <2>4. /\ t.seen.order = order[o] /\ t.seen.payment = payment[o] /\ t.seen.request = request[r]
        /\ t.seen.order_refunded = OrderRefunded(o, refund)
    BY <1>1, <1>4, <1>10, <2>1, <2>3 DEF Ready, Current, Value
  <2>5. request[r].version = t.version /\ request[r].status = "approved"
    BY <1>6, <1>10, <2>3, <2>4 DEF RefundPasses, VersionIs, RequiredStatus
  <2>6. Eligible(o)  BY <1>6, <2>3, <2>4 DEF RefundPasses, EligibleSeen, Eligible
  <2>7. Submits(c, r)  BY <2>2, <2>5, RowsAssumption DEF Submits, Version
  <2>8. OrderRefunded(o, refund') = OrderRefunded(o, refund) + t.amount
    <3>1. t.amount \in Nat \ {0}  BY <2>2 DEF TInv, TypeOK, NoRequest
    <3>2. QED  BY <1>4, <1>5, <3>1, BackGrows DEF TInv
  <2>9. /\ MoveRequest(r, "processed")
        /\ IF CoversOrder(o, refund')
             THEN payment' = [payment EXCEPT ![o].status = "refunded"] /\ MoveOrder(o, "refunded")
             ELSE payment' = [payment EXCEPT ![o].status = "partially_refunded"] /\ UNCHANGED order
    BY <1>2, <1>4, <1>10, <2>1, <2>4, <2>8 DEF WriteRefund, CoversOrder
  <2>10. UNCHANGED view  BY <1>1 DEF Ready
  <2>11. QED  BY <1>4, <1>5, <1>8, <2>1, <2>2, <2>5, <2>6, <2>7, <2>9, <2>10 DEF Process
<1>11. QED  BY <1>3, <1>9, <1>10
-----------------------------------------------------------------------------
(* What a commit changes, it has locked.                                    *)

Same(i) ==
    /\ Refunded(i)' = Refunded(i) /\ \A X : Reserved(i, X)' = Reserved(i, X)
    /\ {q \in Requests : request'[q].item = i /\ request'[q].status = "pending"}
         = {q \in Requests : request[q].item = i /\ request[q].status = "pending"}

LEMMA SameIf ==
    ASSUME NEW i \in Items, Refunded(i)' = Refunded(i),
           \A r \in Requests : request'[r] = request[r] \/ (request[r].item # i /\ request'[r].item # i)
    PROVE  Same(i)
<1>1. {q \in Requests : request'[q].item = i /\ request'[q].status = "pending"}
        = {q \in Requests : request[q].item = i /\ request[q].status = "pending"}
  OBVIOUS
<1>2. ASSUME NEW X PROVE Reserved(i, X)' = Reserved(i, X)
  <2>1. ApprovedOf(i)' = ApprovedOf(i)  BY DEF ApprovedOf
  <2>2. \A r \in ApprovedOf(i) \ X : RequestAmounts'[r] = RequestAmounts[r]
    BY DEF ApprovedOf, RequestAmounts
  <2>3. Sum(ApprovedOf(i) \ X, RequestAmounts') = Sum(ApprovedOf(i) \ X, RequestAmounts)
    BY <2>2, SumSame
  <2>4. QED  BY <2>1, <2>3 DEF Reserved
<1>3. QED  BY <1>1, <1>2 DEF Same

\* The rows a step writes, for a step of transaction t.
Touches(t) ==
    /\ \A o \in Orders : order'[o] # order[o] => o = t.order /\ Seen(t, "order") /\ t.op # "post_refund"
    /\ \A o \in Orders : payment'[o] # payment[o] => o = t.order /\ Seen(t, "payment")
    /\ \A r \in Requests : request'[r] # request[r] =>
         request[r] = NoRequest \/ (r = t.request /\ Seen(t, "request"))
    /\ \A i \in Items : Same(i) \/ (i = t.item /\ Seen(t, "item"))
    /\ \A o \in Orders : OrderRefunded(o, refund') = OrderRefunded(o, refund)
                           \/ (o = t.order /\ Seen(t, "order"))

LEMMA CommitTouches ==
    ASSUME TInv, NEW c \in Clients, Commit(c), NEW t, t = txn[c]
    PROVE  Touches(t) /\ t.op \in Ops
<1>1. Ready(c, t) /\ t.op \in Ops  BY CommitIsReady DEF Ready
<1>2. TypeOK  BY DEF TInv
<1>3. ASSUME t.op \in StaffOrderOps \cup OwnerOps PROVE Touches(t)
  <2>1. Seen(t, "order") /\ (t.op # "confirm_delivery" => Seen(t, "payment")) /\ t.op # "post_refund"
    BY <1>1, <1>3, PlansAreOrdered DEF Ready, Seen, StaffOrderOps, OwnerOps
  <2>2. PICK o \in Orders : o = t.order  BY <1>1 DEF Ready, Subject
  <2>3. WriteOrder(t)  BY <1>3 DEF Commit, StaffOrderOps, OwnerOps
  <2>4. UNCHANGED <<request, refund>> /\ \A p \in Orders \ {o} : order'[p] = order[p] /\ payment'[p] = payment[p]
    BY <1>2, <1>3, <2>2, <2>3 DEF WriteOrder, MoveOrder, TypeOK, StaffOrderOps, OwnerOps
  <2>5. t.op = "confirm_delivery" => UNCHANGED payment  BY <2>3 DEF WriteOrder
  <2>6. \A i \in Items : Same(i)  BY <2>4, RefundedUnchanged, SameIf
  <2>7. QED  BY <2>1, <2>2, <2>4, <2>5, <2>6 DEF Touches
<1>4. ASSUME t.op \in {"create_request", "approve", "reject"} PROVE Touches(t)
  <2>1. WriteRequest(t)  BY <1>4 DEF Commit, StaffOrderOps, OwnerOps
  <2>2. UNCHANGED <<order, payment, refund>>  BY <2>1 DEF WriteRequest
  <2>3. PICK i \in Items : i = t.item  BY <1>1, <1>4 DEF Ready, Subject, RequestOps, AmountOps
  <2>4. Seen(t, "item") /\ (t.op # "create_request" => Seen(t, "request"))
    BY <1>1, <1>4, PlansAreOrdered DEF Ready, Seen
  <2>5. CASE t.op = "create_request"
    <3>1. PICK r \in Requests :
            /\ request[r] = NoRequest
            /\ request' = [request EXCEPT ![r] = [status |-> "pending", version |-> 1, item |-> i, amount |-> t.amount]]
      BY <2>1, <2>3, <2>5 DEF WriteRequest
    <3>2. request[r].item = None /\ request'[r].item = i /\ \A q \in Requests \ {r} : request'[q] = request[q]
      BY <1>2, <3>1 DEF TypeOK, NoRequest
    <3>3. \A j \in Items \ {i} : Same(j)
      <4> TAKE j \in Items \ {i}
      <4>1. None # j  BY RowsAssumption
      <4>2. QED  BY <2>2, <3>2, <4>1, RefundedUnchanged, SameIf
    <3>4. QED  BY <2>2, <2>3, <2>4, <3>1, <3>2, <3>3 DEF Touches
  <2>6. CASE t.op # "create_request"
    <3>1. PICK r \in Requests : r = t.request /\ request[r] # NoRequest /\ request[r].item = i
      BY <1>1, <1>4, <2>3, <2>6 DEF Ready, Subject, RequestOps
    <3>2. PICK status : MoveRequest(r, status)  BY <1>4, <2>1, <2>6, <3>1 DEF WriteRequest
    <3>3. request'[r].item = i /\ \A q \in Requests \ {r} : request'[q] = request[q]
      BY <1>2, <3>1, <3>2 DEF MoveRequest, TypeOK
    <3>4. \A j \in Items \ {i} : Same(j)  BY <2>2, <3>1, <3>3, RefundedUnchanged, SameIf
    <3>5. QED  BY <2>2, <2>3, <2>4, <2>6, <3>1, <3>3, <3>4 DEF Touches
  <2>7. QED  BY <2>5, <2>6
<1>5. ASSUME t.op \in {"process", "post_refund"} PROVE Touches(t)
  <2>1. PICK f \in Refunds : WriteRefund(t, f)  BY <1>5 DEF Commit, StaffOrderOps, OwnerOps
  <2>2. PICK i \in Items : i = t.item  BY <1>1, <1>5 DEF Ready, Subject, RequestOps, AmountOps
  <2>3. OrderOf[i] = t.order /\ t.order \in Orders /\ t.amount \in Nat \ {0}
    <3>1. OrderOf[i] = t.order /\ t.order \in Orders
      BY <1>1, <1>5, <2>2 DEF Ready, Subject, RequestOps, AmountOps
    <3>2. t.op = "process" => t.amount \in Nat \ {0}
      BY <1>1, <1>2 DEF Ready, Subject, RequestOps, TypeOK, NoRequest
    <3>3. t.op = "post_refund" => t.amount \in 1..Price[i]
      BY <1>1, <2>2 DEF Ready, Subject, AmountOps
    <3>4. Price[i] \in Nat  BY PriceAssumption
    <3>5. t.op = "post_refund" => t.amount \in Nat \ {0}  BY <3>3, <3>4
    <3>6. QED  BY <1>5, <3>1, <3>2, <3>5
  <2>4. InsertRefund(f, i, t.amount, t.request)  BY <2>1, <2>2 DEF WriteRefund
  <2>5. \A j \in Items \ {i} : Refunded(j)' = Refunded(j)  BY <1>2, <2>3, <2>4, InsertNew
  <2>6. \A o \in Orders \ {t.order} : OrderRefunded(o, refund') = OrderRefunded(o, refund)
    BY <1>2, <2>3, <2>4, BackGrows
  <2>7. Seen(t, "item") /\ Seen(t, "order") /\ (t.op = "process" => Seen(t, "request") /\ Seen(t, "payment"))
    BY <1>1, <1>5, PlansAreOrdered DEF Ready, Seen
  <2>8. CASE t.op = "post_refund"
    <3>1. UNCHANGED <<order, payment, request>>  BY <2>1, <2>8 DEF WriteRefund
    <3>2. \A j \in Items \ {i} : Same(j)  BY <2>5, <3>1, SameIf
    <3>3. QED  BY <2>2, <2>6, <2>7, <3>1, <3>2 DEF Touches
  <2>9. CASE t.op = "process"
    <3>1. PICK r \in Requests : r = t.request /\ request[r] # NoRequest /\ request[r].item = i
      BY <1>1, <2>2, <2>9 DEF Ready, Subject, RequestOps
    <3>2. MoveRequest(r, "processed")  BY <2>1, <2>9, <3>1 DEF WriteRefund
    <3>3. request'[r].item = i /\ \A q \in Requests \ {r} : request'[q] = request[q]
      BY <1>2, <3>1, <3>2 DEF MoveRequest, TypeOK
    <3>4. \A j \in Items \ {i} : Same(j)  BY <2>5, <3>1, <3>3, SameIf
    <3>5. \A o \in Orders \ {t.order} : order'[o] = order[o] /\ payment'[o] = payment[o]
      BY <1>2, <2>1, <2>3, <2>9 DEF WriteRefund, MoveOrder, TypeOK
    <3>6. QED  BY <2>2, <2>6, <2>7, <2>9, <3>1, <3>3, <3>4, <3>5 DEF Touches
  <2>10. QED  BY <1>5, <2>8, <2>9
<1>6. QED  BY <1>1, <1>3, <1>4, <1>5 DEF Ops, RequestOps, AmountOps
-----------------------------------------------------------------------------
(* What a transaction has read, nobody else changes.                        *)

\* Two transactions that have locked the same row, one of them for update.
LEMMA Excluded ==
    ASSUME TInv, NEW c \in Clients, NEW d \in Clients, c # d, txn[c] # Idle, txn[d] # Idle,
           NEW w \in Locked, Seen(txn[c], w), Seen(txn[d], w), Row(txn[c], w) = Row(txn[d], w)
    PROVE  Mode(txn[c].op, w) = "key_share" /\ Mode(txn[d].op, w) = "key_share"
<1>1. PICK l, m : l = LockOf(txn[c], w, c) /\ m = LockOf(txn[d], w, d)  OBVIOUS
<1>2. l \in locks /\ m \in locks  BY <1>1 DEF TInv, Good, HasLocks
<1>3. l.row = m.row /\ l.by = c /\ m.by = d /\ l.mode = Mode(txn[c].op, w) /\ m.mode = Mode(txn[d].op, w)
  BY <1>1 DEF LockOf
<1>4. ~ Conflict(l.mode, m.mode)  BY <1>2, <1>3 DEF TInv, Exclusive
<1>5. QED  BY <1>3, <1>4 DEF Conflict

\* What is read of an item or of an order's refunds is read under the lock of that row.
LEMMA ReadUnderLock ==
    ASSUME TInv, NEW d \in Clients, NEW t, t = txn[d], t # Idle
    PROVE  /\ Seen(t, "pending") \/ Seen(t, "refunded") \/ Seen(t, "reserved") =>
                Seen(t, "item") /\ t.item \in Items
           /\ Seen(t, "order_refunded") => Seen(t, "order") /\ t.op # "post_refund" /\ t.order \in Orders
           /\ Seen(t, "item") => t.item \in Items
           /\ Seen(t, "request") => t.request \in Requests /\ request[t.request] # NoRequest
<1>1. Progress(t) /\ Subject(d, t)  BY DEF TInv, Good
<1>2. PICK p, k : p = Plan(t.op) /\ k = t.done  OBVIOUS
<1>3. Ordered(t.op, p) /\ k \in 0..Len(p) /\ DOMAIN t.seen = {p[n].what : n \in 1..k}
  BY <1>1, <1>2, PlansAreOrdered DEF Progress
<1>4. \A n \in 1..k : n \in 1..Len(p) /\ \A m \in 1..(n - 1) : m \in 1..k
  <2>1. k \in Nat /\ Len(p) \in Nat /\ k <= Len(p)  BY <1>3 DEF Ordered
  <2>2. QED  BY <2>1
<1>5. \A w \in {"pending", "refunded", "reserved"} : Seen(t, w) => Seen(t, "item")
  BY <1>3, <1>4 DEF Ordered, Seen
<1>6. Seen(t, "order_refunded") => Seen(t, "order")  BY <1>3, <1>4 DEF Ordered, Seen
<1>7. \A w : Seen(t, w) => w \in Reads(t.op)  BY <1>2, <1>3, <1>4 DEF Seen, Reads
<1>8. Seen(t, "order_refunded") => t.op # "post_refund"  BY <1>7, PlansAreOrdered
<1>9. Seen(t, "item") => t.op \notin StaffOrderOps \cup OwnerOps
  BY <1>7, PlansAreOrdered DEF StaffOrderOps, OwnerOps
<1>10. t.op \in Ops  BY <1>1 DEF Progress
<1>11. Seen(t, "item") => t.item \in Items  BY <1>1, <1>9, <1>10 DEF Subject, Ops
<1>12. Seen(t, "request") => t.op \in RequestOps
  BY <1>7, <1>10, PlansAreOrdered DEF Ops, StaffOrderOps, OwnerOps, AmountOps
<1>13. QED  BY <1>1, <1>5, <1>6, <1>8, <1>11, <1>12 DEF Subject

Untouched(t) ==
    /\ Seen(t, "order") /\ t.op # "post_refund" => order'[t.order] = order[t.order]
    /\ Seen(t, "payment") => payment'[t.order] = payment[t.order]
    /\ Seen(t, "request") => request'[t.request] = request[t.request]
    /\ \A what \in {"pending", "refunded", "reserved", "order_refunded"} :
         Seen(t, what) => Value(t, what)' = Value(t, what)

LEMMA SameValues ==
    ASSUME NEW t
    PROVE  /\ Same(t.item) => \A what \in {"pending", "refunded", "reserved"} : Value(t, what)' = Value(t, what)
           /\ OrderRefunded(t.order, refund') = OrderRefunded(t.order, refund) =>
                Value(t, "order_refunded")' = Value(t, "order_refunded")
BY DEF Value, Same

LEMMA OthersUntouched ==
    ASSUME TInv, NEW c \in Clients, NEW d \in Clients, c # d, txn[c] # Idle, txn[d] # Idle,
           NEW u, u = txn[c], Touches(u), NEW t, t = txn[d]
    PROVE  Untouched(t)
<1>1. \A w \in Locked : Seen(u, w) /\ Seen(t, w) /\ Row(u, w) = Row(t, w) =>
                          Mode(u.op, w) = "key_share" /\ Mode(t.op, w) = "key_share"
  BY Excluded
<1>2. \A op : /\ Mode(op, "item") = "update" /\ Mode(op, "request") = "update" /\ Mode(op, "payment") = "update"
              /\ op # "post_refund" => Mode(op, "order") = "update"
  BY DEF Mode
<1>3. t.order \in Orders  BY DEF TInv, Good, Subject
<1>4. ~ (Seen(u, "item") /\ Seen(t, "item") /\ u.item = t.item)
  BY <1>1, <1>2, RowIs DEF Locked
<1>5. ~ (Seen(u, "payment") /\ Seen(t, "payment") /\ u.order = t.order)
  BY <1>1, <1>2, RowIs DEF Locked
<1>6. ~ (Seen(u, "request") /\ Seen(t, "request") /\ u.request = t.request)
  BY <1>1, <1>2, RowIs DEF Locked
<1>7. ~ (Seen(u, "order") /\ Seen(t, "order") /\ u.order = t.order /\ (u.op # "post_refund" \/ t.op # "post_refund"))
  BY <1>1, <1>2, RowIs DEF Locked
<1>8. Seen(t, "order") /\ t.op # "post_refund" => order'[t.order] = order[t.order]
  BY <1>3, <1>7 DEF Touches
<1>9. Seen(t, "payment") => payment'[t.order] = payment[t.order]  BY <1>3, <1>5 DEF Touches
<1>10. Seen(t, "request") => request'[t.request] = request[t.request]
  BY <1>3, <1>6, ReadUnderLock DEF Touches
<1>11. Seen(t, "pending") \/ Seen(t, "refunded") \/ Seen(t, "reserved") => Same(t.item)
  <2> SUFFICES ASSUME Seen(t, "pending") \/ Seen(t, "refunded") \/ Seen(t, "reserved") PROVE Same(t.item)
    OBVIOUS
  <2>1. PICK i \in Items : i = t.item /\ Seen(t, "item")  BY ReadUnderLock
  <2>2. Same(i)  BY <1>3, <1>4, <2>1 DEF Touches
  <2>3. QED  BY <2>1, <2>2
<1>12. Seen(t, "order_refunded") => OrderRefunded(t.order, refund') = OrderRefunded(t.order, refund)
  BY <1>3, <1>7, ReadUnderLock DEF Touches
<1>13. QED  BY <1>8, <1>9, <1>10, <1>11, <1>12, SameValues DEF Untouched
-----------------------------------------------------------------------------
(* Rows stay, and a request keeps its item and its amount.                  *)

Stays ==
    /\ \A o \in Orders : order[o] # NoOrder => order'[o] # NoOrder
    /\ \A r \in Requests : request[r] # NoRequest =>
         /\ request'[r] # NoRequest
         /\ request'[r].item = request[r].item /\ request'[r].amount = request[r].amount

LEMMA RequestSteps ==
    ASSUME TypeOK, [ApiNext]_vars
    PROVE  \/ UNCHANGED request
           \/ \E r \in Requests : \E status : MoveRequest(r, status)
           \/ \E r \in Requests, i \in Items : \E row :
                /\ request[r] = NoRequest /\ request' = [request EXCEPT ![r] = row] /\ row.item = i
                /\ Eligible(OrderOf[i])
<1>1. CASE OrderStep
  BY <1>1 DEF OrderStep, Checkout, StartProcessing, ReadyShipped, StaffCancel, CancelOrder, CancelEffect,
              ConfirmDelivery
<1>2. CASE RefundStep
  <2>1. ASSUME NEW c \in Customers, NEW r \in Requests, NEW i \in Items, NEW amount \in 1..Price[i],
               CreateRequest(c, r, i, amount)
        PROVE  \E row : /\ request[r] = NoRequest /\ request' = [request EXCEPT ![r] = row] /\ row.item = i
                        /\ Eligible(OrderOf[i])
    <3>1. PICK row : row = [status |-> "pending", version |-> 1, item |-> i, amount |-> amount]  OBVIOUS
    <3>2. row.item = i  BY <3>1
    <3>3. QED  BY <2>1, <3>1, <3>2 DEF CreateRequest
  <2>2. ASSUME NEW s \in Staff, NEW r \in Requests,
               Approve(s, r) \/ Reject(s, r) \/ \E f \in Refunds : Process(s, r, f)
        PROVE  \E status : MoveRequest(r, status)
    BY <2>2 DEF Approve, Reject, Process
  <2>3. QED  BY <1>2, <2>1, <2>2 DEF RefundStep
<1>3. QED
  BY <1>1, <1>2 DEF ApiNext, Next, vars, Open, GenericStep, PostRefund, PutRefund, DeleteRefund

LEMMA RowsStay == TypeOK /\ [ApiNext]_vars => Stays
<1> SUFFICES ASSUME TypeOK, [ApiNext]_vars PROVE Stays  OBVIOUS
<1>1. ASSUME NEW o \in Orders, order[o] # NoOrder PROVE order'[o] # NoOrder
  <2>1. MovesOn(o) /\ Version(o) = order[o].version /\ Version(o)' = order'[o].version
    BY RowsMoveOn DEF Rows, Version
  <2>2. order[o].version \in Nat \ {0}  BY <1>1 DEF TypeOK
  <2>3. order'[o].version # 0  BY <2>1, <2>2 DEF MovesOn
  <2>4. QED  BY <2>3 DEF NoOrder
<1>2. ASSUME NEW r \in Requests, request[r] # NoRequest
      PROVE  /\ request'[r] # NoRequest
             /\ request'[r].item = request[r].item /\ request'[r].amount = request[r].amount
  <2>1. MovesOn(r) /\ Version(r) = request[r].version /\ Version(r)' = request'[r].version
    BY RowsMoveOn, RowsAssumption DEF Rows, Version
  <2>2. request[r].version \in Nat \ {0}  BY <1>2 DEF TypeOK
  <2>3. request'[r].version # 0  BY <2>1, <2>2 DEF MovesOn
  <2>4. request'[r] # NoRequest  BY <2>3 DEF NoRequest
  <2>5. request'[r].item = request[r].item /\ request'[r].amount = request[r].amount
    <3>1. CASE UNCHANGED request  BY <3>1
    <3>2. ASSUME NEW q \in Requests, NEW status, MoveRequest(q, status)
          PROVE  request'[r].item = request[r].item /\ request'[r].amount = request[r].amount
      BY <1>2, <3>2 DEF MoveRequest, TypeOK
    <3>3. ASSUME NEW q \in Requests, NEW row, request[q] = NoRequest, request' = [request EXCEPT ![q] = row]
          PROVE  request'[r] = request[r]
      BY <1>2, <3>3 DEF TypeOK
    <3>4. QED  BY <3>1, <3>2, <3>3, RequestSteps
  <2>6. QED  BY <2>4, <2>5
<1>3. QED  BY <1>1, <1>2 DEF Stays

LEMMA StepRequestsOfOrders == TypeOK /\ RequestsOfOrders /\ [ApiNext]_vars => RequestsOfOrders'
<1> SUFFICES ASSUME TypeOK, RequestsOfOrders, [ApiNext]_vars, NEW r \in Requests, request'[r] # NoRequest
             PROVE  \E i \in Items : i = request'[r].item /\ order'[OrderOf[i]] # NoOrder
  BY DEF RequestsOfOrders
<1>1. Stays  BY RowsStay
<1>2. CASE request[r] # NoRequest
  <2>1. PICK i \in Items : i = request[r].item  BY <1>2 DEF TypeOK
  <2>2. OrderOf[i] \in Orders /\ order[OrderOf[i]] # NoOrder  BY <1>2, <2>1, RowsAssumption DEF RequestsOfOrders
  <2>3. QED  BY <1>1, <1>2, <2>1, <2>2 DEF Stays
<1>3. CASE request[r] = NoRequest
  <2>1. ~ UNCHANGED request  BY <1>3
  <2>2. ASSUME NEW q \in Requests, NEW status, MoveRequest(q, status)
        PROVE  q # r
    <3>1. SUFFICES ASSUME q = r PROVE FALSE  OBVIOUS
    <3>2. TypeOK'  BY StepType
    <3>3. request'[r].item = None /\ request'[r] # NoRequest
      BY <1>3, <2>2, <3>1 DEF MoveRequest, TypeOK, NoRequest
    <3>4. request'[r].item \in Items  BY <3>2, <3>3 DEF TypeOK
    <3>5. QED  BY <3>3, <3>4, RowsAssumption
  <2>3. ASSUME NEW q \in Requests, NEW status, MoveRequest(q, status)
        PROVE  FALSE
    BY <1>3, <2>2, <2>3 DEF MoveRequest, TypeOK
  <2>4. PICK q \in Requests, i \in Items : \E row :
               /\ request[q] = NoRequest /\ request' = [request EXCEPT ![q] = row] /\ row.item = i
               /\ Eligible(OrderOf[i])
    BY <2>1, <2>3, RequestSteps
  <2>5. q = r /\ request'[r].item = i  BY <1>3, <2>4 DEF TypeOK
  <2>6. OrderOf[i] \in Orders /\ order[OrderOf[i]] # NoOrder  BY <2>4, RowsAssumption DEF Eligible, NoOrder
  <2>7. QED  BY <1>1, <2>5, <2>6 DEF Stays
<1>4. QED  BY <1>2, <1>3
-----------------------------------------------------------------------------
(* The inductive invariant.                                                 *)

\* A transaction that does not move while another step leaves what it read alone.
LEMMA Rests ==
    ASSUME TInv, NEW d \in Clients, NEW t, t = txn[d], txn'[d] = t, view'[d] = view[d], Stays,
           \A l \in locks : l.by = d => l \in locks',
           t # Idle => Untouched(t)
    PROVE  Good(d)'
<1> SUFFICES ASSUME t # Idle
             PROVE  Subject(d, txn[d])' /\ Progress(txn[d])' /\ Current(txn[d])' /\ HasLocks(d, txn[d])'
  BY DEF Good
<1>1. Subject(d, t) /\ Progress(t) /\ Current(t) /\ HasLocks(d, t) /\ Untouched(t)  BY DEF TInv, Good
<1>2. Subject(d, txn[d])'  BY <1>1 DEF Subject, Stays
<1>3. Progress(txn[d])'  BY <1>1
<1>4. Current(txn[d])'
  <2>1. Current(t)'  BY <1>1 DEF Current, Untouched
  <2>2. QED  BY <2>1 DEF Current, Value
<1>5. HasLocks(d, txn[d])'
  <2>1. \A what : LockOf(t, what, d).by = d  BY DEF LockOf
  <2>2. \A what \in Locked : Seen(t, what) => LockOf(t, what, d) \in locks'  BY <1>1, <2>1 DEF HasLocks
  <2>3. QED  BY <2>2 DEF HasLocks
<1>6. QED  BY <1>2, <1>3, <1>4, <1>5

\* A step of the abstract machine, and one that changes no row.
LEMMA StepBasics ==
    ASSUME TInv, [ApiNext]_vars
    PROVE  TypeOK' /\ ViewsOnceTrue' /\ RequestsOfOrders' /\ Stays
BY StepType, StepViews, StepRequestsOfOrders, RowsStay DEF TInv

LEMMA QuietlyUntouched ==
    ASSUME UNCHANGED <<order, payment, request, refund>>, NEW t
    PROVE  Untouched(t)
BY DEF Untouched, Value, Refunded, Reserved, RefundsOf, ApprovedOf, RefundAmounts, RequestAmounts

\* The client's locks go with its transaction.
LEMMA ReleaseInv ==
    ASSUME TInv, NEW c \in Clients, Release(c), [ApiNext]_vars, UNCHANGED view,
           \A d \in Clients \ {c} : txn[d] # Idle => \A t : t = txn[d] => Untouched(t)
    PROVE  TInv'
<1>1. DOMAIN txn = Clients /\ LocksHeld /\ Exclusive  BY DEF TInv
<1>2. /\ DOMAIN txn' = Clients /\ txn'[c] = Idle /\ \A d \in Clients \ {c} : txn'[d] = txn[d]
      /\ locks' = {l \in locks : l.by # c}
  BY <1>1 DEF Release
<1>3. TypeOK' /\ ViewsOnceTrue' /\ RequestsOfOrders' /\ Stays  BY StepBasics
<1>4. ASSUME NEW d \in Clients PROVE Good(d)'
  <2>1. CASE d = c  BY <1>2, <2>1 DEF Good
  <2>2. CASE d # c
    <3>1. PICK t : t = txn[d]  OBVIOUS
    <3>2. \A l \in locks : l.by = d => l \in locks'  BY <1>2, <2>2
    <3>3. txn'[d] = t /\ (t # Idle => Untouched(t))  BY <1>2, <2>2, <3>1
    <3>4. QED  BY <1>3, <3>1, <3>2, <3>3, Rests
  <2>3. QED  BY <2>1, <2>2
<1>5. LocksHeld'
  <2> SUFFICES ASSUME NEW l \in locks'
               PROVE  /\ l.by \in Clients /\ txn'[l.by] # Idle
                      /\ \E what \in Locked : Seen(txn'[l.by], what) /\ l = LockOf(txn'[l.by], what, l.by)
    BY DEF LocksHeld
  <2>1. l \in locks /\ l.by # c  BY <1>2
  <2>2. QED  BY <1>1, <1>2, <2>1 DEF LocksHeld
<1>6. Exclusive'  BY <1>1, <1>2 DEF Exclusive
<1>7. QED  BY <1>2, <1>3, <1>4, <1>5, <1>6 DEF TInv
LEMMA CommitIsAtomic ==
    ASSUME TInv, NEW c \in Clients, Commit(c)
    PROVE  ApiNext
<1>1. PICK t : t = txn[c]  OBVIOUS
<1>2. t.op \in Ops /\ Subject(c, t)  BY <1>1, CommitIsReady DEF Ready
<1>3. CASE t.op \in StaffOrderOps \cup OwnerOps
  <2>1. PICK o \in Orders : o = t.order  BY <1>2 DEF Subject
  <2>2. (t.op \in StaffOrderOps => c \in Staff) /\ (t.op \in OwnerOps => c \in Customers)
    BY <1>2, <1>3 DEF Subject
  <2>3. /\ t.op = "start_processing" => StartProcessing(c, o)
        /\ t.op = "ready_shipped" => ReadyShipped(c, o)
        /\ t.op = "staff_cancel" => StaffCancel(c, o)
        /\ t.op = "cancel_order" => CancelOrder(c, o)
        /\ t.op = "confirm_delivery" => ConfirmDelivery(c, o)
    BY <1>1, <1>3, <2>1, CommitOrderOp
  <2>4. OrderStep  BY <1>3, <2>1, <2>2, <2>3 DEF OrderStep, StaffOrderOps, OwnerOps
  <2>5. QED  BY <2>4 DEF ApiNext, Next
<1>4. CASE t.op \in {"create_request", "approve", "reject"}
  <2>1. /\ t.op = "create_request" => c \in Customers /\ \E r \in Requests : CreateRequest(c, r, t.item, t.amount)
        /\ t.op = "approve" => Approve(c, t.request)
        /\ t.op = "reject" => Reject(c, t.request)
    BY <1>1, <1>4, CommitRequestOp
  <2>2. /\ t.op = "create_request" => t.item \in Items /\ t.amount \in 1..Price[t.item]
        /\ t.op \in {"approve", "reject"} => c \in Staff /\ t.request \in Requests
    BY <1>2 DEF Subject, RequestOps, AmountOps
  <2>3. RefundStep  BY <1>4, <2>1, <2>2 DEF RefundStep
  <2>4. QED  BY <2>3 DEF ApiNext, Next
<1>5. CASE t.op \in {"process", "post_refund"}
  <2>1. PICK f \in Refunds : /\ t.op = "process" => Process(c, t.request, f)
                             /\ t.op = "post_refund" => PostRefund(f, t.item, t.amount)
    BY <1>1, <1>5, CommitRefundOp
  <2>2. /\ t.op = "post_refund" => t.item \in Items /\ t.amount \in 1..Price[t.item]
        /\ t.op = "process" => c \in Staff /\ t.request \in Requests
    BY <1>2 DEF Subject, RequestOps, AmountOps
  <2>3. RefundStep \/ GenericStep  BY <1>5, <2>1, <2>2 DEF RefundStep, GenericStep
  <2>4. QED  BY <2>3 DEF ApiNext, Next
<1>6. QED  BY <1>2, <1>3, <1>4, <1>5 DEF Ops, RequestOps, AmountOps

LEMMA CommitInv ==
    ASSUME TInv, NEW c \in Clients, Commit(c)
    PROVE  TInv'
<1>1. PICK u : u = txn[c]  OBVIOUS
<1>2. u # Idle /\ Release(c) /\ UNCHANGED view  BY <1>1 DEF Commit
<1>3. Touches(u)  BY <1>1, CommitTouches
<1>4. \A d \in Clients \ {c} : txn[d] # Idle => \A t : t = txn[d] => Untouched(t)
  BY <1>1, <1>2, <1>3, OthersUntouched
<1>5. QED  BY <1>2, <1>4, CommitIsAtomic, ReleaseInv

LEMMA RollBackInv ==
    ASSUME TInv, NEW c \in Clients, Release(c), UNCHANGED vars
    PROVE  TInv'
<1>1. UNCHANGED <<order, payment, request, refund>> /\ UNCHANGED view  BY DEF vars
<1>2. QED  BY <1>1, QuietlyUntouched, ReleaseInv

LEMMA BeginInv ==
    ASSUME TInv, NEW c \in Clients, NEW op \in Ops, NEW o, NEW i, NEW r, NEW amount, NEW version,
           Begin(c, op, o, i, r, amount, version),
           NEW t, t = [op |-> op, order |-> o, item |-> i, request |-> r,
                       amount |-> amount, version |-> version, done |-> 0, seen |-> <<>>],
           Subject(c, t)
    PROVE  TInv'
<1>1. DOMAIN txn = Clients /\ LocksHeld /\ Exclusive /\ txn[c] = Idle  BY DEF TInv, Begin
<1>2. /\ DOMAIN txn' = Clients /\ txn'[c] = t /\ \A d \in Clients \ {c} : txn'[d] = txn[d]
      /\ UNCHANGED <<vars, locks>>
  BY <1>1 DEF Begin, vars
<1>3. TypeOK' /\ ViewsOnceTrue' /\ RequestsOfOrders' /\ Stays  BY <1>2, StepBasics
<1>4. t # Idle /\ t.op = op /\ DOMAIN t = Fields /\ t.done = 0 /\ DOMAIN t.seen = {}
  <2>1. t.op = op /\ t.done = 0 /\ t.seen = <<>>  OBVIOUS
  <2>2. DOMAIN t = Fields  BY DEF Fields
  <2>3. op # "idle"  BY DEF Ops, StaffOrderOps, OwnerOps, RequestOps, AmountOps
  <2>4. t # Idle  BY <2>1, <2>3 DEF Idle
  <2>5. QED  BY <2>1, <2>2, <2>4
<1>5. ASSUME NEW d \in Clients PROVE Good(d)'
  <2>1. CASE d = c
    <3>1. Subject(c, txn[c])'
      BY <1>2 DEF Subject, vars
    <3>2. Progress(txn[c])'
      <4>1. 0 \in 0..Len(Plan(op))
        <5>1. Len(Plan(op)) \in 1..6  BY PlansAreOrdered DEF Ordered
        <5>2. PICK n : n = Len(Plan(op))  OBVIOUS
        <5>3. n \in 1..6  BY <5>1, <5>2
        <5>4. QED  BY <5>2, <5>3
      <4>2. {Plan(op)[n].what : n \in 1..0} = {}  OBVIOUS
      <4>3. ~ (0 > 0)  OBVIOUS
      <4>4. Progress(t)  BY <1>4, <4>1, <4>2, <4>3 DEF Progress
      <4>5. QED  BY <1>2, <4>4
    <3>3. Current(txn[c])'  BY <1>2, <1>4 DEF Current, Seen
    <3>4. HasLocks(c, txn[c])'  BY <1>2, <1>4 DEF HasLocks, Seen
    <3>5. QED  BY <2>1, <3>1, <3>2, <3>3, <3>4 DEF Good
  <2>2. CASE d # c
    <3>1. PICK u : u = txn[d]  OBVIOUS
    <3>2. UNCHANGED <<order, payment, request, refund>> /\ view' = view  BY <1>2 DEF vars
    <3>3. txn'[d] = u /\ view'[d] = view[d] /\ Untouched(u) /\ locks' = locks
      BY <1>2, <2>2, <3>1, <3>2, QuietlyUntouched
    <3>4. QED  BY <1>3, <3>1, <3>3, Rests
  <2>3. QED  BY <2>1, <2>2
<1>6. LocksHeld'
  <2> SUFFICES ASSUME NEW l \in locks
               PROVE  /\ l.by \in Clients /\ txn'[l.by] # Idle
                      /\ \E what \in Locked : Seen(txn'[l.by], what) /\ l = LockOf(txn'[l.by], what, l.by)
    BY <1>2 DEF LocksHeld
  <2>1. l.by \in Clients \ {c}  BY <1>1 DEF LocksHeld
  <2>2. QED  BY <1>1, <1>2, <2>1 DEF LocksHeld
<1>7. Exclusive'  BY <1>1, <1>2 DEF Exclusive
<1>8. QED  BY <1>2, <1>3, <1>5, <1>6, <1>7 DEF TInv

LEMMA SubmitInv ==
    ASSUME TInv, NEW c \in Clients, Submit(c)
    PROVE  TInv'
<1>1. ASSUME NEW o \in Orders, NEW op \in StaffOrderOps \cup OwnerOps, BeginOrderOp(c, op, o)
      PROVE  TInv'
  <2>1. PICK t : t = [op |-> op, order |-> o, item |-> None, request |-> None, amount |-> 0,
                      version |-> view[c].version, done |-> 0, seen |-> <<>>]
    OBVIOUS
  <2>2. t.op = op /\ t.order = o /\ t.version = view[c].version  BY <2>1
  <2>3. (op \in StaffOrderOps => c \in Staff) /\ (op \in OwnerOps => c \in Customers /\ Owner[o] = c)
        /\ op \notin RequestOps \cup AmountOps
    BY <1>1 DEF BeginOrderOp, Clients, StaffOrderOps, OwnerOps, RequestOps, AmountOps
  <2>4. view[c].row = o  BY <1>1 DEF BeginOrderOp
  <2>5. order[o] # NoOrder
    <3>1. 0 < view[c].version /\ view[c].version <= order[o].version /\ view[c].version \in Nat
      BY <2>4 DEF TInv, ViewsOnceTrue, Rows, Version, TypeOK
    <3>2. order[o] = NoOrder => order[o].version = 0  BY DEF NoOrder
    <3>3. QED  BY <3>1, <3>2
  <2>6. Subject(c, t)  BY <1>1, <2>2, <2>3, <2>4, <2>5 DEF Subject
  <2>7. Begin(c, op, o, None, None, 0, view[c].version)  BY <1>1 DEF BeginOrderOp
  <2>8. QED  BY <2>1, <2>6, <2>7, BeginInv DEF Ops
<1>2. ASSUME NEW i \in Items, NEW amount \in 1..Price[i], c \in Customers, BeginCreateRequest(c, i, amount)
      PROVE  TInv'
  <2>1. PICK t : t = [op |-> "create_request", order |-> OrderOf[i], item |-> i, request |-> None,
                      amount |-> amount, version |-> 0, done |-> 0, seen |-> <<>>]
    OBVIOUS
  <2>2. t.op = "create_request" /\ t.order = OrderOf[i] /\ t.item = i /\ t.request = None /\ t.amount = amount
    BY <2>1
  <2>3. Subject(c, t)
    BY <1>2, <2>2, RowsAssumption
       DEF Subject, BeginCreateRequest, StaffOrderOps, OwnerOps, RequestOps, AmountOps
  <2>4. Begin(c, "create_request", OrderOf[i], i, None, amount, 0)  BY <1>2 DEF BeginCreateRequest
  <2>5. QED  BY <2>1, <2>3, <2>4, BeginInv DEF Ops, AmountOps
<1>3. ASSUME NEW r \in Requests, NEW op \in RequestOps, c \in Staff, BeginDecision(c, op, r)
      PROVE  TInv'
  <2>1. PICK t : t = [op |-> op, order |-> OrderOf[request[r].item], item |-> request[r].item, request |-> r,
                      amount |-> request[r].amount, version |-> view[c].version, done |-> 0, seen |-> <<>>]
    OBVIOUS
  <2>2. /\ t.op = op /\ t.order = OrderOf[request[r].item] /\ t.item = request[r].item /\ t.request = r
        /\ t.amount = request[r].amount /\ t.version = view[c].version
    BY <2>1
  <2>3. view[c].row = r  BY <1>3 DEF BeginDecision
  <2>4. request[r] # NoRequest
    <3>1. 0 < view[c].version /\ view[c].version <= request[r].version /\ view[c].version \in Nat
      BY <2>3, RowsAssumption DEF TInv, ViewsOnceTrue, Rows, Version, TypeOK
    <3>2. request[r] = NoRequest => request[r].version = 0  BY DEF NoRequest
    <3>3. QED  BY <3>1, <3>2
  <2>5. request[r].item \in Items /\ OrderOf[request[r].item] \in Orders /\ order[OrderOf[request[r].item]] # NoOrder
    BY <2>4, RowsAssumption DEF TInv, TypeOK, RequestsOfOrders
  <2>6. Subject(c, t)
    BY <1>3, <2>2, <2>3, <2>4, <2>5 DEF Subject, StaffOrderOps, OwnerOps, RequestOps, AmountOps
  <2>7. Begin(c, op, OrderOf[request[r].item], request[r].item, r, request[r].amount, view[c].version)
    BY <1>3 DEF BeginDecision
  <2>8. QED  BY <2>1, <2>6, <2>7, BeginInv DEF Ops
<1>4. ASSUME NEW i \in Items, NEW amount \in 1..Price[i], c \in Staff, BeginPostRefund(c, i, amount)
      PROVE  TInv'
  <2>1. PICK t : t = [op |-> "post_refund", order |-> OrderOf[i], item |-> i, request |-> None,
                      amount |-> amount, version |-> 0, done |-> 0, seen |-> <<>>]
    OBVIOUS
  <2>2. t.op = "post_refund" /\ t.order = OrderOf[i] /\ t.item = i /\ t.request = None /\ t.amount = amount
    BY <2>1
  <2>3. Subject(c, t)
    BY <1>4, <2>2, RowsAssumption
       DEF Subject, BeginPostRefund, StaffOrderOps, OwnerOps, RequestOps, AmountOps
  <2>4. Begin(c, "post_refund", OrderOf[i], i, None, amount, 0)  BY <1>4 DEF BeginPostRefund
  <2>5. QED  BY <2>1, <2>3, <2>4, BeginInv DEF Ops, AmountOps
<1>5. QED  BY <1>1, <1>2, <1>3, <1>4 DEF Submit

\* What the first n statements read.
Whats(op, n) == {Plan(op)[m].what : m \in 1..n}

\* A statement whose row nobody else has locked.
LEMMA AfterIs ==
    ASSUME NEW t, NEW w, DOMAIN t = Fields, t.done \in Nat, NEW u, u = After(t, w)
    PROVE  /\ DOMAIN u = Fields /\ u.op = t.op /\ u.order = t.order /\ u.item = t.item
           /\ u.request = t.request /\ u.amount = t.amount /\ u.version = t.version
           /\ u.done = t.done + 1 /\ DOMAIN u.seen = {w} \cup DOMAIN t.seen
           /\ u.seen[w] = Value(t, w) /\ \A v \in DOMAIN t.seen \ {w} : u.seen[v] = t.seen[v]
           /\ \A v : Value(u, v) = Value(t, v) /\ Row(u, v) = Row(t, v)
<1>1. PICK s : s = [v \in {w} \cup DOMAIN t.seen |-> IF v = w THEN Value(t, w) ELSE t.seen[v]]  OBVIOUS
<1>2. u = [t EXCEPT !.done = @ + 1, !.seen = s]  BY <1>1 DEF After
<1>3. /\ DOMAIN u = Fields /\ u.op = t.op /\ u.order = t.order /\ u.item = t.item
      /\ u.request = t.request /\ u.amount = t.amount /\ u.version = t.version
      /\ u.done = t.done + 1 /\ u.seen = s
  BY <1>2 DEF Fields
<1>4. \A v : Value(u, v) = Value(t, v) /\ Row(u, v) = Row(t, v)  BY <1>3 DEF Value, Row
<1>5. DOMAIN s = {w} \cup DOMAIN t.seen /\ s[w] = Value(t, w) /\ \A v \in DOMAIN t.seen \ {w} : s[v] = t.seen[v]
  BY <1>1
<1>6. QED  BY <1>3, <1>4, <1>5

LEMMA StatementIs ==
    ASSUME TInv, NEW c \in Clients, Statement(c), NEW t, t = txn[c], NEW w, w = NextStatement(c).what
    PROVE  /\ t # Idle /\ Progress(t) /\ t.done \in Nat /\ t.done + 1 \in 1..Len(Plan(t.op))
           /\ Whats(t.op, t.done + 1) = {w} \cup DOMAIN t.seen
           /\ w \in Locked => NextStatement(c).mode = Mode(t.op, w) /\ NextStatement(c).mode # "read"
                                /\ Blocking(c, NextStatement(c)) = {}
           /\ w \notin Locked => NextStatement(c).mode = "read"
<1>1. t # Idle /\ t.done < Len(Plan(t.op)) /\ ~ Waiting(c)  BY DEF Statement
<1>2. Progress(t)  BY <1>1 DEF TInv, Good
<1>3. PICK p, k, n : p = Plan(t.op) /\ k = t.done /\ n = k + 1  OBVIOUS
<1>4. Ordered(t.op, p)  BY <1>2, <1>3, PlansAreOrdered DEF Progress
<1>5. k \in 0..Len(p) /\ k < Len(p) /\ DOMAIN t.seen = {p[m].what : m \in 1..k}
  BY <1>1, <1>2, <1>3 DEF Progress
<1>6. k \in Nat /\ n \in 1..Len(p) /\ 1..n = {n} \cup 1..k
  <2>1. PICK m : m = Len(p)  OBVIOUS
  <2>2. m \in 1..6  BY <1>4, <2>1 DEF Ordered
  <2>3. k \in 0..m /\ k < m  BY <1>5, <2>1
  <2>4. k \in Nat /\ n \in 1..m /\ 1..n = {n} \cup 1..k  BY <1>3, <2>2, <2>3
  <2>5. QED  BY <2>1, <2>4
<1>7. PICK s : s = p[n]  OBVIOUS
<1>8. NextStatement(c) = s /\ w = s.what  BY <1>3, <1>7 DEF NextStatement
<1>9. {p[m].what : m \in 1..n} = {w} \cup {p[m].what : m \in 1..k}  BY <1>6, <1>7, <1>8
<1>10. (w \in Locked => s.mode = Mode(t.op, w)) /\ (w \notin Locked => s.mode = "read")
  BY <1>4, <1>6, <1>7, <1>8 DEF Ordered
<1>11. Mode(t.op, w) # "read"  BY DEF Mode
<1>12. w \in Locked => Blocking(c, s) = {}  BY <1>1, <1>8, <1>10, <1>11 DEF Waiting
<1>13. Whats(t.op, t.done + 1) = {w} \cup DOMAIN t.seen
  <2>1. PICK op : op = t.op  OBVIOUS
  <2>2. Whats(op, n) = {p[m].what : m \in 1..n}  BY <1>3, <2>1 DEF Whats
  <2>3. QED  BY <1>3, <1>5, <1>9, <2>1, <2>2
<1>14. t.done \in Nat /\ t.done + 1 \in 1..Len(Plan(t.op))  BY <1>3, <1>6
<1>15. QED  BY <1>1, <1>2, <1>8, <1>10, <1>11, <1>12, <1>13, <1>14

LEMMA StatementInv ==
    ASSUME TInv, NEW c \in Clients, Statement(c)
    PROVE  TInv'
<1>1. PICK t, s, w, u : t = txn[c] /\ s = NextStatement(c) /\ w = s.what /\ u = After(t, w)  OBVIOUS
<1>2. UNCHANGED vars /\ UNCHANGED <<order, payment, request, refund>> /\ UNCHANGED view
  BY DEF Statement, vars
<1>3. CASE ~ Passes(u)
  <2>1. Release(c)  BY <1>1, <1>3 DEF Statement
  <2>2. QED  BY <1>2, <2>1, RollBackInv
<1>4. CASE Passes(u)
  <2>1. /\ t # Idle /\ Progress(t) /\ t.done \in Nat /\ t.done + 1 \in 1..Len(Plan(t.op))
        /\ Whats(t.op, t.done + 1) = {w} \cup DOMAIN t.seen
        /\ w \in Locked => s.mode = Mode(t.op, w) /\ s.mode # "read" /\ Blocking(c, s) = {}
        /\ w \notin Locked => s.mode = "read"
    <3>1. w = NextStatement(c).what  BY <1>1
    <3>2. /\ t # Idle /\ Progress(t) /\ t.done \in Nat /\ t.done + 1 \in 1..Len(Plan(t.op))
          /\ Whats(t.op, t.done + 1) = {w} \cup DOMAIN t.seen
          /\ w \in Locked => NextStatement(c).mode = Mode(t.op, w) /\ NextStatement(c).mode # "read"
                               /\ Blocking(c, NextStatement(c)) = {}
          /\ w \notin Locked => NextStatement(c).mode = "read"
      BY <1>1, <3>1, StatementIs
    <3>3. QED  BY <1>1, <3>2
  <2>2. /\ DOMAIN u = Fields /\ u.op = t.op /\ u.order = t.order /\ u.item = t.item
        /\ u.request = t.request /\ u.amount = t.amount /\ u.version = t.version
        /\ u.done = t.done + 1 /\ DOMAIN u.seen = {w} \cup DOMAIN t.seen
        /\ u.seen[w] = Value(t, w) /\ \A v \in DOMAIN t.seen \ {w} : u.seen[v] = t.seen[v]
        /\ \A v : Value(u, v) = Value(t, v) /\ Row(u, v) = Row(t, v)
    BY <1>1, <2>1, AfterIs DEF Progress
  <2>3. DOMAIN txn = Clients /\ LocksHeld /\ Exclusive
        /\ Subject(c, t) /\ Current(t) /\ HasLocks(c, t)
    BY <1>1, <2>1 DEF TInv, Good
  <2>4. txn' = [txn EXCEPT ![c] = u]
        /\ locks' = IF s.mode = "read" THEN locks
                    ELSE locks \cup {[row |-> Row(u, w), mode |-> s.mode, by |-> c]}
    BY <1>1, <1>4 DEF Statement
  <2>5. PICK k : k = LockOf(u, w, c)  OBVIOUS
  <2>6. k.row = Row(t, w) /\ k.mode = Mode(t.op, w) /\ k.by = c  BY <2>2, <2>5 DEF LockOf
  <2>7. locks' = IF w \in Locked THEN locks \cup {k} ELSE locks
    <3>1. CASE w \in Locked
      <4>1. k = [row |-> Row(u, w), mode |-> s.mode, by |-> c]  BY <2>1, <2>2, <2>5, <3>1 DEF LockOf
      <4>2. QED  BY <2>1, <2>4, <3>1, <4>1
    <3>2. CASE w \notin Locked  BY <2>1, <2>4, <3>2
    <3>3. QED  BY <3>1, <3>2
  <2>8. DOMAIN txn' = Clients /\ txn'[c] = u /\ \A d \in Clients \ {c} : txn'[d] = txn[d]
    BY <2>3, <2>4
  <2>9. TypeOK' /\ ViewsOnceTrue' /\ RequestsOfOrders' /\ Stays  BY <1>2, StepBasics
  <2>10. \A v : LockOf(u, v, c) = LockOf(t, v, c)  BY <2>2 DEF LockOf
  <2>11. u # Idle  BY <2>2 DEF Fields, Idle
  <2>12. Subject(c, u) /\ Progress(u) /\ Current(u)
    <3>1. Subject(c, u)  BY <2>2, <2>3 DEF Subject
    <3>2. Progress(u)
      <4>1. u.op \in Ops /\ DOMAIN u.seen = {Plan(u.op)[n].what : n \in 1..u.done}
        <5>1. u.op \in Ops /\ DOMAIN u.seen = Whats(u.op, u.done)  BY <2>1, <2>2 DEF Progress
        <5>2. QED  BY <5>1 DEF Whats
      <4>2. u.done \in 0..Len(Plan(u.op))
        <5>1. PICK n : n = Len(Plan(t.op))  OBVIOUS
        <5>2. Len(Plan(t.op)) \in 1..6  BY <4>1, <2>2, PlansAreOrdered DEF Ordered
        <5>3. n \in Nat /\ u.done \in 1..n  BY <2>1, <2>2, <5>1, <5>2
        <5>4. u.done \in 0..n  BY <5>3
        <5>5. QED  BY <2>2, <5>1, <5>4
      <4>3. QED  BY <1>4, <2>2, <4>1, <4>2 DEF Progress
    <3>3. ASSUME NEW v, Seen(u, v), v # w PROVE Seen(t, v) /\ u.seen[v] = t.seen[v]
      BY <2>2, <3>3 DEF Seen
    <3>4. Seen(u, "order") /\ u.op # "post_refund" => u.seen["order"] = order[u.order]
      BY <2>2, <2>3, <3>3 DEF Current, Value
    <3>5. Seen(u, "payment") => u.seen["payment"] = payment[u.order]
      BY <2>2, <2>3, <3>3 DEF Current, Value
    <3>6. Seen(u, "request") => u.seen["request"] = request[u.request]
      BY <2>2, <2>3, <3>3 DEF Current, Value
    <3>7. \A what \in {"pending", "refunded", "reserved", "order_refunded"} :
            Seen(u, what) => u.seen[what] = Value(u, what)
      BY <2>2, <2>3, <3>3 DEF Current
    <3>8. Current(u)  BY <3>4, <3>5, <3>6, <3>7 DEF Current
    <3>9. QED  BY <3>1, <3>2, <3>8
  <2>13. ASSUME NEW d \in Clients PROVE Good(d)'
    <3>1. CASE d = c
      <4>1. Subject(c, txn[c])'  BY <1>2, <2>8, <2>12 DEF Subject
      <4>2. Progress(txn[c])'  BY <2>8, <2>12
      <4>3. Current(txn[c])'
        <5>1. \A v : Value(u, v)' = Value(u, v)
          BY <1>2 DEF Value, Refunded, Reserved, RefundsOf, ApprovedOf, RefundAmounts, RequestAmounts
        <5>2. Current(u)'  BY <1>2, <2>12, <5>1 DEF Current
        <5>3. QED  BY <2>8, <5>2 DEF Current, Value
      <4>4. HasLocks(c, txn[c])'
        <5>1. \A what \in Locked : Seen(u, what) => LockOf(u, what, c) \in locks'
          BY <2>2, <2>3, <2>5, <2>7, <2>10 DEF HasLocks, Seen
        <5>2. QED  BY <2>8, <5>1 DEF HasLocks
      <4>5. QED  BY <3>1, <4>1, <4>2, <4>3, <4>4 DEF Good
    <3>2. CASE d # c
      <4>1. PICK x : x = txn[d]  OBVIOUS
      <4>2. txn'[d] = x /\ view'[d] = view[d] /\ Untouched(x)  BY <1>2, <2>8, <3>2, <4>1, QuietlyUntouched
      <4>3. \A l \in locks : l \in locks'  BY <2>7
      <4>4. QED  BY <2>9, <4>1, <4>2, <4>3, Rests
    <3>3. QED  BY <3>1, <3>2
  <2>14. LocksHeld'
    <3> SUFFICES ASSUME NEW l \in locks'
                 PROVE  /\ l.by \in Clients /\ txn'[l.by] # Idle
                        /\ \E what \in Locked : Seen(txn'[l.by], what) /\ l = LockOf(txn'[l.by], what, l.by)
      BY DEF LocksHeld
    <3>1. CASE l \in locks /\ l.by # c
      BY <2>3, <2>8, <3>1 DEF LocksHeld
    <3>2. CASE l \in locks /\ l.by = c
      <4>1. PICK what \in Locked : Seen(t, what) /\ l = LockOf(t, what, c)  BY <1>1, <2>3, <3>2 DEF LocksHeld
      <4>2. Seen(u, what) /\ l = LockOf(u, what, c)  BY <2>2, <2>10, <4>1 DEF Seen
      <4>3. QED  BY <2>8, <2>11, <3>2, <4>2
    <3>3. CASE l \notin locks
      <4>1. w \in Locked /\ l = k  BY <2>7, <3>3
      <4>2. Seen(u, w) /\ l.by = c  BY <2>2, <2>6, <4>1 DEF Seen
      <4>3. QED  BY <2>5, <2>8, <2>11, <4>1, <4>2
    <3>4. QED  BY <3>1, <3>2, <3>3
  <2>15. Exclusive'
    <3>1. w \in Locked => \A l \in locks : l.row = k.row /\ l.by # c => ~ Conflict(k.mode, l.mode)
      BY <1>1, <2>1, <2>6 DEF Blocking
    <3>2. \A x, y : Conflict(x, y) <=> Conflict(y, x)
      <4>1. \A x, y : {x, y} = {y, x}  OBVIOUS
      <4>2. QED  BY <4>1 DEF Conflict
    <3>3. \A l, m \in locks' : l.row = m.row /\ l.by # m.by => ~ Conflict(l.mode, m.mode)
      BY <2>3, <2>6, <2>7, <3>1, <3>2 DEF Exclusive
    <3>4. QED  BY <3>3 DEF Exclusive
  <2>16. QED  BY <2>8, <2>9, <2>13, <2>14, <2>15 DEF TInv
<1>5. QED  BY <1>3, <1>4

LEMMA ReadInv ==
    ASSUME TInv, NEW c \in Clients, NEW row \in Rows, Read(c, row)
    PROVE  TInv'
<1>1. /\ DOMAIN txn = Clients /\ LocksHeld /\ Exclusive /\ txn[c] = Idle /\ UNCHANGED <<txn, locks>>
      /\ UNCHANGED <<order, payment, request, refund>>
      /\ \A d \in Clients \ {c} : view'[d] = view[d]
  BY DEF TInv, Read, Open, TypeOK
<1>2. ApiNext  BY DEF Read, ApiNext, Next
<1>3. TypeOK' /\ ViewsOnceTrue' /\ RequestsOfOrders' /\ Stays  BY <1>2, StepBasics
<1>4. ASSUME NEW d \in Clients PROVE Good(d)'
  <2>1. CASE d = c  BY <1>1, <2>1 DEF Good
  <2>2. CASE d # c
    <3>1. PICK t : t = txn[d]  OBVIOUS
    <3>2. txn'[d] = t /\ view'[d] = view[d] /\ locks' = locks /\ Untouched(t)
      BY <1>1, <2>2, <3>1, QuietlyUntouched
    <3>3. QED  BY <1>3, <3>1, <3>2, Rests
  <2>3. QED  BY <2>1, <2>2
<1>5. LocksHeld' /\ Exclusive'  BY <1>1 DEF LocksHeld, Exclusive
<1>6. QED  BY <1>1, <1>3, <1>4, <1>5 DEF TInv

LEMMA PlaceOrderInv ==
    ASSUME TInv, NEW o \in Orders, NEW m \in Methods, PlaceOrder(o, m)
    PROVE  TInv'
<1>1. /\ DOMAIN txn = Clients /\ LocksHeld /\ Exclusive /\ UNCHANGED <<txn, locks>>
      /\ order[o] = NoOrder /\ UNCHANGED <<request, refund, view>>
      /\ \A p \in Orders \ {o} : order'[p] = order[p] /\ payment'[p] = payment[p]
  BY DEF TInv, PlaceOrder, Checkout, TypeOK
<1>2. ApiNext  BY DEF PlaceOrder, ApiNext, Next, OrderStep
<1>3. TypeOK' /\ ViewsOnceTrue' /\ RequestsOfOrders' /\ Stays  BY <1>2, StepBasics
<1>4. ASSUME NEW d \in Clients PROVE Good(d)'
  <2>1. PICK t : t = txn[d]  OBVIOUS
  <2>2. t # Idle => t.order \in Orders \ {o}  BY <1>1, <2>1 DEF TInv, Good, Subject
  <2>3. \A what \in {"pending", "refunded", "reserved", "order_refunded"} : Value(t, what)' = Value(t, what)
    BY <1>1 DEF Value, Refunded, Reserved, RefundsOf, ApprovedOf, RefundAmounts, RequestAmounts
  <2>4. t # Idle => Untouched(t)  BY <1>1, <2>2, <2>3 DEF Untouched
  <2>5. txn'[d] = t /\ view'[d] = view[d] /\ locks' = locks  BY <1>1, <2>1
  <2>6. QED  BY <1>3, <2>1, <2>4, <2>5, Rests
<1>5. LocksHeld' /\ Exclusive'  BY <1>1 DEF LocksHeld, Exclusive
<1>6. QED  BY <1>1, <1>3, <1>4, <1>5 DEF TInv

LEMMA TxnInitInv == TxnInit => TInv
<1> SUFFICES ASSUME TxnInit PROVE TInv  OBVIOUS
<1>1. Init /\ DOMAIN txn = Clients /\ (\A c \in Clients : txn[c] = Idle) /\ locks = {}  BY DEF TxnInit
<1>2. TypeOK /\ ViewsOnceTrue  BY <1>1, InitType, InitViews
<1>3. RequestsOfOrders  BY <1>1 DEF Init, RequestsOfOrders
<1>4. (\A c \in Clients : Good(c)) /\ LocksHeld /\ Exclusive  BY <1>1 DEF Good, LocksHeld, Exclusive
<1>5. QED  BY <1>1, <1>2, <1>3, <1>4 DEF TInv

LEMMA TxnStep == TInv /\ [TxnNext]_allvars => TInv' /\ [ApiNext]_vars
<1> SUFFICES ASSUME TInv, [TxnNext]_allvars PROVE TInv' /\ [ApiNext]_vars  OBVIOUS
<1>1. ASSUME NEW o \in Orders, NEW m \in Methods, PlaceOrder(o, m) PROVE TInv' /\ [ApiNext]_vars
  BY <1>1, PlaceOrderInv DEF PlaceOrder, ApiNext, Next, OrderStep
<1>2. ASSUME NEW c \in Clients, NEW row \in Rows, Read(c, row) PROVE TInv' /\ [ApiNext]_vars
  BY <1>2, ReadInv DEF Read, ApiNext, Next
<1>3. ASSUME NEW c \in Clients, Submit(c) PROVE TInv' /\ [ApiNext]_vars
  <2>1. UNCHANGED vars
    BY <1>3 DEF Submit, BeginOrderOp, BeginDecision, BeginCreateRequest, BeginPostRefund, Begin, vars
  <2>2. QED  BY <1>3, <2>1, SubmitInv
<1>4. ASSUME NEW c \in Clients, Statement(c) PROVE TInv' /\ [ApiNext]_vars
  BY <1>4, StatementInv DEF Statement, vars
<1>5. ASSUME NEW c \in Clients, Commit(c) PROVE TInv' /\ [ApiNext]_vars
  BY <1>5, CommitInv, CommitIsAtomic
<1>6. ASSUME NEW c \in Clients, RollBack(c) PROVE TInv' /\ [ApiNext]_vars
  BY <1>6, RollBackInv DEF RollBack, vars
<1>7. CASE UNCHANGED allvars
  <2>1. UNCHANGED vars /\ UNCHANGED <<order, payment, request, refund>> /\ UNCHANGED <<view, txn, locks>>
    BY <1>7 DEF allvars, vars
  <2>2. DOMAIN txn = Clients /\ LocksHeld /\ Exclusive  BY DEF TInv
  <2>3. TypeOK' /\ ViewsOnceTrue' /\ RequestsOfOrders' /\ Stays  BY <2>1, StepBasics
  <2>4. ASSUME NEW d \in Clients PROVE Good(d)'
    <3>1. PICK t : t = txn[d]  OBVIOUS
    <3>2. txn'[d] = t /\ view'[d] = view[d] /\ locks' = locks /\ Untouched(t)
      BY <2>1, <3>1, QuietlyUntouched
    <3>3. QED  BY <2>3, <3>1, <3>2, Rests
  <2>5. LocksHeld' /\ Exclusive'  BY <2>1, <2>2 DEF LocksHeld, Exclusive
  <2>6. TInv'  BY <2>1, <2>2, <2>3, <2>4, <2>5 DEF TInv
  <2>7. QED  BY <2>1, <2>6
<1>8. QED  BY <1>1, <1>2, <1>3, <1>4, <1>5, <1>6, <1>7 DEF TxnNext, Answer
-----------------------------------------------------------------------------
(* Theorems.                                                                *)

\* The row locks that services/order_service.py and refund_service.py take are enough: every
\* commit of every interleaving of the transactions' statements is one atomic step of the API.
THEOREM CommitsAreAtomic == TxnSpec => RequestsAreAtomic
<1>1. TxnInit => TInv  BY TxnInitInv
<1>2. TInv /\ [TxnNext]_allvars => TInv' /\ [ApiNext]_vars  BY TxnStep
<1>3. TxnInit => Init  BY DEF TxnInit
<1>4. TxnSpec => TxnInit /\ [][TxnNext]_allvars  BY PTL DEF TxnSpec
<1>5. TxnSpec => Init /\ [][ApiNext]_vars  BY <1>1, <1>2, <1>3, <1>4, PTL
<1>6. QED  BY <1>5 DEF RequestsAreAtomic, ApiSpec, ApiNext

\* Transactions lock their rows in one order, item, request, order, payment, so however many
\* are in flight PostgreSQL never finds them waiting for each other in a circle.
THEOREM NobodyWaitsInACircle == TxnSpec => []NoCircularWait
<1>1. TxnInit => TInv  BY TxnInitInv
<1>2. TInv /\ [TxnNext]_allvars => TInv'  BY TxnStep
<1>3. TInv => NoCircularWait  BY NoCircle
<1>4. TxnSpec => TxnInit /\ [][TxnNext]_allvars  BY PTL DEF TxnSpec
<1>5. QED  BY <1>1, <1>2, <1>3, <1>4, PTL

\* What holds of the atomic steps holds of the committed rows while transactions interleave:
\* refunds stay within the price, payments follow orders and no request is paid twice.
THEOREM CommittedRowsAreRight == TxnSpec => [](RefundsWithinPrice /\ PaymentFollowsOrder /\ OneRefundPerRequest)
<1>1. TxnSpec => ApiSpec  BY CommitsAreAtomic DEF RequestsAreAtomic
<1>2. QED  BY <1>1, RefundsNeverExceedPrice, PaymentsFollowOrders, RequestsPaidOnce, PTL

=============================================================================
