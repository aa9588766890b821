------------------------ MODULE CustomerResourcesProofs ------------------------
(***************************************************************************)
(* The default address of a customer, proved for any number of sessions,   *)
(* addresses and requests.  The lock on the account lets one request at a  *)
(* time decide on the default; what it has decided (PlansHold) stays right *)
(* until it commits, so a commit leaves exactly one default.               *)
(***************************************************************************)
EXTENDS Customers, WellFoundedInduction, SequenceTheorems, TLAPS

Request ==
    [op : Ops \cup {"idle"}, step : {"none", "account", "row", "write", "commit"}, id : Nat,
     text : Texts \cup {None}, default : BOOLEAN, read : Row \cup {None},
     undefaulted : SUBSET Nat, promoted : SUBSET Nat]

\* A request by itself: it is about a row that exists, has updated other rows
\* only when it is about to commit, and then those it has to.
GoodRequest(t) ==
    /\ t.op = "idle" => t.step = "none"
    /\ t.op \in {"create", "update"} /\ t.step # "none" => t.text \in Texts
    /\ t.op \in Ops \ {"create"} => t.id \in DOMAIN rows
    /\ t.op = "update" => t.step \in {"row", "commit"}
    /\ t.op = "create" => t.step # "row"
    /\ t.step # "commit" => t.undefaulted = {} /\ t.promoted = {}
    /\ t.op \in Ops \ {"deactivate"} => t.promoted = {}
    /\ t.op \in {"update", "deactivate"} => t.undefaulted = {}
    /\ t.step \in {"write", "commit"} /\ t.op = "set_default" => rows[t.id].active
    /\ t.step = "commit" =>
         /\ t.op = "create" => t.undefaulted = IF t.default THEN DefaultRows ELSE {}
         /\ t.op = "create" /\ ~t.default => DefaultRows # {}
         /\ t.op = "set_default" => t.undefaulted = DefaultRows \ {t.id}
         /\ t.op = "deactivate" => t.promoted = Heir(t.id)

\* At most one request holds the lock on the account.
Exclusive == \A r, s \in Sessions : HoldsAccount(r) /\ HoldsAccount(s) => r = s

IInv ==
    /\ rows \in Seq(Row)
    /\ page \in [Sessions -> Seq(Row)]
    /\ txn \in [Sessions -> Request]
    /\ \A s \in Sessions : GoodRequest(txn[s])
    /\ Exclusive
    /\ OneDefault

-----------------------------------------------------------------------------
\* A set of ids that is not empty has a lowest one.
LEMMA LowestExists ==
    ASSUME NEW S \in SUBSET Nat, S # {}
    PROVE  Lowest(S) \in S
<1> DEFINE R == {ss \in Nat \X Nat : ss[1] < ss[2]}
<1>1. IsWellFoundedOn(R, Nat)
  BY NatLessThanWellFounded DEF OpToRel
<1>2. PICK x \in S : \A y \in S : <<y, x>> \notin R
  BY <1>1, WFMin
<1>3. ASSUME NEW y \in S PROVE x <= y
  <2>1. y \in Nat /\ x \in Nat /\ <<y, x>> \in Nat \X Nat  OBVIOUS
  <2>2. ~(y < x)  BY <1>2, <2>1
  <2>3. QED  BY <2>1, <2>2
<1>4. QED  BY <1>3 DEF Lowest

\* The heir of a row is active, and there is none only when no other row is
\* active or the row was not the default.
LEMMA HeirIsActive ==
    ASSUME rows \in Seq(Row), NEW k \in DOMAIN rows
    PROVE  /\ Heir(k) \subseteq ActiveRows \ {k}
           /\ rows[k].default /\ ActiveRows \ {k} # {} => \E j \in ActiveRows \ {k} : Heir(k) = {j}
           /\ ~rows[k].default => Heir(k) = {}
<1>1. ActiveRows \ {k} \in SUBSET Nat
  BY DEF ActiveRows
<1>2. QED  BY <1>1, LowestExists DEF Heir

\* What the runs check follows from the inductive invariant.
LEMMA Consequences == IInv => TypeOK /\ PlansHold /\ OneDefault
<1> SUFFICES ASSUME IInv PROVE TypeOK /\ PlansHold  BY DEF IInv
<1>1. TypeOK  BY DEF IInv, TypeOK, GoodRequest, Request
<1>2. PlansHold  BY DEF IInv, PlansHold, GoodRequest, At
<1>3. QED  BY <1>1, <1>2

-----------------------------------------------------------------------------
LEMMA InitHolds == Init => IInv
<1> SUFFICES ASSUME Init PROVE IInv  OBVIOUS
<1>1. rows = <<>> /\ rows \in Seq(Row) /\ DOMAIN rows = {}
  BY DEF Init
<1>2. \A s \in Sessions : txn[s] = Idle  BY DEF Init
<1>3. Idle \in Request /\ GoodRequest(Idle)  BY DEF Idle, Request, GoodRequest, Ops
<1>4. Exclusive  BY <1>2 DEF Exclusive, HoldsAccount, Idle, AccountOps, Ops
<1>5. OneDefault  BY <1>1 DEF OneDefault, ActiveRows, DefaultRows
<1>6. QED  BY <1>1, <1>2, <1>3, <1>4, <1>5 DEF IInv, Init

\* A step of one request that leaves the rows alone.
LEMMA RequestStep ==
    ASSUME IInv, NEW s \in Sessions, NEW t \in Request,
           rows' = rows, page' = page, txn' = [txn EXCEPT ![s] = t],
           GoodRequest(t),
           t.op \in AccountOps /\ t.step \in {"row", "write", "commit"} =>
              \A r \in Sessions \ {s} : ~HoldsAccount(r)
    PROVE  IInv'
<1>1. ActiveRows' = ActiveRows /\ DefaultRows' = DefaultRows /\ \A k : Heir(k)' = Heir(k)
  BY DEF ActiveRows, DefaultRows, Heir
<1>2. (\A r \in Sessions : GoodRequest(txn[r]))'
  BY <1>1 DEF IInv, GoodRequest
<1>3. Exclusive'
  BY DEF IInv, Exclusive, HoldsAccount
<1>4. OneDefault'
  BY <1>1 DEF IInv, OneDefault
<1>5. QED  BY <1>2, <1>3, <1>4 DEF IInv

LEMMA SubmitStep == ASSUME IInv, NEW s \in Sessions, Submit(s) PROVE IInv'
<1>1. CASE \E text \in Texts, default \in BOOLEAN : BeginCreate(s, text, default)
  <2>1. PICK text \in Texts, default \in BOOLEAN : BeginCreate(s, text, default)  BY <1>1
  <2> DEFINE t == [Idle EXCEPT !.op = "create", !.step = "account", !.text = text, !.default = default]
  <2>2. t \in Request /\ GoodRequest(t) /\ t.step = "account"
    BY DEF Idle, Request, GoodRequest, Ops
  <2>3. QED  BY <2>1, <2>2, RequestStep DEF BeginCreate
<1>2. ASSUME NEW k \in DOMAIN rows, NEW op \in Ops \ {"create"}, NEW text \in Texts \cup {None},
             op = "update" => text \in Texts, BeginOn(s, op, k, text)
      PROVE  IInv'
  <2> DEFINE t == [Idle EXCEPT !.op = op, !.id = k, !.text = text, !.read = page[s][k],
                               !.step = IF op = "update" THEN "row" ELSE "account"]
  <2>1. page[s][k] \in Row /\ k \in Nat  BY <1>2 DEF IInv, BeginOn
  <2>2. t \in Request  BY <2>1 DEF Idle, Request, Ops
  <2>3. GoodRequest(t) /\ ~(t.op \in AccountOps /\ t.step \in {"row", "write", "commit"})
    BY <1>2 DEF Idle, GoodRequest, Ops, AccountOps
  <2>4. QED  BY <1>2, <2>2, <2>3, RequestStep DEF BeginOn
<1>3. QED  BY <1>1, <1>2 DEF Submit, Ops

LEMMA LockStep == ASSUME IInv, NEW s \in Sessions, LockAccount(s) \/ LockRow(s) PROVE IInv'
<1>0. txn[s] \in Request /\ GoodRequest(txn[s])  BY DEF IInv
<1>1. CASE LockAccount(s)
  <2> DEFINE t == [txn[s] EXCEPT !.step = IF txn[s].op = "create" THEN "write" ELSE "row"]
  <2>1. t \in Request  BY <1>0 DEF Request
  <2>2. GoodRequest(t)  BY <1>0, <1>1 DEF LockAccount, At, GoodRequest, Request, Ops
  <2>3. rows' = rows /\ page' = page /\ txn' = [txn EXCEPT ![s] = t]  BY <1>1 DEF LockAccount, IInv
  <2>4. QED  BY <1>1, <2>1, <2>2, <2>3, RequestStep DEF LockAccount
<1>2. CASE LockRow(s)
  <2> DEFINE t == [txn[s] EXCEPT !.step = IF txn[s].op = "update" THEN "commit" ELSE "write"]
  <2>1. txn[s].step = "row" /\ txn[s].op \in Ops \ {"create"}
    BY <1>0, <1>2 DEF LockRow, At, GoodRequest, Request
  <2>2. ASSUME txn' = [txn EXCEPT ![s] = t], txn[s].op = "set_default" => rows[txn[s].id].active
        PROVE  IInv'
    <3>1. t \in Request  BY <1>0 DEF Request
    <3>2. GoodRequest(t)  BY <1>0, <2>1, <2>2 DEF GoodRequest, Request, Ops
    <3>3. t.op \in AccountOps => \A r \in Sessions \ {s} : ~HoldsAccount(r)
      BY <1>0, <2>1 DEF IInv, Exclusive, HoldsAccount, AccountOps, Request
    <3>4. QED  BY <1>2, <2>2, <3>1, <3>2, <3>3, RequestStep DEF LockRow
  <2>3. ASSUME txn' = [txn EXCEPT ![s] = Idle] PROVE IInv'
    <3>1. Idle \in Request /\ GoodRequest(Idle) /\ Idle.op \notin AccountOps
      BY DEF Idle, Request, GoodRequest, Ops, AccountOps
    <3>2. QED  BY <1>2, <2>3, <3>1, RequestStep DEF LockRow
  <2>4. QED  BY <1>2, <2>2, <2>3 DEF LockRow, IInv
<1>3. QED  BY <1>1, <1>2

\* The statements that write only add to what the request has decided.
LEMMA WriteStep ==
    ASSUME IInv, NEW s \in Sessions, NEW default \in BOOLEAN, NEW U \in SUBSET Nat, NEW P \in SUBSET Nat,
           Write(s, default, U, P),
           GoodRequest([txn[s] EXCEPT !.step = "commit", !.default = default,
                                      !.undefaulted = U, !.promoted = P])
    PROVE  IInv'
<1> DEFINE t == [txn[s] EXCEPT !.step = "commit", !.default = default, !.undefaulted = U, !.promoted = P]
<1>1. txn[s] \in Request /\ GoodRequest(txn[s]) /\ txn[s].step = "write"  BY DEF IInv, Write, At
<1>2. t \in Request  BY <1>1 DEF Request
<1>3. t.op \in AccountOps => \A r \in Sessions \ {s} : ~HoldsAccount(r)
  BY <1>1 DEF IInv, Exclusive, HoldsAccount, AccountOps, Request
<1>4. rows' = rows /\ page' = page /\ txn' = [txn EXCEPT ![s] = t]  BY DEF Write, IInv
<1>5. QED  BY <1>2, <1>3, <1>4, RequestStep

LEMMA DecideStep ==
    ASSUME IInv, NEW s \in Sessions, Create(s) \/ SetDefault(s) \/ Deactivate(s)
    PROVE  IInv'
<1>0. txn[s] \in Request /\ GoodRequest(txn[s])  BY DEF IInv
<1>1. DefaultRows \in SUBSET Nat  BY DEF IInv, DefaultRows, ActiveRows
<1>2. CASE Create(s)
  <2> DEFINE d == txn[s].default \/ DefaultRows = {}
  <2> DEFINE U == IF d THEN DefaultRows ELSE {}
  <2>1. Write(s, d, U, {}) /\ txn[s].op = "create" /\ txn[s].step = "write"
    BY <1>2 DEF Create, Write, At
  <2>2. GoodRequest([txn[s] EXCEPT !.step = "commit", !.default = d, !.undefaulted = U, !.promoted = {}])
    BY <1>0, <2>1 DEF GoodRequest, Request, Ops
  <2>3. d \in BOOLEAN /\ U \in SUBSET Nat /\ {} \in SUBSET Nat  BY <1>0, <1>1 DEF Request
  <2> HIDE DEF d, U
  <2>4. QED  BY <2>1, <2>2, <2>3, WriteStep
<1>3. CASE SetDefault(s)
  <2> DEFINE U == DefaultRows \ {txn[s].id}
  <2>1. Write(s, TRUE, U, {}) /\ txn[s].op = "set_default" /\ txn[s].step = "write"
    BY <1>3 DEF SetDefault, Write, At
  <2>2. GoodRequest([txn[s] EXCEPT !.step = "commit", !.default = TRUE, !.undefaulted = U, !.promoted = {}])
    BY <1>0, <2>1 DEF GoodRequest, Request, Ops
  <2>3. U \in SUBSET Nat /\ {} \in SUBSET Nat  BY <1>1
  <2> HIDE DEF U
  <2>4. QED  BY <2>1, <2>2, <2>3, WriteStep
<1>4. CASE Deactivate(s)
  <2>1. /\ Write(s, FALSE, {}, Heir(txn[s].id))
        /\ txn[s].op = "deactivate" /\ txn[s].step = "write"
    BY <1>4 DEF Deactivate, Write, At
  <2>2. txn[s].id \in DOMAIN rows  BY <1>0, <2>1 DEF GoodRequest, Ops
  <2>3. Heir(txn[s].id) \in SUBSET Nat
    BY <2>2, HeirIsActive DEF IInv, ActiveRows
  <2>4. GoodRequest([txn[s] EXCEPT !.step = "commit", !.default = FALSE,
                                   !.undefaulted = {}, !.promoted = Heir(txn[s].id)])
    BY <1>0, <2>1 DEF GoodRequest, Request, Ops
  <2>5. QED  BY <2>1, <2>3, <2>4, WriteStep
<1>5. QED  BY <1>2, <1>3, <1>4

-----------------------------------------------------------------------------
\* A bumped row is a row, whatever else is written to it.
LEMMA BumpedRow ==
    ASSUME NEW row \in Row
    PROVE  /\ Bumped(row) \in Row
           /\ \A d \in BOOLEAN, a \in BOOLEAN : [Bumped(row) EXCEPT !.active = a, !.default = d] \in Row
           /\ \A d \in BOOLEAN : [Bumped(row) EXCEPT !.default = d] \in Row
           /\ \A text \in Texts : [Bumped(row) EXCEPT !.text = text] \in Row
<1>1. row.version + 1 \in Nat \ {0}  BY DEF Row
<1>2. QED  BY <1>1 DEF Row, Bumped

\* What a commit does to each row: the flags of the other rows that the request
\* has updated change, and nothing else about which rows are active.
LEMMA OtherRows ==
    ASSUME IInv, NEW s \in Sessions, NEW others,
           others = [k \in DOMAIN rows |->
                       IF k \in txn[s].undefaulted THEN [Bumped(rows[k]) EXCEPT !.default = FALSE]
                       ELSE IF k \in txn[s].promoted THEN [Bumped(rows[k]) EXCEPT !.default = TRUE]
                       ELSE rows[k]]
    PROVE  /\ others \in Seq(Row) /\ DOMAIN others = DOMAIN rows /\ Len(others) = Len(rows)
           /\ \A k \in DOMAIN rows :
                /\ others[k].active = rows[k].active
                /\ others[k].default = IF k \in txn[s].undefaulted THEN FALSE
                                       ELSE IF k \in txn[s].promoted THEN TRUE ELSE rows[k].default
<1>1. rows \in Seq(Row)  BY DEF IInv
<1>2. \A k \in DOMAIN rows : rows[k] \in Row  BY <1>1
<1>3. ASSUME NEW k \in DOMAIN rows PROVE others[k] \in Row
  BY <1>2, BumpedRow
<1>4. others \in [1..Len(rows) -> Row]  BY <1>1, <1>3
<1>5. others \in Seq(Row) /\ Len(others) = Len(rows)  BY <1>1, <1>4
<1>6. QED  BY <1>1, <1>2, <1>5 DEF Row, Bumped

\* An edit changes neither which rows are active nor which one is the default,
\* so what every other request has decided stays right.
LEMMA UpdateCommit ==
    ASSUME IInv, NEW s \in Sessions, Commit(s), txn[s].op = "update"
    PROVE  IInv'
<1>0. txn[s] \in Request /\ GoodRequest(txn[s]) /\ txn[s].step = "commit"  BY DEF IInv, Commit, At
<1>1. PICK k \in DOMAIN rows : k = txn[s].id  BY <1>0 DEF GoodRequest, Ops
<1>2. txn[s].undefaulted = {} /\ txn[s].promoted = {} /\ txn[s].text \in Texts
  BY <1>0 DEF GoodRequest, Ops
<1>3. rows \in Seq(Row) /\ rows[k] \in Row  BY <1>1 DEF IInv
<1>4. rows' = [rows EXCEPT ![k] = [Bumped(rows[k]) EXCEPT !.text = txn[s].text]]
  BY <1>1, <1>2, <1>3 DEF Commit, Written
<1>5. rows' \in Seq(Row) /\ DOMAIN rows' = DOMAIN rows
  <2>1. [Bumped(rows[k]) EXCEPT !.text = txn[s].text] \in Row  BY <1>2, <1>3, BumpedRow
  <2>2. k \in 1..Len(rows)  BY <1>3
  <2>3. QED  BY <1>3, <1>4, <2>1, <2>2, ExceptSeq
<1>6. \A j \in DOMAIN rows : rows'[j].active = rows[j].active /\ rows'[j].default = rows[j].default
  BY <1>3, <1>4 DEF Row, Bumped
<1>7. ActiveRows' = ActiveRows /\ DefaultRows' = DefaultRows
  BY <1>5, <1>6 DEF ActiveRows, DefaultRows
<1>8. \A j \in DOMAIN rows : Heir(j)' = Heir(j)
  BY <1>6, <1>7 DEF Heir
<1>9. \A r \in Sessions : GoodRequest(txn[r])'
  <2>1. ASSUME NEW r \in Sessions, r # s PROVE GoodRequest(txn[r])'
    <3>1. txn'[r] = txn[r] /\ GoodRequest(txn[r])  BY <2>1 DEF Commit, IInv
    <3>2. QED  BY <3>1, <1>5, <1>6, <1>7, <1>8 DEF GoodRequest, Ops
  <2>2. GoodRequest(txn[s])'  BY DEF Commit, IInv, GoodRequest, Idle, Ops
  <2>3. QED  BY <2>1, <2>2
<1>10. OneDefault'  BY <1>5, <1>6, <1>7 DEF IInv, OneDefault
<1>11. Exclusive'  BY DEF Commit, IInv, Exclusive, HoldsAccount, Idle, AccountOps, Ops
<1>12. page' = page /\ txn' \in [Sessions -> Request]
  BY DEF Commit, IInv, Request, Idle
<1>13. QED  BY <1>5, <1>9, <1>10, <1>11, <1>12 DEF IInv

\* Whoever commits a decision holds the lock on the account, so no other request
\* has decided anything yet.
LEMMA DecisionCommit ==
    ASSUME IInv, NEW s \in Sessions, Commit(s), txn[s].op # "update",
           rows' \in Seq(Row), DOMAIN rows \subseteq DOMAIN rows', OneDefault'
    PROVE  IInv'
<1>0. txn[s] \in Request /\ GoodRequest(txn[s]) /\ txn[s].step = "commit"  BY DEF IInv, Commit, At
<1>1. HoldsAccount(s)  BY <1>0 DEF HoldsAccount, GoodRequest, Request, AccountOps
<1>2. \A r \in Sessions : GoodRequest(txn[r])'
  <2>1. ASSUME NEW r \in Sessions, r # s PROVE GoodRequest(txn[r])'
    <3>1. txn'[r] = txn[r] /\ GoodRequest(txn[r]) /\ txn[r] \in Request /\ ~HoldsAccount(r)
      BY <1>1, <2>1 DEF Commit, IInv, Exclusive
    <3>2. txn[r].op \in {"idle", "update"} \/ txn[r].step \in {"none", "account"}
      BY <3>1 DEF HoldsAccount, Request, AccountOps
    <3>3. QED  BY <3>1, <3>2 DEF GoodRequest, Ops
  <2>2. GoodRequest(txn[s])'  BY DEF Commit, IInv, GoodRequest, Idle, Ops
  <2>3. QED  BY <2>1, <2>2
<1>3. Exclusive'  BY DEF Commit, IInv, Exclusive, HoldsAccount, Idle, AccountOps, Ops
<1>4. page' = page /\ txn' \in [Sessions -> Request]
  BY DEF Commit, IInv, Request, Idle
<1>5. QED  BY <1>2, <1>3, <1>4 DEF IInv

LEMMA CreateCommit ==
    ASSUME IInv, NEW s \in Sessions, Commit(s), txn[s].op = "create"
    PROVE  IInv'
<1> DEFINE others == [k \in DOMAIN rows |->
                       IF k \in txn[s].undefaulted THEN [Bumped(rows[k]) EXCEPT !.default = FALSE]
                       ELSE IF k \in txn[s].promoted THEN [Bumped(rows[k]) EXCEPT !.default = TRUE]
                       ELSE rows[k]]
           new == [active |-> TRUE, default |-> txn[s].default, version |-> 1, text |-> txn[s].text]
           n == Len(rows) + 1
<1>0. txn[s] \in Request /\ GoodRequest(txn[s]) /\ txn[s].step = "commit"  BY DEF IInv, Commit, At
<1>1. rows' = Append(others, new)  BY DEF Commit
<1>2. /\ others \in Seq(Row) /\ DOMAIN others = DOMAIN rows /\ Len(others) = Len(rows)
      /\ \A k \in DOMAIN rows :
           /\ others[k].active = rows[k].active
           /\ others[k].default = IF k \in txn[s].undefaulted THEN FALSE
                                  ELSE IF k \in txn[s].promoted THEN TRUE ELSE rows[k].default
  BY OtherRows
<1>3. new \in Row  BY <1>0 DEF GoodRequest, Request, Row
<1>4. rows \in Seq(Row) /\ DOMAIN rows = 1..Len(rows) /\ Len(rows) \in Nat  BY DEF IInv
<1> HIDE DEF others, new
<1>5. /\ rows' \in Seq(Row) /\ DOMAIN rows' = 1..n
      /\ \A k \in DOMAIN rows : rows'[k] = others[k]
      /\ rows'[n] = new
  BY <1>1, <1>2, <1>3, <1>4, AppendProperties, LenProperties
<1>6. /\ txn[s].promoted = {} /\ txn[s].undefaulted = IF txn[s].default THEN DefaultRows ELSE {}
      /\ ~txn[s].default => DefaultRows # {}
  BY <1>0 DEF GoodRequest, Ops
<1>7. new.active = TRUE /\ new.default = txn[s].default  BY DEF new
<1>8. \A k \in DOMAIN rows : rows[k].default => k \in DefaultRows
  BY DEF IInv, OneDefault, DefaultRows, ActiveRows
<1>9. \A k \in DOMAIN rows :
         /\ rows'[k].active = rows[k].active
         /\ rows'[k].default = IF txn[s].default /\ k \in DefaultRows THEN FALSE ELSE rows[k].default
  BY <1>2, <1>5, <1>6
<1>10. DOMAIN rows' = DOMAIN rows \cup {n} /\ n \notin DOMAIN rows  BY <1>4, <1>5
<1>11. rows'[n].active = TRUE /\ rows'[n].default = txn[s].default  BY <1>5, <1>7
<1>12. DefaultRows' = IF txn[s].default THEN {n} ELSE DefaultRows
  <2>1. CASE txn[s].default
    BY <1>8, <1>9, <1>10, <1>11, <2>1 DEF DefaultRows, ActiveRows
  <2>2. CASE ~txn[s].default
    BY <1>9, <1>10, <1>11, <2>2 DEF DefaultRows, ActiveRows
  <2>3. QED  BY <2>1, <2>2
<1>13. \A k \in DOMAIN rows' : rows'[k].default => rows'[k].active
  BY <1>8, <1>9, <1>10, <1>11 DEF DefaultRows, ActiveRows
<1>14. \E k \in DOMAIN rows' : DefaultRows' = {k}
  <2>1. CASE txn[s].default  BY <1>4, <1>5, <1>12, <2>1
  <2>2. CASE ~txn[s].default
    <3>1. ActiveRows # {}  BY <1>6, <2>2 DEF DefaultRows
    <3>2. QED  BY <1>4, <1>5, <1>12, <2>2, <3>1 DEF IInv, OneDefault
  <2>3. QED  BY <2>1, <2>2
<1>15. OneDefault'  BY <1>13, <1>14 DEF OneDefault
<1>16. DOMAIN rows \subseteq DOMAIN rows'  BY <1>4, <1>5
<1>17. QED  BY <1>5, <1>15, <1>16, DecisionCommit

\* The row that a choice or a deactivation is about.
LEMMA RowCommit ==
    ASSUME IInv, NEW s \in Sessions, Commit(s), txn[s].op \in {"set_default", "deactivate"}
    PROVE  /\ txn[s].id \in DOMAIN rows
           /\ rows' \in Seq(Row) /\ DOMAIN rows' = DOMAIN rows
           /\ \A k \in DOMAIN rows \ {txn[s].id} :
                /\ rows'[k].active = rows[k].active
                /\ rows'[k].default = IF k \in txn[s].undefaulted THEN FALSE
                                      ELSE IF k \in txn[s].promoted THEN TRUE ELSE rows[k].default
           /\ txn[s].op = "deactivate" => ~rows'[txn[s].id].active /\ ~rows'[txn[s].id].default
           /\ txn[s].op = "set_default" /\ txn[s].id \notin txn[s].promoted =>
                rows'[txn[s].id].active = rows[txn[s].id].active /\ rows'[txn[s].id].default
<1> DEFINE others == [k \in DOMAIN rows |->
                       IF k \in txn[s].undefaulted THEN [Bumped(rows[k]) EXCEPT !.default = FALSE]
                       ELSE IF k \in txn[s].promoted THEN [Bumped(rows[k]) EXCEPT !.default = TRUE]
                       ELSE rows[k]]
<1>0. GoodRequest(txn[s])  BY DEF IInv
<1>1. PICK id \in DOMAIN rows : id = txn[s].id  BY <1>0 DEF GoodRequest, Ops
<1>2. rows' = [others EXCEPT ![id] = Written(s, others[id])]  BY <1>1 DEF Commit
<1>3. /\ others \in Seq(Row) /\ DOMAIN others = DOMAIN rows /\ Len(others) = Len(rows)
      /\ \A k \in DOMAIN rows :
           /\ others[k].active = rows[k].active
           /\ others[k].default = IF k \in txn[s].undefaulted THEN FALSE
                                  ELSE IF k \in txn[s].promoted THEN TRUE ELSE rows[k].default
  BY OtherRows
<1> HIDE DEF others
<1>4. id \in 1..Len(others) /\ others[id] \in Row  BY <1>3
<1>5. Written(s, others[id]) \in Row
  BY <1>4, BumpedRow DEF Written
<1>6. rows' \in Seq(Row) /\ DOMAIN rows' = DOMAIN rows
  BY <1>2, <1>3, <1>4, <1>5, ExceptSeq, LenProperties
<1>7. \A k \in DOMAIN rows \ {id} : rows'[k] = others[k]  BY <1>2, <1>3
<1>8. rows'[id] = Written(s, others[id])  BY <1>2, <1>3
<1>9. /\ txn[s].op = "deactivate" => ~rows'[id].active /\ ~rows'[id].default
      /\ txn[s].op = "set_default" => rows'[id].active = others[id].active /\ rows'[id].default
  BY <1>4, <1>8 DEF Written, Bumped, Row
<1>10. QED  BY <1>1, <1>3, <1>6, <1>7, <1>9

LEMMA SetDefaultCommit ==
    ASSUME IInv, NEW s \in Sessions, Commit(s), txn[s].op = "set_default"
    PROVE  IInv'
<1>1. PICK id \in DOMAIN rows : id = txn[s].id  BY RowCommit
<1>2. /\ txn[s].promoted = {} /\ txn[s].undefaulted = DefaultRows \ {id}
      /\ rows[id].active
  BY <1>1 DEF IInv, GoodRequest, Ops, Commit, At
<1>3. /\ rows' \in Seq(Row) /\ DOMAIN rows' = DOMAIN rows
      /\ \A k \in DOMAIN rows \ {id} :
           /\ rows'[k].active = rows[k].active
           /\ rows'[k].default = IF k \in DefaultRows THEN FALSE ELSE rows[k].default
      /\ rows'[id].active /\ rows'[id].default
  BY <1>1, <1>2, RowCommit
<1>4. \A k \in DOMAIN rows : rows[k].default => rows[k].active  BY DEF IInv, OneDefault
<1>5. DefaultRows' = {id}
  BY <1>3 DEF DefaultRows, ActiveRows
<1>6. OneDefault'
  BY <1>3, <1>4, <1>5 DEF OneDefault, DefaultRows, ActiveRows
<1>7. QED  BY <1>3, <1>6, DecisionCommit

LEMMA DeactivateCommit ==
    ASSUME IInv, NEW s \in Sessions, Commit(s), txn[s].op = "deactivate"
    PROVE  IInv'
<1>1. PICK id \in DOMAIN rows : id = txn[s].id  BY RowCommit
<1>2. txn[s].promoted = Heir(id) /\ txn[s].undefaulted = {}
  BY <1>1 DEF IInv, GoodRequest, Ops, Commit, At
<1>3. /\ rows' \in Seq(Row) /\ DOMAIN rows' = DOMAIN rows
      /\ \A k \in DOMAIN rows \ {id} :
           /\ rows'[k].active = rows[k].active
           /\ rows'[k].default = IF k \in Heir(id) THEN TRUE ELSE rows[k].default
      /\ ~rows'[id].active /\ ~rows'[id].default
  BY <1>1, <1>2, RowCommit
<1>4. /\ Heir(id) \subseteq ActiveRows \ {id}
      /\ rows[id].default /\ ActiveRows \ {id} # {} => \E j \in ActiveRows \ {id} : Heir(id) = {j}
      /\ ~rows[id].default => Heir(id) = {}
  BY HeirIsActive DEF IInv
<1>5. \A k \in DOMAIN rows : rows[k].default => rows[k].active  BY DEF IInv, OneDefault
<1>6. ActiveRows' = ActiveRows \ {id}  BY <1>3 DEF ActiveRows
<1>7. \A k \in DOMAIN rows' : rows'[k].default => rows'[k].active
  BY <1>3, <1>4, <1>5 DEF ActiveRows
<1>8. ASSUME ActiveRows \ {id} # {} PROVE \E k \in DOMAIN rows : DefaultRows' = {k}
  <2>1. PICK d \in DOMAIN rows : DefaultRows = {d}  BY <1>8 DEF IInv, OneDefault
  <2>2. CASE rows[id].default
    <3>1. d = id  BY <1>5, <2>1, <2>2 DEF DefaultRows, ActiveRows
    <3>2. PICK j \in ActiveRows \ {id} : Heir(id) = {j}  BY <1>4, <1>8, <2>2
    <3>3. DefaultRows' = {j}
      BY <1>3, <1>6, <2>1, <3>1, <3>2 DEF DefaultRows, ActiveRows
    <3>4. QED  BY <3>2, <3>3 DEF ActiveRows
  <2>3. CASE ~rows[id].default
    <3>1. DefaultRows' = DefaultRows
      BY <1>3, <1>4, <1>6, <2>3 DEF DefaultRows, ActiveRows
    <3>2. QED  BY <2>1, <3>1
  <2>4. QED  BY <2>2, <2>3
<1>9. OneDefault'  BY <1>3, <1>6, <1>7, <1>8 DEF OneDefault
<1>10. QED  BY <1>3, <1>9, DecisionCommit

-----------------------------------------------------------------------------
\* Reading the list changes nothing that a request depends on.
LEMMA SameRequests ==
    ASSUME IInv, rows' = rows, txn' = txn, page' \in [Sessions -> Seq(Row)]
    PROVE  IInv'
<1>1. ActiveRows' = ActiveRows /\ DefaultRows' = DefaultRows /\ \A k : Heir(k)' = Heir(k)
  BY DEF ActiveRows, DefaultRows, Heir
<1>2. \A r \in Sessions : GoodRequest(txn[r])'  BY <1>1 DEF IInv, GoodRequest
<1>3. Exclusive'  BY DEF IInv, Exclusive, HoldsAccount
<1>4. OneDefault'  BY <1>1 DEF IInv, OneDefault
<1>5. QED  BY <1>2, <1>3, <1>4 DEF IInv

LEMMA NextPreserves == IInv /\ [Next]_vars => IInv'
<1> SUFFICES ASSUME IInv, [Next]_vars PROVE IInv'  OBVIOUS
<1>1. ASSUME NEW s \in Sessions, Look(s) PROVE IInv'
  <2>1. rows' = rows /\ txn' = txn  BY <1>1 DEF Look
  <2>2. page' \in [Sessions -> Seq(Row)]  BY <1>1 DEF Look, IInv
  <2>3. QED  BY <2>1, <2>2, SameRequests
<1>2. ASSUME NEW s \in Sessions, Commit(s) PROVE IInv'
  <2>1. txn[s].op \in Ops
    BY <1>2 DEF IInv, GoodRequest, Request, Commit, At
  <2>2. QED  BY <1>2, <2>1, CreateCommit, UpdateCommit, SetDefaultCommit, DeactivateCommit DEF Ops
<1>3. CASE UNCHANGED vars
  BY <1>3, SameRequests DEF vars, IInv
<1>4. QED
  BY <1>1, <1>2, <1>3, SubmitStep, LockStep, DecideStep DEF Next, Serve

LEMMA Inductive == Spec => []IInv
BY InitHolds, NextPreserves, PTL DEF Spec

\* The columns keep their domains, and no request ever makes an inactive address
\* the default (create_address, set_default_address, deactivate_address).
THEOREM TypeCorrect == Spec => []TypeOK
BY Inductive, Consequences, PTL

\* A decision taken under the lock on the account is right when it commits: the
\* edits of update_address, which take no such lock, cannot make it wrong.
THEOREM DecisionsStayRight == Spec => []PlansHold
BY Inductive, Consequences, PTL

\* There is exactly one default address whenever there is an active address, for
\* any number of sessions: uq_customer_addresses_active_default never fails.
THEOREM AlwaysOneDefault == Spec => []OneDefault
BY Inductive, Consequences, PTL
-----------------------------------------------------------------------------
(* What a session overwrites.  A row_version stands for the row: a row that  *)
(* was read and still has its version has not changed.  From the comparison  *)
(* on, the lock on the row keeps it so.                                      *)

Older(old, row) == old.version <= row.version /\ (old.version = row.version => old = row)

\* A request and the row it is about.
Faithful(t) ==
    /\ t.op = "create" => t.id = 0
    /\ t.op \in Ops \ {"create"} => t.read \in Row /\ Older(t.read, rows[t.id])
    /\ t.op \in Ops \ {"create"} /\ t.step \in {"write", "commit"} => rows[t.id] = t.read

\* At most one request holds the lock on a row.
RowsExclusive ==
    \A r, s \in Sessions, k \in Nat \ {0} : HoldsRow(r, k) /\ HoldsRow(s, k) => r = s

SInv ==
    /\ \A s \in Sessions, k \in Nat : k \in DOMAIN page[s] => k \in DOMAIN rows /\ Older(page[s][k], rows[k])
    /\ \A s \in Sessions : Faithful(txn[s])
    /\ RowsExclusive

\* A commit touches the rows it has locked, and each of them gets a new version.
LEMMA CommitEffect ==
    ASSUME IInv, NEW s \in Sessions, Commit(s)
    PROVE  /\ DOMAIN rows \subseteq DOMAIN rows'
           /\ \A k \in DOMAIN rows : /\ rows'[k] = rows[k] \/ HoldsRow(s, k)
                                     /\ rows'[k] = rows[k] \/ rows[k].version < rows'[k].version
<1> DEFINE others == [k \in DOMAIN rows |->
                       IF k \in txn[s].undefaulted THEN [Bumped(rows[k]) EXCEPT !.default = FALSE]
                       ELSE IF k \in txn[s].promoted THEN [Bumped(rows[k]) EXCEPT !.default = TRUE]
                       ELSE rows[k]]
<1>0. txn[s] \in Request /\ GoodRequest(txn[s]) /\ txn[s].step = "commit"  BY DEF IInv, Commit, At
<1>1. rows \in Seq(Row) /\ DOMAIN rows = 1..Len(rows) /\ Len(rows) \in Nat  BY DEF IInv
<1>2. \A k \in DOMAIN rows : rows[k] \in Row  BY <1>1
<1>3. \A k \in DOMAIN rows : rows[k].version \in Nat  BY <1>2 DEF Row
<1>4. others \in Seq(Row) /\ DOMAIN others = DOMAIN rows /\ Len(others) = Len(rows)  BY OtherRows
<1>5. ASSUME NEW k \in DOMAIN rows
      PROVE  /\ others[k] = rows[k] \/ k \in txn[s].undefaulted \cup txn[s].promoted
             /\ others[k] = rows[k] \/ rows[k].version < others[k].version
             /\ others[k] \in Row
             /\ rows[k].version <= others[k].version
  <2>1. CASE k \in txn[s].undefaulted
    <3>1. others[k] = [Bumped(rows[k]) EXCEPT !.default = FALSE]  BY <2>1
    <3>2. others[k].version = rows[k].version + 1  BY <1>2, <3>1 DEF Bumped, Row
    <3>3. others[k] \in Row  BY <1>2, <3>1, BumpedRow
    <3>4. QED  BY <1>3, <2>1, <3>2, <3>3
  <2>2. CASE k \notin txn[s].undefaulted /\ k \in txn[s].promoted
    <3>1. others[k] = [Bumped(rows[k]) EXCEPT !.default = TRUE]  BY <2>2
    <3>2. others[k].version = rows[k].version + 1  BY <1>2, <3>1 DEF Bumped, Row
    <3>3. others[k] \in Row  BY <1>2, <3>1, BumpedRow
    <3>4. QED  BY <1>3, <2>2, <3>2, <3>3
  <2>3. CASE k \notin txn[s].undefaulted /\ k \notin txn[s].promoted
    BY <1>2, <1>3, <2>3
  <2>4. QED  BY <2>1, <2>2, <2>3
<1> HIDE DEF others
<1>6. CASE txn[s].op = "create"
  <2> DEFINE new == [active |-> TRUE, default |-> txn[s].default, version |-> 1, text |-> txn[s].text]
  <2>1. rows' = Append(others, new)  BY <1>6 DEF Commit, others
  <2>2. new \in Row  BY <1>0, <1>6 DEF GoodRequest, Request, Row
  <2> HIDE DEF new
  <2>3. DOMAIN rows \subseteq DOMAIN rows' /\ \A k \in DOMAIN rows : rows'[k] = others[k]
    BY <1>1, <1>4, <2>1, <2>2, AppendProperties, LenProperties
  <2>4. QED  BY <1>5, <2>3 DEF HoldsRow
<1>7. CASE txn[s].op # "create"
  <2>1. PICK id \in DOMAIN rows : id = txn[s].id
    BY <1>0, <1>7 DEF GoodRequest, Request
  <2>2. rows' = [others EXCEPT ![id] = Written(s, others[id])]  BY <1>7, <2>1 DEF Commit, others
  <2>3. DOMAIN rows' = DOMAIN rows /\ \A k \in DOMAIN rows \ {id} : rows'[k] = others[k]
    BY <1>4, <2>2
  <2>4. rows'[id] = Written(s, others[id])  BY <1>4, <2>2
  <2>5. others[id] \in Row /\ others[id].version \in Nat  BY <1>5 DEF Row
  <2>6. txn[s].op \in {"update", "set_default", "deactivate"}
    BY <1>0, <1>7 DEF GoodRequest, Request, Ops
  <2>7. rows'[id].version = others[id].version + 1
    BY <2>4, <2>5, <2>6 DEF Written, Bumped, Row
  <2>8. rows[id].version < rows'[id].version  BY <1>3, <1>5, <2>5, <2>7
  <2>9. HoldsRow(s, id)  BY <1>0, <2>1 DEF HoldsRow
  <2>10. QED  BY <1>5, <2>3, <2>8, <2>9 DEF HoldsRow
<1>8. QED  BY <1>6, <1>7

\* A row only gets older than a later one.
LEMMA StaysOlder ==
    ASSUME NEW old \in Row, NEW row \in Row, NEW new \in Row, Older(old, row),
           new = row \/ row.version < new.version
    PROVE  Older(old, new)
<1>1. old.version \in Nat /\ row.version \in Nat /\ new.version \in Nat  BY DEF Row
<1>2. QED  BY <1>1 DEF Older

LEMMA SeenInit == Init => SInv
<1> SUFFICES ASSUME Init PROVE SInv  OBVIOUS
<1>1. \A s \in Sessions : Faithful(txn[s])  BY DEF Init, Idle, Faithful, Ops
<1>2. RowsExclusive  BY DEF Init, Idle, RowsExclusive, HoldsRow
<1>3. \A s \in Sessions : page[s] = <<>>  BY DEF Init
<1>4. \A k \in Nat : k \notin DOMAIN <<>>  OBVIOUS
<1>5. QED  BY <1>1, <1>2, <1>3, <1>4 DEF SInv

\* A step of one request that leaves the rows alone.
LEMMA SeenRequestStep ==
    ASSUME IInv, SInv, NEW s \in Sessions, NEW t,
           rows' = rows, page' = page, txn' = [txn EXCEPT ![s] = t], Faithful(t),
           \A k \in Nat \ {0} : (t.step \in {"write", "commit"} /\ t.id = k) \/ k \in t.undefaulted \cup t.promoted
              => HoldsRow(s, k) \/ AllFree(s, {k})
    PROVE  SInv'
<1>1. txn \in [Sessions -> Request] BY DEF IInv
<1>2. txn'[s] = t /\ \A r \in Sessions \ {s} : txn'[r] = txn[r]  BY <1>1
<1>3. \A r \in Sessions \ {s} : \A k : HoldsRow(r, k)' <=> HoldsRow(r, k)  BY <1>2 DEF HoldsRow
<1>4. ASSUME NEW k \in Nat \ {0}, HoldsRow(s, k)', NEW r \in Sessions \ {s} PROVE ~HoldsRow(r, k)
  <2>1. HoldsRow(s, k) \/ AllFree(s, {k})  BY <1>2, <1>4 DEF HoldsRow
  <2>2. QED  BY <1>4, <2>1 DEF SInv, RowsExclusive, AllFree
<1>5. RowsExclusive'  BY <1>3, <1>4 DEF SInv, RowsExclusive
<1>6. \A r \in Sessions : Faithful(txn[r])'  BY <1>2 DEF SInv, Faithful
<1>7. QED  BY <1>5, <1>6 DEF SInv
LEMMA SeenSubmit == ASSUME IInv, SInv, NEW s \in Sessions, Submit(s) PROVE SInv'
<1>1. CASE \E text \in Texts, default \in BOOLEAN : BeginCreate(s, text, default)
  <2>1. PICK text \in Texts, default \in BOOLEAN : BeginCreate(s, text, default)  BY <1>1
  <2> DEFINE t == [Idle EXCEPT !.op = "create", !.step = "account", !.text = text, !.default = default]
  <2>2. Faithful(t)  BY DEF Idle, Faithful, Ops
  <2>3. t.step = "account" /\ t.undefaulted = {} /\ t.promoted = {}  BY DEF Idle
  <2>4. rows' = rows /\ page' = page /\ txn' = [txn EXCEPT ![s] = t]  BY <2>1 DEF BeginCreate
  <2> HIDE DEF t
  <2>5. QED  BY <2>2, <2>3, <2>4, SeenRequestStep
<1>2. ASSUME NEW k \in DOMAIN rows, NEW op \in Ops \ {"create"}, NEW text \in Texts \cup {None},
             BeginOn(s, op, k, text)
      PROVE  SInv'
  <2> DEFINE t == [Idle EXCEPT !.op = op, !.id = k, !.text = text, !.read = page[s][k],
                               !.step = IF op = "update" THEN "row" ELSE "account"]
  <2>1. page[s] \in Seq(Row) /\ k \in DOMAIN page[s] /\ k \in Nat  BY <1>2 DEF IInv, BeginOn
  <2>2. page[s][k] \in Row /\ Older(page[s][k], rows[k])  BY <2>1 DEF SInv
  <2>3. t.op = op /\ t.id = k /\ t.read = page[s][k] /\ t.step \in {"row", "account"}
        /\ t.undefaulted = {} /\ t.promoted = {}
    BY DEF Idle
  <2>4. rows' = rows /\ page' = page /\ txn' = [txn EXCEPT ![s] = t]  BY <1>2 DEF BeginOn
  <2> HIDE DEF t
  <2>5. Faithful(t)  BY <2>2, <2>3 DEF Faithful
  <2>6. QED  BY <2>3, <2>4, <2>5, SeenRequestStep
<1>3. QED  BY <1>1, <1>2 DEF Submit, Ops

LEMMA SeenServe ==
    ASSUME IInv, SInv, NEW s \in Sessions,
           LockAccount(s) \/ LockRow(s) \/ Create(s) \/ SetDefault(s) \/ Deactivate(s)
    PROVE  SInv'
<1>0. txn[s] \in Request /\ GoodRequest(txn[s]) /\ Faithful(txn[s])  BY DEF IInv, SInv
<1>1. CASE LockAccount(s)
  <2> DEFINE t == [txn[s] EXCEPT !.step = IF txn[s].op = "create" THEN "write" ELSE "row"]
  <2>1. txn[s].step = "account"  BY <1>1 DEF LockAccount, At
  <2>2. t.undefaulted = {} /\ t.promoted = {} /\ t.id = txn[s].id /\ t.op = txn[s].op /\ t.read = txn[s].read
        /\ t.step = IF txn[s].op = "create" THEN "write" ELSE "row"
    BY <1>0, <2>1 DEF GoodRequest, Request
  <2>3. rows' = rows /\ page' = page /\ txn' = [txn EXCEPT ![s] = t]  BY <1>1 DEF LockAccount, IInv
  <2> HIDE DEF t
  <2>4. Faithful(t)  BY <1>0, <2>2 DEF Faithful, Ops
  <2>5. ASSUME NEW k \in Nat \ {0} PROVE ~(t.step \in {"write", "commit"} /\ t.id = k)
    BY <1>0, <2>2, <2>5 DEF Faithful
  <2>6. QED  BY <2>2, <2>3, <2>4, <2>5, SeenRequestStep
<1>2. CASE LockRow(s)
  <2> DEFINE t == [txn[s] EXCEPT !.step = IF txn[s].op = "update" THEN "commit" ELSE "write"]
  <2>1. txn[s].step = "row" /\ txn[s].op \in Ops \ {"create"}
    BY <1>0, <1>2 DEF LockRow, At, GoodRequest, Request
  <2>2. CASE txn' = [txn EXCEPT ![s] = t] /\ rows[txn[s].id].version = txn[s].read.version
    <3>1. t.undefaulted = {} /\ t.promoted = {} /\ t.id = txn[s].id /\ t.op = txn[s].op /\ t.read = txn[s].read
      BY <1>0, <2>1 DEF GoodRequest, Request
    <3>2. rows' = rows /\ page' = page /\ AllFree(s, {txn[s].id})  BY <1>2 DEF LockRow
    <3>3. rows[txn[s].id] = txn[s].read  BY <1>0, <2>1, <2>2 DEF Faithful, Older
    <3> HIDE DEF t
    <3>4. Faithful(t)  BY <1>0, <2>1, <3>1, <3>3 DEF Faithful
    <3>5. QED  BY <2>2, <3>1, <3>2, <3>4, SeenRequestStep
  <2>3. CASE txn' = [txn EXCEPT ![s] = Idle]
    <3>1. Faithful(Idle) /\ Idle.step = "none" /\ Idle.undefaulted = {} /\ Idle.promoted = {}
      BY DEF Idle, Faithful, Ops
    <3>2. rows' = rows /\ page' = page  BY <1>2 DEF LockRow
    <3>3. QED  BY <2>3, <3>1, <3>2, SeenRequestStep
  <2>4. QED  BY <1>2, <2>2, <2>3 DEF LockRow
<1>3. ASSUME NEW d, NEW U, NEW P, Write(s, d, U, P) PROVE SInv'
  <2> DEFINE t == [txn[s] EXCEPT !.step = "commit", !.default = d, !.undefaulted = U, !.promoted = P]
  <2>1. txn[s].step = "write" /\ AllFree(s, U \cup P)  BY <1>3 DEF Write, At
  <2>2. t.undefaulted = U /\ t.promoted = P /\ t.id = txn[s].id /\ t.op = txn[s].op /\ t.read = txn[s].read
        /\ t.step = "commit"
    BY <1>0 DEF Request
  <2>3. rows' = rows /\ page' = page /\ txn' = [txn EXCEPT ![s] = t]  BY <1>3 DEF Write, IInv
  <2> HIDE DEF t
  <2>4. Faithful(t)  BY <1>0, <2>1, <2>2 DEF Faithful
  <2>5. ASSUME NEW k \in Nat \ {0}, t.id = k PROVE HoldsRow(s, k)
    BY <2>1, <2>2, <2>5 DEF HoldsRow
  <2>6. ASSUME NEW k \in Nat \ {0}, k \in t.undefaulted \cup t.promoted PROVE AllFree(s, {k})
    BY <2>1, <2>2, <2>6 DEF AllFree
  <2>7. QED  BY <2>3, <2>4, <2>5, <2>6, SeenRequestStep
<1>4. QED  BY <1>1, <1>2, <1>3 DEF Create, SetDefault, Deactivate

\* No other request has locked the rows that a commit touches.
LEMMA SeenCommit == ASSUME IInv, SInv, IInv', NEW s \in Sessions, Commit(s) PROVE SInv'
<1>0. \A r \in Sessions : txn[r] \in Request /\ GoodRequest(txn[r]) /\ Faithful(txn[r])  BY DEF IInv, SInv
<1>1. /\ DOMAIN rows \subseteq DOMAIN rows'
      /\ \A k \in DOMAIN rows : /\ rows'[k] = rows[k] \/ HoldsRow(s, k)
                                /\ rows'[k] = rows[k] \/ rows[k].version < rows'[k].version
  BY CommitEffect
<1>2. \A k \in DOMAIN rows : k \in Nat \ {0} /\ rows[k] \in Row /\ rows'[k] \in Row
  BY <1>1 DEF IInv
<1>3. txn' = [txn EXCEPT ![s] = Idle] /\ page' = page  BY DEF Commit
<1>4. txn'[s] = Idle /\ \A r \in Sessions \ {s} : txn'[r] = txn[r]  BY <1>3 DEF IInv
<1>5. ASSUME NEW r \in Sessions, NEW k \in Nat, k \in DOMAIN page'[r]
      PROVE  k \in DOMAIN rows' /\ Older(page'[r][k], rows'[k])
  <2>1. k \in DOMAIN rows /\ Older(page[r][k], rows[k])  BY <1>3, <1>5 DEF SInv
  <2>2. page[r] \in Seq(Row) /\ k \in DOMAIN page[r]  BY <1>3, <1>5 DEF IInv
  <2>3. page[r][k] \in Row  BY <2>2
  <2>4. QED  BY <1>1, <1>2, <1>3, <2>1, <2>3, StaysOlder
<1>6. ASSUME NEW r \in Sessions PROVE Faithful(txn[r])'
  <2>1. CASE r = s  BY <1>4, <2>1 DEF Faithful, Idle, Ops
  <2>2. CASE r # s
    <3>1. txn'[r] = txn[r]  BY <1>4, <2>2
    <3>2. CASE txn[r].op \in Ops \ {"create"}
      <4>1. PICK k \in DOMAIN rows : k = txn[r].id  BY <1>0, <3>2 DEF GoodRequest
      <4>2. txn[r].read \in Row /\ Older(txn[r].read, rows[k])  BY <1>0, <3>2, <4>1 DEF Faithful
      <4>3. Older(txn[r].read, rows'[k])  BY <1>1, <1>2, <4>2, StaysOlder
      <4>4. ASSUME txn[r].step \in {"write", "commit"} PROVE rows'[k] = txn[r].read
        <5>1. HoldsRow(r, k)  BY <4>1, <4>4 DEF HoldsRow
        <5>2. ~HoldsRow(s, k)  BY <1>2, <2>2, <5>1 DEF SInv, RowsExclusive
        <5>3. QED  BY <1>0, <1>1, <3>2, <4>1, <4>4, <5>2 DEF Faithful
      <4>5. QED  BY <3>1, <3>2, <4>1, <4>2, <4>3, <4>4 DEF Faithful
    <3>3. CASE txn[r].op \notin Ops \ {"create"}
      BY <1>0, <3>1, <3>3 DEF Faithful
    <3>4. QED  BY <3>2, <3>3
  <2>3. QED  BY <2>1, <2>2
<1>7. \A k : ~HoldsRow(s, k)'  BY <1>4 DEF HoldsRow, Idle
<1>8. \A r \in Sessions \ {s} : \A k : HoldsRow(r, k)' <=> HoldsRow(r, k)  BY <1>4 DEF HoldsRow
<1>9. RowsExclusive'  BY <1>7, <1>8 DEF SInv, RowsExclusive
<1>10. QED  BY <1>5, <1>6, <1>9 DEF SInv

LEMMA SeenLook == ASSUME IInv, SInv, NEW s \in Sessions, Look(s) PROVE SInv'
<1>1. rows' = rows /\ txn' = txn /\ page' = [page EXCEPT ![s] = rows]  BY DEF Look
<1>2. ASSUME NEW r \in Sessions, NEW k \in Nat, k \in DOMAIN page'[r]
      PROVE  k \in DOMAIN rows /\ Older(page'[r][k], rows[k])
  <2>1. CASE r = s
    <3>1. page'[r] = rows /\ rows \in Seq(Row)  BY <1>1, <2>1 DEF IInv
    <3>2. k \in DOMAIN rows /\ rows[k] \in Row  BY <1>2, <3>1
    <3>3. QED  BY <3>1, <3>2 DEF Older, Row
  <2>2. CASE r # s
    <3>1. page'[r] = page[r]  BY <1>1, <2>2 DEF IInv
    <3>2. QED  BY <1>2, <3>1 DEF SInv
  <2>3. QED  BY <2>1, <2>2
<1>3. \A r \in Sessions : Faithful(txn[r])'  BY <1>1 DEF SInv, Faithful
<1>4. RowsExclusive'  BY <1>1 DEF SInv, RowsExclusive, HoldsRow
<1>5. QED  BY <1>1, <1>2, <1>3, <1>4 DEF SInv

LEMMA SeenNext == IInv /\ IInv' /\ SInv /\ [Next]_vars => SInv'
<1> SUFFICES ASSUME IInv, IInv', SInv, [Next]_vars PROVE SInv'  OBVIOUS
<1>1. CASE UNCHANGED vars
  <2>1. rows' = rows /\ page' = page /\ txn' = txn  BY <1>1 DEF vars
  <2>2. QED  BY <2>1 DEF SInv, Faithful, RowsExclusive, HoldsRow
<1>2. QED  BY <1>1, SeenLook, SeenSubmit, SeenServe, SeenCommit DEF Next, Serve

LEMMA SeenInductive == Spec => []SInv
BY SeenInit, SeenNext, Inductive, PTL DEF Spec

\* What a session overwrites it has seen: the WHERE clauses compare the
\* row_version once the row is locked (lock_row and the UPDATEs of
\* customer_resource_repository.py), and equal versions mean equal rows.
THEOREM EditsOnSeen == Spec => SeenBeforeWritten
<1> DEFINE Seen(s) == At(s, "commit") /\ txn[s].op # "create" /\ rows' # rows /\ txn'[s] = Idle
                        => rows[txn[s].id] = txn[s].read
<1>1. ASSUME IInv, SInv, NEW s \in Sessions PROVE Seen(s)
  BY <1>1 DEF IInv, SInv, Faithful, GoodRequest, Request, At
<1>2. IInv /\ SInv => [\A s \in Sessions : Seen(s)]_vars  BY <1>1
<1>3. QED  BY <1>2, Inductive, SeenInductive, PTL DEF SeenBeforeWritten

-----------------------------------------------------------------------------
\* Only a deactivation leaves an active row inactive.
LEMMA WhoDeactivates ==
    ASSUME IInv, NEW s \in Sessions, Commit(s), NEW k \in DOMAIN rows, rows[k].active, ~rows'[k].active
    PROVE  txn[s].op = "deactivate" /\ txn[s].id = k
<1>0. txn[s] \in Request /\ GoodRequest(txn[s]) /\ txn[s].step = "commit"  BY DEF IInv, Commit, At
<1> DEFINE others == [j \in DOMAIN rows |->
                       IF j \in txn[s].undefaulted THEN [Bumped(rows[j]) EXCEPT !.default = FALSE]
                       ELSE IF j \in txn[s].promoted THEN [Bumped(rows[j]) EXCEPT !.default = TRUE]
                       ELSE rows[j]]
<1>1. others \in Seq(Row) /\ DOMAIN others = DOMAIN rows /\ Len(others) = Len(rows)
      /\ \A j \in DOMAIN rows :
           /\ others[j].active = rows[j].active
           /\ others[j].default = IF j \in txn[s].undefaulted THEN FALSE
                                  ELSE IF j \in txn[s].promoted THEN TRUE ELSE rows[j].default
  BY OtherRows
<1>2. rows \in Seq(Row) /\ DOMAIN rows = 1..Len(rows) /\ Len(rows) \in Nat  BY DEF IInv
<1> HIDE DEF others
<1>3. txn[s].op # "create"
  <2> SUFFICES ASSUME txn[s].op = "create" PROVE FALSE  OBVIOUS
  <2> DEFINE new == [active |-> TRUE, default |-> txn[s].default, version |-> 1, text |-> txn[s].text]
  <2>1. rows' = Append(others, new)  BY DEF Commit, others
  <2>2. new \in Row  BY <1>0 DEF GoodRequest, Request, Row
  <2> HIDE DEF new
  <2>3. rows'[k] = others[k]  BY <1>1, <1>2, <2>1, <2>2, AppendProperties, LenProperties
  <2>4. QED  BY <1>1, <2>3
<1>4. PICK id \in DOMAIN rows : id = txn[s].id  BY <1>0, <1>3 DEF GoodRequest, Request
<1>5. rows' = [others EXCEPT ![id] = Written(s, others[id])]  BY <1>3, <1>4 DEF Commit, others
<1>6. k = id  BY <1>1, <1>5
<1>7. rows'[id] = Written(s, others[id]) /\ others[id] \in Row  BY <1>1, <1>5
<1>8. txn[s].op \in {"update", "set_default", "deactivate"}  BY <1>0, <1>3 DEF GoodRequest, Request, Ops
<1>9. CASE txn[s].op \in {"update", "set_default"}
  <2>1. rows'[id].active = others[id].active  BY <1>7, <1>9 DEF Written, Bumped, Row
  <2>2. QED  BY <1>1, <1>6, <2>1
<1>10. QED  BY <1>4, <1>6, <1>8, <1>9

\* The heir of a deactivated default is the lowest id left (deactivate_address, ORDER BY).
LEMMA HeirCommit ==
    ASSUME IInv, NEW s \in Sessions, Commit(s), NEW k \in DefaultRows, ~rows'[k].active, ActiveRows # {k}
    PROVE  DefaultRows' = {Lowest(ActiveRows \ {k})}
<1>1. k \in DOMAIN rows /\ rows[k].active /\ rows[k].default  BY DEF DefaultRows, ActiveRows
<1>2. txn[s].op = "deactivate" /\ txn[s].id = k  BY <1>1, WhoDeactivates
<1>3. txn[s].promoted = Heir(k) /\ txn[s].undefaulted = {}
  BY <1>2 DEF IInv, GoodRequest, Ops, Commit, At
<1>4. /\ rows' \in Seq(Row) /\ DOMAIN rows' = DOMAIN rows
      /\ \A j \in DOMAIN rows \ {k} :
           /\ rows'[j].active = rows[j].active
           /\ rows'[j].default = IF j \in Heir(k) THEN TRUE ELSE rows[j].default
  BY <1>2, <1>3, RowCommit
<1>5. k \in ActiveRows  BY <1>1 DEF ActiveRows
<1>6. ActiveRows \ {k} # {}  BY <1>5
<1>7. Heir(k) = {Lowest(ActiveRows \ {k})}  BY <1>1, <1>6 DEF Heir
<1>8. Lowest(ActiveRows \ {k}) \in ActiveRows \ {k}
  <2>1. ActiveRows \ {k} \in SUBSET Nat  BY DEF IInv, ActiveRows
  <2>2. QED  BY <1>6, <2>1, LowestExists
<1>9. PICK j \in ActiveRows \ {k} : j = Lowest(ActiveRows \ {k})  BY <1>8
<1>10. DefaultRows = {k}  BY <1>1, <1>5 DEF IInv, OneDefault, DefaultRows
<1>11. ActiveRows' = ActiveRows \ {k}  BY <1>4 DEF ActiveRows
<1>12. DefaultRows' = {j}
  BY <1>4, <1>7, <1>9, <1>10, <1>11 DEF DefaultRows, ActiveRows
<1>13. QED  BY <1>9, <1>12

\* README: a deactivated default passes to the lowest id that is still active, for
\* any number of rows and sessions.
THEOREM LowestInherits == Spec => LowestPromoted
<1> DEFINE Passed(k) == ~rows'[k].active /\ ActiveRows # {k} => DefaultRows' = {Lowest(ActiveRows \ {k})}
<1>1. ASSUME IInv, Next, NEW k \in DefaultRows, ~rows'[k].active, ActiveRows # {k}
      PROVE  DefaultRows' = {Lowest(ActiveRows \ {k})}
  <2>1. CASE \E s \in Sessions : Commit(s)  BY <1>1, <2>1, HeirCommit
  <2>2. CASE ~(\E s \in Sessions : Commit(s))
    <3>1. rows' = rows
      BY <1>1, <2>2 DEF Next, Look, Submit, BeginCreate, BeginOn, Serve, LockAccount, LockRow,
                        Create, SetDefault, Deactivate, Write
    <3>2. QED  BY <1>1, <3>1 DEF DefaultRows, ActiveRows
  <2>3. QED  BY <2>1, <2>2
<1>2. ASSUME IInv, [Next]_vars PROVE [\A k \in DefaultRows : Passed(k)]_vars  BY <1>1, <1>2
<1>3. QED  BY <1>2, Inductive, PTL DEF LowestPromoted, Spec
\* A change of the addresses does what its author saw, for any number of rows,
\* sessions and versions of the rows (customer_resource_repository.py).
THEOREM ChangesAsSeen == Spec => ChangedAsSeen
BY EditsOnSeen, LowestInherits DEF ChangedAsSeen

-----------------------------------------------------------------------------
(* What a customer has, all together.                                       *)

AccessProofs == INSTANCE CustomerAccessProofs

\* A step of the whole is a step of each part, or leaves it alone.
LEMMA PartsMove ==
    [CustomersNext]_<<part, vars, accessVars>> => [Next]_vars /\ [Access!Next]_accessVars
BY DEF CustomersNext, vars, accessVars

\* The two instances of CustomerAccess have the same pages, sign-ins and accounts ...
LEMMA SamePages == ASSUME NEW t PROVE Access!Page(t) <=> AccessProofs!Page(t)
<1>1. Access!Load(t) <=> AccessProofs!Load(t)
  BY DEF Access!Load, AccessProofs!Load, Access!Loaded, AccessProofs!Loaded,
         Access!NoRequest, AccessProofs!NoRequest, Access!Idle, AccessProofs!Idle
<1>2. Access!Restore(t) <=> AccessProofs!Restore(t)
  BY DEF Access!Restore, AccessProofs!Restore, Access!SignOut, AccessProofs!SignOut,
         Access!RequestCookieDelete, AccessProofs!RequestCookieDelete, Access!NoRequest, AccessProofs!NoRequest,
         Access!Idle, AccessProofs!Idle
<1>3. Access!Check(t) <=> AccessProofs!Check(t)
  BY DEF Access!Check, AccessProofs!Check, Access!SignOut, AccessProofs!SignOut,
         Access!RequestCookieDelete, AccessProofs!RequestCookieDelete, Access!NoRequest, AccessProofs!NoRequest,
         Access!Idle, AccessProofs!Idle, Access!Accepted, AccessProofs!Accepted
<1>4. \A answered : Access!Sync(t, answered) <=> AccessProofs!Sync(t, answered)
  BY DEF Access!Sync, AccessProofs!Sync
<1>5. \A p : Access!Pick(t, p) <=> AccessProofs!Pick(t, p)
  BY DEF Access!Pick, AccessProofs!Pick, Access!Idle, AccessProofs!Idle,
         Access!NoRequest, AccessProofs!NoRequest, Access!SumFunction, AccessProofs!SumFunction,
         Access!SumFunctionOnSet, AccessProofs!SumFunctionOnSet,
         Access!FoldFunctionOnSet, AccessProofs!FoldFunctionOnSet,
         Access!MapThenFoldSet, AccessProofs!MapThenFoldSet
<1>6. \A p : Access!Drop(t, p) <=> AccessProofs!Drop(t, p)
  BY DEF Access!Drop, AccessProofs!Drop, Access!Idle, AccessProofs!Idle, Access!NoRequest, AccessProofs!NoRequest
<1>7. \A served : Access!Logout(t, served) <=> AccessProofs!Logout(t, served)
  BY DEF Access!Logout, AccessProofs!Logout, Access!SignOut, AccessProofs!SignOut,
         Access!RequestCookieDelete, AccessProofs!RequestCookieDelete, Access!NoRequest, AccessProofs!NoRequest,
         Access!Idle, AccessProofs!Idle, Access!Set, AccessProofs!Set, Access!Ended, AccessProofs!Ended,
         Access!Accepted, AccessProofs!Accepted
<1>8. Access!BeginChange(t) <=> AccessProofs!BeginChange(t)
  BY DEF Access!BeginChange, AccessProofs!BeginChange, Access!Idle, AccessProofs!Idle,
         Access!NoRequest, AccessProofs!NoRequest, Access!Accepted, AccessProofs!Accepted,
         Access!browser, AccessProofs!browser
<1>9. Access!ChangePassword(t) <=> AccessProofs!ChangePassword(t)
  BY DEF Access!ChangePassword, AccessProofs!ChangePassword, Access!SignOut, AccessProofs!SignOut,
         Access!RequestCookieDelete, AccessProofs!RequestCookieDelete, Access!NoRequest, AccessProofs!NoRequest,
         Access!Idle, AccessProofs!Idle, Access!Set, AccessProofs!Set, Access!Ended, AccessProofs!Ended,
         Access!Waits, AccessProofs!Waits, Access!WithPassword, AccessProofs!WithPassword
<1>10. QED
  BY <1>1, <1>2, <1>3, <1>4, <1>5, <1>6, <1>7, <1>8, <1>9 DEF Access!Page, AccessProofs!Page

LEMMA SameLogins == ASSUME NEW t PROVE Access!Login(t) <=> AccessProofs!Login(t)
<1>1. \A a, correct : Access!BeginLogin(t, a, correct) <=> AccessProofs!BeginLogin(t, a, correct)
  BY DEF Access!BeginLogin, AccessProofs!BeginLogin, Access!Idle, AccessProofs!Idle,
         Access!NoRequest, AccessProofs!NoRequest, Access!Waits, AccessProofs!Waits,
         Access!browser, AccessProofs!browser, Access!Cardinality, AccessProofs!Cardinality
<1>2. Access!LoginFailure(t) <=> AccessProofs!LoginFailure(t)
  BY DEF Access!LoginFailure, AccessProofs!LoginFailure, Access!Waits, AccessProofs!Waits,
         Access!Set, AccessProofs!Set, Access!Done, AccessProofs!Done, Access!NoRequest, AccessProofs!NoRequest,
         Access!browser, AccessProofs!browser
<1>3. Access!LoginSuccess(t) <=> AccessProofs!LoginSuccess(t)
  BY DEF Access!LoginSuccess, AccessProofs!LoginSuccess, Access!Waits, AccessProofs!Waits,
         Access!Set, AccessProofs!Set, Access!Done, AccessProofs!Done, Access!NoRequest, AccessProofs!NoRequest
<1>4. Access!Me(t) <=> AccessProofs!Me(t)
  BY DEF Access!Me, AccessProofs!Me, Access!Waits, AccessProofs!Waits, Access!Accepted, AccessProofs!Accepted,
         Access!Request, AccessProofs!Request, Access!Done, AccessProofs!Done,
         Access!NoRequest, AccessProofs!NoRequest, Access!browser, AccessProofs!browser
<1>5. \A p, outcome : Access!Transfer(t, p, outcome) <=> AccessProofs!Transfer(t, p, outcome)
  BY DEF Access!Transfer, AccessProofs!Transfer, Access!Waits, AccessProofs!Waits,
         Access!Left, AccessProofs!Left, Access!Accepted, AccessProofs!Accepted
<1>6. Access!SignIn(t) <=> AccessProofs!SignIn(t)
  BY DEF Access!SignIn, AccessProofs!SignIn, Access!Waits, AccessProofs!Waits, Access!Left, AccessProofs!Left,
         Access!GuestAfter, AccessProofs!GuestAfter, Access!NoRequest, AccessProofs!NoRequest
<1>7. QED
  BY <1>1, <1>2, <1>3, <1>4, <1>5, <1>6 DEF Access!Login, AccessProofs!Login

LEMMA SameChanges == Access!Next <=> AccessProofs!Next
<1>1. \A a : Access!Register(a) <=> AccessProofs!Register(a)
  BY DEF Access!Register, AccessProofs!Register, Access!Set, AccessProofs!Set,
         Access!NewAccount, AccessProofs!NewAccount, Access!browser, AccessProofs!browser
<1>2. \A a : Access!Unlock(a) <=> AccessProofs!Unlock(a)
  BY DEF Access!Unlock, AccessProofs!Unlock, Access!Set, AccessProofs!Set, Access!browser, AccessProofs!browser
<1>3. \A a, active : Access!SetActive(a, active) <=> AccessProofs!SetActive(a, active)
  BY DEF Access!SetActive, AccessProofs!SetActive, Access!Set, AccessProofs!Set, Access!Ended, AccessProofs!Ended
<1>4. \A a, stored : Access!Forgot(a, stored) <=> AccessProofs!Forgot(a, stored)
  BY DEF Access!Forgot, AccessProofs!Forgot, Access!Set, AccessProofs!Set,
         Access!Cardinality, AccessProofs!Cardinality, Access!browser, AccessProofs!browser
<1>5. \A link : Access!Reset(link) <=> AccessProofs!Reset(link)
  BY DEF Access!Reset, AccessProofs!Reset, Access!Set, AccessProofs!Set, Access!Ended, AccessProofs!Ended,
         Access!WithPassword, AccessProofs!WithPassword
<1>6. Access!Expire <=> AccessProofs!Expire
  BY DEF Access!Expire, AccessProofs!Expire, Access!browser, AccessProofs!browser
<1>7. Access!Others <=> AccessProofs!Others
  BY <1>1, <1>2, <1>3, <1>4, <1>5, <1>6 DEF Access!Others, AccessProofs!Others
<1>8. QED  BY <1>7, SamePages, SameLogins DEF Access!Next, AccessProofs!Next

\* ... and the same properties.
LEMMA SameProperties ==
    /\ AccessProofs!TypeOK <=> Access!TypeOK
    /\ AccessProofs!SessionsEnd <=> Access!SessionsEnd
    /\ AccessProofs!GuestItems <=> Access!GuestItems
    /\ AccessProofs!SignedOutGone <=> Access!SignedOutGone
    /\ AccessProofs!BoundsAssumption <=> Access!BoundsAssumption
<1>1. AccessProofs!TypeOK <=> Access!TypeOK
  BY DEF Access!TypeOK, AccessProofs!TypeOK, Access!AccountRows, AccessProofs!AccountRows,
         Access!Links, AccessProofs!Links
<1>2. AccessProofs!SessionsEnd <=> Access!SessionsEnd
  BY DEF Access!SessionsEnd, AccessProofs!SessionsEnd, Access!Accepted, AccessProofs!Accepted
<1>3. AccessProofs!GuestItems <=> Access!GuestItems
  BY DEF Access!GuestItems, AccessProofs!GuestItems, Access!InCarts, AccessProofs!InCarts,
         Access!InBags, AccessProofs!InBags, Access!Cardinality, AccessProofs!Cardinality
<1>4. AccessProofs!SignedOutGone <=> Access!SignedOutGone
  BY PTL DEF Access!SignedOutGone, AccessProofs!SignedOutGone, Access!vars, AccessProofs!vars
<1>5. AccessProofs!BoundsAssumption <=> Access!BoundsAssumption
  BY DEF Access!BoundsAssumption, AccessProofs!BoundsAssumption, Access!AccountRows, AccessProofs!AccountRows,
         Access!Links, AccessProofs!Links
<1>6. QED  BY <1>1, <1>2, <1>3, <1>4, <1>5

LEMMA AccessSpec == CustomersSpec => AccessProofs!Spec
<1>1. CustomersInit => AccessProofs!Init
  BY DEF CustomersInit, Access!Init, AccessProofs!Init, Access!Loaded, AccessProofs!Loaded,
         Access!NoRequest, AccessProofs!NoRequest
<1>2. [Access!Next]_accessVars => [AccessProofs!Next]_(AccessProofs!vars)
  BY SameChanges DEF accessVars, AccessProofs!vars
<1>3. QED  BY <1>1, <1>2, PartsMove, PTL DEF CustomersSpec, AccessProofs!Spec

LEMMA ResourcesSpec == CustomersSpec => Spec
<1>1. CustomersInit => Init  BY DEF CustomersInit
<1>2. QED  BY <1>1, PartsMove, PTL DEF CustomersSpec, Spec

\* A customer's addresses and payment methods have exactly one default while any is active, the
\* requests under way are right about the rows, and no edit is lost (customer_api's resources),
\* whatever happens to the accounts.
THEOREM ResourcesOfCustomers == CustomersSpec => [](TypeOK /\ PlansHold /\ OneDefault) /\ ChangedAsSeen
<1>1. CustomersSpec => [](TypeOK /\ PlansHold /\ OneDefault)
  BY ResourcesSpec, TypeCorrect, DecisionsStayRight, AlwaysOneDefault, PTL
<1>2. QED  BY <1>1, ResourcesSpec, ChangesAsSeen

\* A sign-out, a new password and a new status end every session of before, in any tab, and a
\* reset link is for the password it was mailed for (authenticate_token, reset_password).
THEOREM SessionsAreOver == ASSUME Access!BoundsAssumption PROVE CustomersSpec => []SessionsEnd
<1>1. CustomersSpec => [](AccessProofs!TypeOK /\ AccessProofs!SessionsEnd)
  BY AccessSpec, SameProperties, AccessProofs!SessionsAreOver
<1>2. AccessProofs!TypeOK /\ AccessProofs!SessionsEnd => SessionsEnd  BY SameProperties DEF SessionsEnd
<1>3. QED  BY <1>1, <1>2, PTL

\* No product of a visitor's bag is lost at sign-in, and none is doubled unless an answer was
\* lost (transfer_guest_cart).
THEOREM BagsArriveWhole == ASSUME Access!BoundsAssumption PROVE CustomersSpec => []GuestItems
<1>1. CustomersSpec => []AccessProofs!GuestItems  BY AccessSpec, SameProperties, AccessProofs!BagsArriveWhole
<1>2. AccessProofs!GuestItems => GuestItems  BY SameProperties DEF GuestItems
<1>3. QED  BY <1>1, <1>2, PTL

\* A tab that is signed out leaves nothing in the store that brings its session back
\* (customer_sign_out, request_cookie_delete).
THEOREM NothingComesBack == ASSUME Access!BoundsAssumption PROVE CustomersSpec => SignedOutGone
BY AccessSpec, SameProperties, AccessProofs!NothingComesBack DEF SignedOutGone

=============================================================================
