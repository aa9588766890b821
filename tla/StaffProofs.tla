------------------------------ MODULE StaffProofs ------------------------------
(***************************************************************************)
(* The staff accounts, proved for any number of accounts, sessions, roles  *)
(* and failed sign-ins.  The row_version on an administrator's page ties   *)
(* a request to the account as it was shown, and the locks on the active   *)
(* administrators keep those that were counted until the request is over.  *)
(*                                                                         *)
(* At the end, with StaffRecordsProofs, what the staff does as a whole.    *)
(***************************************************************************)
EXTENDS Staff, FiniteSetTheorems, TLAPS

Account == [role : Roles, active : BOOLEAN, failed : Nat, lock : {"none", "until", "past"},
            token : Nat \ {0}, version : Nat \ {0}]

Token == [user : Users, version : Nat, role : Roles]

Shown == [user : Users, row : Account]

AdminOps == {"role", "status", "unlock"}

Request ==
    [op : {"idle", "login", "logout", "password"} \cup AdminOps,
     step : {"none", "success", "failure", "update", "read", "protect", "scan"},
     user : Users \cup {None}, read : Account \cup {None}, role : Roles \cup {None},
     active : BOOLEAN, scan : SUBSET Users, held : SUBSET Users]

Types ==
    /\ account \in [Users -> Account]
    /\ token \in [Sessions -> {None} \cup Token]
    /\ page \in [Sessions -> {None} \cup Shown]
    /\ txn \in [Sessions -> Request]
    /\ changes \in Nat

\* A row by itself: a lock goes with the failures that set it.
GoodRow(row) == row.lock # "none" <=> row.failed >= Attempts

\* A token is not newer than its account, and one that is current has its role.
GoodToken(t) ==
    /\ t.version <= account[t.user].token
    /\ t.version = account[t.user].token => t.role = account[t.user].role

\* Two rows that differ in nothing but the passing of a lock.
SameRow(a, b) == a.role = b.role /\ a.active = b.active /\ a.failed = b.failed /\ a.token = b.token

\* A page is not newer than its account, and one that is current shows it.
GoodPage(p) ==
    /\ p.row.version <= account[p.user].version
    /\ p.row.version = account[p.user].version => SameRow(p.row, account[p.user])

\* The request holds two active administrators.
HoldsTwo(t) == \E u, v \in t.held : u # v /\ {u, v} \subseteq ActiveAdmins

\* A request by itself: an administrator's is about the account on its page, has
\* read it as it is there, and holds two active administrators when it is about
\* to remove one.
GoodRequest(t, p) ==
    /\ t.op = "idle" => t.step = "none"
    /\ t.op # "idle" => t.user \in Users
    /\ t.op = "login" => t.step \in {"success", "failure"}
    /\ t.op \in {"logout", "password"} => t.step = "update"
    /\ t.step # "scan" => t.scan = {}
    /\ t.op \in AdminOps =>
         /\ t.step \in {"read", "protect", "scan", "update"}
         /\ t.role \in Roles
         /\ p # None /\ p \in Shown /\ t.user = p.user
         /\ t.step # "read" =>
              /\ t.read \in Account /\ t.read.version = p.row.version
              /\ t.read.role = p.row.role /\ t.read.active = p.row.active
         /\ t.step = "update" /\ Removes(t) => HoldsTwo(t)

IInv ==
    /\ Types
    /\ \A u \in Users : GoodRow(account[u])
    /\ \A s \in Sessions : token[s] # None => GoodToken(token[s])
    /\ \A s \in Sessions : page[s] # None => GoodPage(page[s])
    /\ \A s \in Sessions : GoodRequest(txn[s], page[s])
    /\ AdminRemains

-----------------------------------------------------------------------------
LEMMA Consequences == IInv => TypeOK /\ AdminRemains /\ TokensMatch
<1> SUFFICES ASSUME IInv PROVE TypeOK /\ TokensMatch  BY DEF IInv
<1>1. TypeOK
  BY DEF IInv, TypeOK, Types, Account, GoodRow, GoodToken
<1>2. TokensMatch
  BY DEF IInv, TokensMatch, Authenticated, GoodToken
<1>3. QED  BY <1>1, <1>2

LEMMA IdleIsGood == Idle \in Request /\ \A p : GoodRequest(Idle, p)
BY DEF Idle, Request, GoodRequest, AdminOps

LEMMA InitHolds == Init => IInv
<1> SUFFICES ASSUME Init PROVE IInv  OBVIOUS
<1>1. account \in [Users -> Account]
      /\ \A u \in Users : account[u].failed = 0 /\ account[u].lock = "none" /\ account[u].token = 1
  <2> DEFINE New == [role : Roles, active : {TRUE}, failed : {0}, lock : {"none"}, token : {1}, version : {1}]
  <2>1. account \in [Users -> New]  BY DEF Init
  <2>2. ASSUME NEW row \in New
        PROVE  row \in Account /\ row.failed = 0 /\ row.lock = "none" /\ row.token = 1
    <3>1. /\ row.role \in Roles /\ row.active \in BOOLEAN /\ row.failed = 0 /\ row.lock = "none"
          /\ row.token = 1 /\ row.version = 1
      BY <2>2
    <3>2. row = [role |-> row.role, active |-> row.active, failed |-> 0, lock |-> "none",
                 token |-> 1, version |-> 1]
      BY <2>2
    <3>3. QED  BY <3>1, <3>2 DEF Account
  <2>3. QED  BY <2>1, <2>2
<1>2. token \in [Sessions -> {None} \cup Token]
  BY <1>1 DEF Init, TokenFor, Token, Account
<1>3. ASSUME NEW s \in Sessions, token[s] # None PROVE GoodToken(token[s])
  BY <1>1, <1>3 DEF Init, TokenFor, GoodToken
<1>4. Types  BY <1>1, <1>2, IdleIsGood DEF Init, Types
<1>5. \A u \in Users : GoodRow(account[u])  BY <1>1, BoundsAssumption DEF GoodRow
<1>6. QED  BY <1>3, <1>4, <1>5, IdleIsGood DEF Init, IInv, AdminRemains

-----------------------------------------------------------------------------
\* A step that changes no account and, of the rest, one session's request only.
LEMMA RequestStep ==
    ASSUME IInv, NEW s \in Sessions, NEW t \in Request,
           UNCHANGED <<account, token, page, changes>>, txn' = [txn EXCEPT ![s] = t],
           GoodRequest(t, page[s])
    PROVE  IInv'
<1>1. Types'  BY DEF IInv, Types
<1>2. ActiveAdmins' = ActiveAdmins  BY DEF ActiveAdmins
<1>3. \A r \in Sessions : GoodRequest(txn'[r], page[r])  BY DEF IInv, Types
<1>4. \A r \in Sessions : GoodRequest(txn[r], page[r])'
  BY <1>2, <1>3 DEF GoodRequest, HoldsTwo
<1>5. QED
  BY <1>1, <1>2, <1>4 DEF IInv, AdminRemains, GoodToken, GoodPage, SameRow

LEMMA FailStep == ASSUME IInv, NEW s \in Sessions, Fail(s) PROVE IInv'
BY IdleIsGood, RequestStep DEF Fail

\* What a change of an account does to its row, for any number n that is added to
\* its token_version.
Moved(old, row, n) ==
    /\ row \in Account /\ GoodRow(row) /\ row.version = old.version
    /\ row.token = old.token + n /\ row.token >= old.token /\ (n = 1 => row.token # old.token)

LEMMA Unlocked ==
    ASSUME NEW old \in Account
    PROVE  LET row == [old EXCEPT !.failed = 0, !.lock = "none"] IN
           Moved(old, row, 0) /\ row.role = old.role /\ row.active = old.active
<1> DEFINE row == [old EXCEPT !.failed = 0, !.lock = "none"]
<1>1. row \in Account /\ row.failed = 0 /\ row.lock = "none"  BY DEF Account
<1>2. GoodRow(row)  BY <1>1, BoundsAssumption DEF GoodRow
<1>3. row.version = old.version /\ row.token = old.token /\ row.role = old.role /\ row.active = old.active
  BY DEF Account
<1>4. old.token \in Nat  BY DEF Account
<1> HIDE DEF row
<1>5. Moved(old, row, 0)  BY <1>1, <1>2, <1>3, <1>4 DEF Moved
<1>6. QED  BY <1>3, <1>5 DEF row

LEMMA SignedOut ==
    ASSUME NEW old \in Account, GoodRow(old)
    PROVE  LET row == [old EXCEPT !.token = @ + 1] IN
           Moved(old, row, 1) /\ row.role = old.role /\ row.active = old.active
<1> DEFINE row == [old EXCEPT !.token = @ + 1]
<1>1. old.token \in Nat \ {0} /\ old.token + 1 \in Nat \ {0}  BY DEF Account
<1>2. row \in Account /\ GoodRow(row)  BY <1>1 DEF Account, GoodRow
<1>3. row.version = old.version /\ row.token = old.token + 1 /\ row.role = old.role /\ row.active = old.active
  BY DEF Account
<1> HIDE DEF row
<1>4. Moved(old, row, 1)  BY <1>1, <1>2, <1>3 DEF Moved
<1>5. QED  BY <1>3, <1>4 DEF row

LEMMA NewPassword ==
    ASSUME NEW old \in Account
    PROVE  LET row == [old EXCEPT !.token = @ + 1, !.failed = 0, !.lock = "none"] IN
           Moved(old, row, 1) /\ row.role = old.role /\ row.active = old.active
<1> DEFINE row == [old EXCEPT !.token = @ + 1, !.failed = 0, !.lock = "none"]
<1>1. old.token \in Nat \ {0} /\ old.token + 1 \in Nat \ {0}  BY DEF Account
<1>2. row \in Account /\ row.failed = 0 /\ row.lock = "none"  BY <1>1 DEF Account
<1>3. GoodRow(row)  BY <1>2, BoundsAssumption DEF GoodRow
<1>4. row.version = old.version /\ row.token = old.token + 1 /\ row.role = old.role /\ row.active = old.active
  BY DEF Account
<1> HIDE DEF row
<1>5. Moved(old, row, 1)  BY <1>1, <1>2, <1>3, <1>4 DEF Moved
<1>6. QED  BY <1>4, <1>5 DEF row

LEMMA Reassigned ==
    ASSUME NEW old \in Account, GoodRow(old), NEW t \in Request, t.role \in Roles
    PROVE  LET row == [old EXCEPT !.role = t.role, !.active = t.active, !.token = @ + 1] IN
           Moved(old, row, 1) /\ row.role = t.role /\ row.active = t.active
<1> DEFINE row == [old EXCEPT !.role = t.role, !.active = t.active, !.token = @ + 1]
<1>1. old.token \in Nat \ {0} /\ old.token + 1 \in Nat \ {0} /\ t.active \in BOOLEAN
  BY DEF Account, Request
<1>2. row \in Account /\ GoodRow(row)  BY <1>1 DEF Account, GoodRow
<1>3. row.version = old.version /\ row.token = old.token + 1 /\ row.role = t.role /\ row.active = t.active
  BY DEF Account
<1> HIDE DEF row
<1>4. Moved(old, row, 1)  BY <1>1, <1>2, <1>3 DEF Moved
<1>5. QED  BY <1>3, <1>4 DEF row

\* The UPDATE of a row.  It takes no administrator that another request has
\* counted, and leaves one.
LEMMA ChangeStep ==
    ASSUME IInv, NEW s \in Sessions, NEW u \in Users, u = txn[s].user, NEW row, NEW n,
           Change(s, row), Moved(account[u], row, n),
           n = 1 \/ row.role = account[u].role,
           \/ IsAdmin(account[u]) => IsAdmin(row)
           \/ \E v \in ActiveAdmins : v # u,
           token' \in [Sessions -> {None} \cup Token],
           \A r \in Sessions : token'[r] # None =>
              \/ token'[r] = token[r]
              \/ token'[r] = [user |-> u, version |-> row.token, role |-> row.role]
    PROVE  IInv'
<1> DEFINE new == [row EXCEPT !.version = @ + 1]
<1>0. /\ row \in Account /\ GoodRow(row) /\ row.version = account[u].version
      /\ row.token >= account[u].token
      /\ row.token = account[u].token => row.role = account[u].role
  BY DEF Moved
<1>1. /\ new \in Account /\ new.version = account[u].version + 1
      /\ new.role = row.role /\ new.active = row.active /\ new.failed = row.failed
      /\ new.lock = row.lock /\ new.token = row.token
  BY <1>0 DEF Account
<1>2. /\ account' = [account EXCEPT ![u] = new] /\ changes' = changes + 1
      /\ txn' = [txn EXCEPT ![s] = Idle] /\ page' = page
      /\ \A r \in Sessions \ {s} : u \notin txn[r].held
  BY DEF Change, Free
<1> HIDE DEF new
<1>3. account \in [Users -> Account]  BY DEF IInv, Types
<1>4. account'[u] = new /\ \A v \in Users \ {u} : account'[v] = account[v]  BY <1>2, <1>3
<1>5. Types'  BY <1>1, <1>2, IdleIsGood DEF IInv, Types
<1>6. \A v \in Users : GoodRow(account'[v])
  BY <1>0, <1>1, <1>4 DEF IInv, GoodRow
<1>7. ASSUME NEW r \in Sessions, token'[r] # None PROVE GoodToken(token[r])'
  <2>1. CASE token'[r] = token[r]
    <3>1. GoodToken(token[r]) /\ token[r] \in Token  BY <1>7, <2>1 DEF IInv, Types
    <3>2. CASE token[r].user = u
      <4>1. token[r].version <= account[u].token /\ token[r].version \in Nat
            /\ account[u].token \in Nat /\ row.token \in Nat
        BY <1>0, <1>3, <3>1, <3>2 DEF GoodToken, Token, Account
      <4>2. QED  BY <1>0, <1>1, <1>4, <2>1, <3>1, <3>2, <4>1 DEF GoodToken
    <3>3. CASE token[r].user # u
      BY <1>4, <2>1, <3>1, <3>3 DEF GoodToken, Token
    <3>4. QED  BY <3>2, <3>3
  <2>2. CASE token'[r] = [user |-> u, version |-> row.token, role |-> row.role]
    BY <1>0, <1>1, <1>4, <2>2 DEF GoodToken, Account
  <2>3. QED  BY <1>7, <2>1, <2>2
<1>8. ASSUME NEW r \in Sessions, page[r] # None PROVE GoodPage(page[r])'
  <2>1. GoodPage(page[r]) /\ page[r] \in Shown  BY <1>8 DEF IInv, Types
  <2>2. CASE page[r].user = u
    <3>1. page[r].row.version <= account[u].version /\ page[r].row.version \in Nat
          /\ account[u].version \in Nat
      BY <1>3, <2>1, <2>2 DEF GoodPage, Shown, Account
    <3>2. QED  BY <1>0, <1>1, <1>2, <1>4, <2>2, <3>1 DEF GoodPage
  <2>3. CASE page[r].user # u
    BY <1>2, <1>4, <2>1, <2>3 DEF GoodPage, Shown
  <2>4. QED  BY <2>2, <2>3
<1>9. ASSUME NEW r \in Sessions PROVE GoodRequest(txn[r], page[r])'
  <2>1. CASE r = s
    <3>1. txn'[r] = Idle  BY <1>2, <2>1 DEF IInv, Types
    <3>2. QED  BY <3>1, IdleIsGood DEF GoodRequest, Idle, AdminOps
  <2>2. CASE r # s
    <3>1. txn'[r] = txn[r] /\ page'[r] = page[r] /\ GoodRequest(txn[r], page[r])
      BY <1>2, <2>2 DEF IInv, Types
    <3>2. HoldsTwo(txn[r]) => HoldsTwo(txn[r])'
      <4>1. txn[r].held \subseteq Users /\ u \notin txn[r].held
        BY <1>2, <2>2 DEF IInv, Types, Request
      <4>2. \A v \in Users \ {u} : v \in ActiveAdmins <=> v \in ActiveAdmins'
        BY <1>4 DEF ActiveAdmins
      <4>3. QED  BY <3>1, <4>1, <4>2 DEF HoldsTwo
    <3>3. QED  BY <3>1, <3>2 DEF GoodRequest, Removes
  <2>3. QED  BY <2>1, <2>2
<1>10. AdminRemains'
  <2>1. \A v \in ActiveAdmins : v # u => v \in ActiveAdmins'
    BY <1>4 DEF ActiveAdmins
  <2>2. (IsAdmin(account[u]) => IsAdmin(row)) /\ u \in ActiveAdmins => u \in ActiveAdmins'
    BY <1>1, <1>4 DEF ActiveAdmins, IsAdmin
  <2>3. QED  BY <2>1, <2>2 DEF IInv, AdminRemains
<1>11. QED  BY <1>2, <1>5, <1>6, <1>7, <1>8, <1>9, <1>10 DEF IInv

\* The UPDATE of a session's own account.
LEMMA OwnStep ==
    ASSUME IInv, NEW s \in Sessions,
           LoginFailure(s) \/ LoginSuccess(s) \/ Logout(s) \/ ChangePassword(s)
    PROVE  IInv'
<1>0. /\ txn[s] \in Request /\ GoodRequest(txn[s], page[s])
      /\ account \in [Users -> Account] /\ token \in [Sessions -> {None} \cup Token]
  BY DEF IInv, Types
<1>1. PICK u \in Users : u = txn[s].user
  BY <1>0 DEF GoodRequest, LoginFailure, LoginSuccess, Logout, ChangePassword, At
<1>2. account[u] \in Account /\ GoodRow(account[u])  BY <1>0 DEF IInv
<1>3. CASE LoginFailure(s)
  <2> DEFINE next == (IF account[u].lock = "past" THEN 0 ELSE account[u].failed) + 1
             row == [account[u] EXCEPT !.failed = next,
                                       !.lock = IF next >= Attempts THEN "until" ELSE "none"]
  <2>1. Change(s, row) /\ UNCHANGED token  BY <1>1, <1>3 DEF LoginFailure
  <2>2. next \in Nat  BY <1>2 DEF Account
  <2> HIDE DEF next
  <2>3. /\ row \in Account /\ GoodRow(row) /\ row.version = account[u].version
        /\ row.token = account[u].token /\ row.role = account[u].role /\ row.active = account[u].active
    BY <1>2, <2>2 DEF Account, GoodRow
  <2> HIDE DEF row
  <2>4. Moved(account[u], row, 0)  BY <1>2, <2>3 DEF Account, Moved
  <2>5. QED  BY <1>0, <1>1, <2>1, <2>3, <2>4, ChangeStep DEF IsAdmin
<1>4. CASE LoginSuccess(s)
  <2>1. CASE account[u].active
    <3> DEFINE row == [account[u] EXCEPT !.failed = 0, !.lock = "none"]
    <3>1. Change(s, row) /\ token' = [token EXCEPT ![s] = TokenFor(u)]
      BY <1>1, <1>4, <2>1 DEF LoginSuccess
    <3>2. Moved(account[u], row, 0) /\ row.role = account[u].role /\ row.active = account[u].active
      BY <1>2, Unlocked
    <3> HIDE DEF row
    <3>3. TokenFor(u) = [user |-> u, version |-> row.token, role |-> row.role] /\ TokenFor(u) \in Token
      BY <1>2, <3>2 DEF TokenFor, Token, Account, Moved
    <3>4. /\ token' \in [Sessions -> {None} \cup Token]
          /\ \A r \in Sessions : token'[r] = token[r] \/ token'[r] = TokenFor(u)
      BY <1>0, <3>1, <3>3
    <3>5. IsAdmin(account[u]) => IsAdmin(row)  BY <3>2 DEF IsAdmin
    <3>6. QED  BY <1>1, <3>1, <3>2, <3>3, <3>4, <3>5, ChangeStep
  <2>2. CASE ~account[u].active
    BY <1>1, <1>4, <2>2, FailStep DEF LoginSuccess
  <2>3. QED  BY <2>1, <2>2
<1>5. CASE Logout(s)
  <2> DEFINE row == [account[u] EXCEPT !.token = @ + 1]
  <2>1. Change(s, row) /\ token' = [token EXCEPT ![s] = None]
    BY <1>1, <1>5 DEF Logout
  <2>2. Moved(account[u], row, 1) /\ row.role = account[u].role /\ row.active = account[u].active
    BY <1>2, SignedOut
  <2> HIDE DEF row
  <2>3. QED  BY <1>0, <1>1, <2>1, <2>2, ChangeStep DEF IsAdmin
<1>6. CASE ChangePassword(s)
  <2> DEFINE row == [account[u] EXCEPT !.token = @ + 1, !.failed = 0, !.lock = "none"]
  <2>1. Change(s, row) /\ UNCHANGED token  BY <1>1, <1>6 DEF ChangePassword
  <2>2. Moved(account[u], row, 1) /\ row.role = account[u].role /\ row.active = account[u].active
    BY <1>2, NewPassword
  <2> HIDE DEF row
  <2>3. QED  BY <1>0, <1>1, <2>1, <2>2, ChangeStep DEF IsAdmin
<1>7. QED  BY <1>3, <1>4, <1>5, <1>6

-----------------------------------------------------------------------------
\* What a request of an administrator knows.
LEMMA AdminRequest ==
    ASSUME IInv, NEW s \in Sessions, txn[s].op \in AdminOps
    PROVE  /\ txn[s] \in Request /\ GoodRequest(txn[s], page[s])
           /\ txn[s].user \in Users /\ account[txn[s].user] \in Account
           /\ page[s] # None /\ page[s] \in Shown /\ GoodPage(page[s])
BY DEF IInv, Types, GoodRequest, AdminOps

\* The UPDATE of the account on the page.  Whoever removes an active
\* administrator holds another one.
LEMMA AdminStep == ASSUME IInv, NEW s \in Sessions, AdminChange(s) PROVE IInv'
<1> DEFINE t == txn[s]
<1>0. t.op \in AdminOps /\ t.step = "update"  BY DEF AdminChange, AdminOps
<1>1. /\ t \in Request /\ GoodRequest(t, page[s])
      /\ page[s] # None /\ page[s] \in Shown /\ GoodPage(page[s])
  BY <1>0, AdminRequest
<1>2. PICK u \in Users : u = t.user /\ u = page[s].user /\ account[u] \in Account /\ GoodRow(account[u])
  BY <1>0, AdminRequest DEF IInv, GoodRequest
<1>3. CASE account[u].version # t.read.version
  BY <1>2, <1>3, FailStep DEF AdminChange
<1>4. CASE account[u].version = t.read.version
  <2>1. token \in [Sessions -> {None} \cup Token] /\ t.role \in Roles /\ t.active \in BOOLEAN
    BY <1>0, <1>1 DEF IInv, Types, GoodRequest, Request
  <2>2. t.read.role = account[u].role /\ t.read.active = account[u].active
    BY <1>0, <1>1, <1>2, <1>4 DEF GoodRequest, GoodPage, SameRow
  <2>3. CASE t.op = "unlock"
    <3> DEFINE row == [account[u] EXCEPT !.failed = 0, !.lock = "none"]
    <3>1. Change(s, row) /\ UNCHANGED token  BY <1>2, <1>4, <2>3 DEF AdminChange
    <3>2. Moved(account[u], row, 0) /\ row.role = account[u].role /\ row.active = account[u].active
      BY <1>2, Unlocked
    <3> HIDE DEF row
    <3>3. QED  BY <1>2, <2>1, <3>1, <3>2, ChangeStep DEF IsAdmin
  <2>4. CASE t.op # "unlock"
    <3> DEFINE row == [account[u] EXCEPT !.role = t.role, !.active = t.active, !.token = @ + 1]
    <3>1. Change(s, row) /\ UNCHANGED token  BY <1>2, <1>4, <2>4 DEF AdminChange
    <3>2. Moved(account[u], row, 1) /\ row.role = t.role /\ row.active = t.active
      BY <1>1, <1>2, <2>1, Reassigned
    <3> HIDE DEF row
    <3>3. (IsAdmin(account[u]) => IsAdmin(row)) \/ \E v \in ActiveAdmins : v # u
      <4>1. CASE Removes(t)
        <5>1. HoldsTwo(t)  BY <1>0, <1>1, <4>1 DEF GoodRequest
        <5>2. QED  BY <5>1 DEF HoldsTwo
      <4>2. CASE ~Removes(t)
        BY <2>2, <3>2, <4>2 DEF Removes, IsAdmin
      <4>3. QED  BY <4>1, <4>2
    <3>4. QED  BY <1>2, <2>1, <3>1, <3>2, <3>3, ChangeStep
  <2>5. QED  BY <2>3, <2>4
<1>5. QED  BY <1>3, <1>4

\* The statements before the UPDATE.
LEMMA GuardStep ==
    ASSUME IInv, NEW s \in Sessions,
           RequireVersion(s) \/ Protect(s) \/ (\E u \in Users : LockAdmin(s, u)) \/ ProtectLast(s)
    PROVE  IInv'
<1> DEFINE t == txn[s]
<1>0. t \in Request /\ GoodRequest(t, page[s])  BY DEF IInv, Types
<1>1. t.op \in AdminOps
  BY <1>0 DEF GoodRequest, Request, RequireVersion, Protect, LockAdmin, ProtectLast
<1>2. /\ t.user \in Users /\ account[t.user] \in Account
      /\ page[s] # None /\ page[s] \in Shown /\ GoodPage(page[s])
  BY <1>1, AdminRequest
<1>3. CASE RequireVersion(s)
  <2> DEFINE read == [t EXCEPT !.read = account[t.user]]
             next == [read EXCEPT !.step = IF Removes(read) THEN "protect" ELSE "update"]
  <2>1. CASE account[t.user].version # page[s].row.version
    BY <1>3, <2>1, FailStep DEF RequireVersion
  <2>2. CASE account[t.user].version = page[s].row.version
    <3>1. UNCHANGED <<account, token, page, changes>> /\ txn' = [txn EXCEPT ![s] = next]
      BY <1>0, <1>3, <2>2 DEF RequireVersion, Request
    <3>2. next \in Request  BY <1>0, <1>2 DEF Request
    <3>3. /\ next.op = t.op /\ next.user = t.user /\ next.scan = t.scan /\ next.role = t.role
          /\ next.read = account[t.user]
          /\ next.step \in {"protect", "update"} /\ (next.step = "update" => ~Removes(next))
      BY <1>0 DEF Request, Removes
    <3>4. GoodRequest(next, page[s])
      BY <1>0, <1>1, <1>2, <1>3, <2>2, <3>3 DEF GoodRequest, GoodPage, SameRow, AdminOps, RequireVersion
    <3> HIDE DEF next
    <3>5. QED  BY <3>1, <3>2, <3>4, RequestStep
  <2>3. QED  BY <2>1, <2>2
<1>4. CASE Protect(s)
  <2> DEFINE next == [t EXCEPT !.step = "scan", !.scan = ActiveAdmins]
  <2>1. UNCHANGED <<account, token, page, changes>> /\ txn' = [txn EXCEPT ![s] = next]
    BY <1>0, <1>4 DEF Protect, Request
  <2>2. next \in Request  BY <1>0 DEF Request, ActiveAdmins
  <2>3. GoodRequest(next, page[s])
    BY <1>0, <1>1, <1>4 DEF GoodRequest, AdminOps, Protect, Request
  <2>4. QED  BY <2>1, <2>2, <2>3, RequestStep
<1>5. ASSUME NEW u \in Users, LockAdmin(s, u) PROVE IInv'
  <2> DEFINE next == [t EXCEPT !.scan = @ \ {u}, !.held = @ \cup {u}]
  <2>1. UNCHANGED <<account, token, page, changes>> /\ txn' = [txn EXCEPT ![s] = next] /\ u \in t.scan
    BY <1>0, <1>5 DEF LockAdmin, Request
  <2>2. next \in Request  BY <1>0 DEF Request
  <2>3. t.step = "scan"  BY <1>0, <2>1 DEF GoodRequest
  <2>4. GoodRequest(next, page[s])
    BY <1>0, <1>1, <2>3 DEF GoodRequest, AdminOps, Request
  <2>5. QED  BY <2>1, <2>2, <2>4, RequestStep
<1>6. CASE ProtectLast(s)
  <2> DEFINE next == [t EXCEPT !.step = "update"]
  <2>1. CASE Cardinality(t.held \cap ActiveAdmins) <= 1
    BY <1>6, <2>1, FailStep DEF ProtectLast
  <2>2. CASE ~(Cardinality(t.held \cap ActiveAdmins) <= 1)
    <3>1. UNCHANGED <<account, token, page, changes>> /\ txn' = [txn EXCEPT ![s] = next]
      BY <1>0, <1>6, <2>2 DEF ProtectLast, Goto, Request
    <3>2. next \in Request  BY <1>0 DEF Request
    <3>3. HoldsTwo(t)
      <4> DEFINE S == t.held \cap ActiveAdmins
      <4>1. IsFiniteSet(S)  BY <1>0, BoundsAssumption, FS_Subset DEF Request
      <4>2. S # {}  BY <2>2, <4>1, FS_EmptySet
      <4>3. PICK x \in S : TRUE  BY <4>2
      <4>4. Cardinality({x}) = 1  BY FS_Singleton
      <4>5. S # {x}  BY <2>2, <4>4
      <4>6. PICK y \in S : y # x  BY <4>3, <4>5
      <4>7. QED  BY <4>3, <4>6 DEF HoldsTwo
    <3>4. GoodRequest(next, page[s])
      BY <1>0, <1>1, <1>6, <3>3 DEF GoodRequest, AdminOps, Request, ProtectLast, HoldsTwo
    <3>5. QED  BY <3>1, <3>2, <3>4, RequestStep
  <2>3. QED  BY <2>1, <2>2
<1>7. QED  BY <1>3, <1>4, <1>5, <1>6

-----------------------------------------------------------------------------
\* GET /admin/users shows the account as it is.
LEMMA LookStep == ASSUME IInv, NEW s \in Sessions, NEW u \in Users, Look(s, u) PROVE IInv'
<1> DEFINE p == [user |-> u, row |-> account[u]]
<1>1. /\ UNCHANGED <<account, token, txn, changes>> /\ page' = [page EXCEPT ![s] = p]
      /\ txn[s] = Idle
  BY DEF Look
<1>2. p \in Shown /\ account[u].version \in Nat  BY DEF IInv, Types, Shown, Account
<1>3. Types'  BY <1>1, <1>2 DEF IInv, Types
<1>4. GoodPage(p)  BY <1>2 DEF GoodPage, SameRow
<1> HIDE DEF p
<1>5. \A r \in Sessions : page'[r] = IF r = s THEN p ELSE page[r]  BY <1>1 DEF IInv, Types
<1>6. \A r \in Sessions : page'[r] # None => GoodPage(page'[r])  BY <1>4, <1>5 DEF IInv
<1>7. \A r \in Sessions : GoodRequest(txn[r], page'[r])  BY <1>1, <1>5, IdleIsGood DEF IInv
<1>8. ActiveAdmins' = ActiveAdmins  BY <1>1 DEF ActiveAdmins
<1>9. \A r \in Sessions : (page[r] # None => GoodPage(page[r]))' /\ GoodRequest(txn[r], page[r])'
  BY <1>1, <1>6, <1>7, <1>8 DEF GoodPage, SameRow, GoodRequest, HoldsTwo
<1>10. QED  BY <1>1, <1>3, <1>8, <1>9 DEF IInv, AdminRemains, GoodToken

\* A request begins with nothing read and nothing held.
LEMMA SubmitStep == ASSUME IInv, NEW s \in Sessions, Submit(s) PROVE IInv'
<1>1. ASSUME NEW u \in Users, NEW correct \in BOOLEAN, BeginLogin(s, u, correct) PROVE IInv'
  <2> DEFINE t == [Idle EXCEPT !.op = "login", !.user = u, !.read = account[u],
                               !.step = IF correct THEN "success" ELSE "failure"]
  <2>1. account[u] \in Account  BY DEF IInv, Types
  <2>2. t \in Request /\ GoodRequest(t, page[s])  BY <2>1 DEF Idle, Request, GoodRequest, AdminOps
  <2>3. QED  BY <1>1, <2>2, RequestStep DEF BeginLogin, Begin
<1>2. ASSUME NEW op \in {"logout", "password"}, BeginOwn(s, op) PROVE IInv'
  <2> DEFINE t == [Idle EXCEPT !.op = op, !.step = "update", !.user = token[s].user]
  <2>1. token[s].user \in Users  BY <1>2 DEF IInv, Types, BeginOwn, Authenticated, Token
  <2>2. t \in Request /\ GoodRequest(t, page[s])  BY <2>1 DEF Idle, Request, GoodRequest, AdminOps
  <2>3. QED  BY <1>2, <2>2, RequestStep DEF BeginOwn, Begin
<1>3. ASSUME NEW op \in AdminOps, NEW role \in Roles, NEW active \in BOOLEAN, BeginAdmin(s, op, role, active)
      PROVE  IInv'
  <2> DEFINE t == [Idle EXCEPT !.op = op, !.step = "read", !.user = page[s].user, !.role = role, !.active = active]
  <2>1. page[s] # None /\ page[s] \in Shown  BY <1>3 DEF IInv, Types, BeginAdmin
  <2>2. page[s].user \in Users  BY <2>1 DEF Shown
  <2>3. t \in Request  BY <2>2 DEF Idle, Request, AdminOps
  <2>4. GoodRequest(t, page[s])  BY <2>1, <2>2 DEF Idle, GoodRequest, AdminOps
  <2>5. QED  BY <1>3, <2>3, <2>4, RequestStep DEF BeginAdmin, Begin
<1>4. QED  BY <1>1, <1>2, <1>3, LookStep DEF Submit, AdminOps

\* The passing of a lock is no change of what anybody has read.
LEMMA ExpireStep == ASSUME IInv, NEW u \in Users, Expire(u) PROVE IInv'
<1>1. /\ account \in [Users -> Account] /\ account[u].lock = "until"
      /\ account' = [account EXCEPT ![u].lock = "past"] /\ UNCHANGED <<token, page, txn, changes>>
  BY DEF Expire, IInv, Types
<1>2. \A v \in Users :
        /\ account'[v] \in Account /\ SameRow(account'[v], account[v])
        /\ account'[v].version = account[v].version
        /\ account'[v].lock = "none" <=> account[v].lock = "none"
  BY <1>1 DEF Account, SameRow
<1>3. Types'
  <2>1. account' \in [Users -> Account]  BY <1>1, <1>2
  <2>2. QED  BY <1>1, <2>1 DEF IInv, Types
<1>4. ActiveAdmins' = ActiveAdmins  BY <1>2 DEF ActiveAdmins, IsAdmin, SameRow
<1>5. \A v \in Users : GoodRow(account[v])'  BY <1>2 DEF IInv, GoodRow, SameRow
<1>6. \A r \in Sessions : (token[r] # None => GoodToken(token[r]))'
  BY <1>1, <1>2 DEF IInv, Types, GoodToken, SameRow, Token
<1>7. \A r \in Sessions : (page[r] # None => GoodPage(page[r]))'
  BY <1>1, <1>2 DEF IInv, Types, GoodPage, SameRow, Shown
<1>8. \A r \in Sessions : GoodRequest(txn[r], page[r])'
  BY <1>1, <1>4 DEF IInv, GoodRequest, HoldsTwo
<1>9. QED  BY <1>3, <1>4, <1>5, <1>6, <1>7, <1>8 DEF IInv, AdminRemains

LEMMA NextPreserves == IInv /\ [Next]_vars => IInv'
<1> SUFFICES ASSUME IInv, [Next]_vars PROVE IInv'  OBVIOUS
<1>1. ASSUME NEW s \in Sessions, Serve(s) PROVE IInv'
  BY <1>1, OwnStep, GuardStep, AdminStep, FailStep DEF Serve, Abort
<1>2. CASE UNCHANGED vars
  <2>1. ActiveAdmins' = ActiveAdmins  BY <1>2 DEF vars, ActiveAdmins
  <2>2. \A r \in Sessions : GoodRequest(txn[r], page[r])'
    BY <1>2, <2>1 DEF vars, IInv, GoodRequest, HoldsTwo
  <2>3. QED  BY <1>2, <2>1, <2>2 DEF vars, IInv, Types, AdminRemains, GoodToken, GoodPage, SameRow
<1>3. QED  BY <1>1, <1>2, SubmitStep, ExpireStep DEF Next

LEMMA Inductive == Spec => []IInv
BY InitHolds, NextPreserves, PTL DEF Spec

\* The columns keep their domains, a lock goes with the failures that set it, and
\* no token is newer than its account (app_users, record_failed_login).
THEOREM TypeCorrect == Spec => []TypeOK
BY Inductive, Consequences, PTL

\* There is an active administrator after any number of demotions and
\* deactivations at once: whoever removes one has counted two and holds both
\* (count_active_admins_locked, _protect_last_active_admin).
THEOREM AlwaysAnAdmin == Spec => []AdminRemains
BY Inductive, Consequences, PTL

\* A token that is accepted was issued for the role its account has
\* (authenticate_token, update_role).
THEOREM RolesOfTokens == Spec => []TokensMatch
BY Inductive, Consequences, PTL

-----------------------------------------------------------------------------
(* What a step may never do.                                                *)

\* A request is moved by its own session only.
LEMMA OwnRequest ==
    ASSUME IInv, Next, NEW s \in Sessions, txn'[s] # txn[s]
    PROVE  Submit(s) \/ Serve(s)
<1>1. ASSUME NEW r \in Sessions, Submit(r) \/ Serve(r), r # s PROVE txn'[s] = txn[s]
  BY <1>1 DEF IInv, Types, Submit, Serve, BeginLogin, BeginOwn, BeginAdmin, Begin, Look, LoginFailure, LoginSuccess,
              Logout, ChangePassword, RequireVersion, Protect, LockAdmin, ProtectLast, Goto, AdminChange, Abort,
              Change, Fail
<1>2. ASSUME NEW u \in Users, Expire(u) PROVE txn'[s] = txn[s]
  BY <1>2 DEF Expire
<1>3. QED  BY <1>1, <1>2 DEF Next

\* A request that waits for no row is in no circle.
LEMMA NoWaitNoCircle ==
    ASSUME NEW s \in Sessions, Wants(txn[s]) = {}
    PROVE  ~InDeadlock(s)
<1>1. WaitsFor(s) = {}  BY DEF WaitsFor
<1>2. QED  BY <1>1 DEF InDeadlock

LEMMA FailureStep ==
    ASSUME IInv, [Next]_vars, NEW s \in Sessions, At(s, "login", "failure"), txn'[s] = Idle
    PROVE  LET u == txn[s].user IN
           account[u].lock = "past" \/ account'[u].failed = account[u].failed + 1
<1>0. txn[s] \in Request /\ GoodRequest(txn[s], page[s]) /\ account \in [Users -> Account]
  BY DEF IInv, Types
<1>1. txn[s].op = "login" /\ txn[s].step = "failure" /\ txn[s].scan = {} /\ txn[s].user \in Users
  BY <1>0 DEF At, GoodRequest
<1>2. txn[s] # Idle  BY <1>1 DEF Idle
<1>3. Submit(s) \/ Serve(s)
  BY <1>2, OwnRequest DEF vars
<1>4. ~Submit(s)
  BY <1>2 DEF Submit, BeginLogin, BeginOwn, BeginAdmin, Begin, Look
<1>5. ~Abort(s)
  <2>1. Wants(txn[s]) = {}  BY <1>1 DEF Wants
  <2>2. QED  BY <2>1, NoWaitNoCircle DEF Abort
<1>6. LoginFailure(s)
  BY <1>1, <1>3, <1>4, <1>5 DEF Serve, LoginSuccess, Logout, ChangePassword, At, RequireVersion, Protect, LockAdmin,
                                ProtectLast, AdminChange
<1>7. PICK u \in Users : u = txn[s].user  BY <1>1
<1>8. ASSUME account[u].lock # "past" PROVE account'[u].failed = account[u].failed + 1
  <2> DEFINE next == account[u].failed + 1
             row == [account[u] EXCEPT !.failed = next,
                                       !.lock = IF next >= Attempts THEN "until" ELSE "none"]
  <2>1. account' = [account EXCEPT ![u] = [row EXCEPT !.version = @ + 1]]
    BY <1>6, <1>7, <1>8 DEF LoginFailure, Change
  <2>2. account[u] \in Account  BY <1>0
  <2>3. row.failed = next /\ [row EXCEPT !.version = @ + 1].failed = row.failed  BY <2>2 DEF Account
  <2>4. QED  BY <1>0, <2>1, <2>3
<1>9. QED  BY <1>7, <1>8

\* No failed sign-in is lost: the count goes by the row as it is under its lock,
\* not as it was when the password was compared (record_failed_login).
THEOREM EveryFailureCounts == Spec => FailuresCounted
<1>1. IInv /\ [Next]_vars =>
        [\A s \in Sessions :
           /\ At(s, "login", "failure") /\ txn'[s] = Idle
           => LET u == txn[s].user IN
              account[u].lock = "past" \/ account'[u].failed = account[u].failed + 1]_vars
  BY FailureStep
<1>2. QED  BY <1>1, Inductive, PTL DEF Spec, FailuresCounted

LEMMA DecisionStep ==
    ASSUME IInv, [Next]_vars, NEW s \in Sessions,
           txn[s].op \in AdminOps, txn'[s] = Idle, changes' > changes
    PROVE  LET row == account[txn[s].user] IN
           [row EXCEPT !.lock = "none"] = [page[s].row EXCEPT !.lock = "none"]
<1>0. changes \in Nat  BY DEF IInv, Types
<1>1. /\ txn[s] \in Request /\ GoodRequest(txn[s], page[s])
      /\ txn[s].user \in Users /\ account[txn[s].user] \in Account
      /\ page[s] # None /\ page[s] \in Shown /\ GoodPage(page[s])
  BY AdminRequest
<1>2. txn[s] # Idle  BY DEF Idle, AdminOps
<1>3. Submit(s) \/ Serve(s)
  BY <1>2, OwnRequest DEF vars
<1>4. ~Submit(s)
  BY <1>2 DEF Submit, BeginLogin, BeginOwn, BeginAdmin, Begin, Look
<1>5. changes' # changes  BY <1>0
<1>6. AdminChange(s) /\ account[txn[s].user].version = txn[s].read.version /\ txn[s].step = "update"
  BY <1>3, <1>4, <1>5 DEF Serve, LoginFailure, LoginSuccess, Logout, ChangePassword, At, RequireVersion, Protect, LockAdmin,
                          ProtectLast, Goto, AdminChange, Abort, Fail, AdminOps
<1>7. /\ page[s].user = txn[s].user /\ page[s].row \in Account
      /\ page[s].row.version = account[txn[s].user].version
      /\ SameRow(page[s].row, account[txn[s].user])
  BY <1>1, <1>6 DEF GoodRequest, GoodPage, Shown
<1>8. ASSUME NEW a \in Account, NEW b \in Account, a.version = b.version, SameRow(a, b)
      PROVE  [b EXCEPT !.lock = "none"] = [a EXCEPT !.lock = "none"]
  BY <1>8 DEF Account, SameRow
<1>9. QED  BY <1>1, <1>7, <1>8

\* An administrator's decision is about the account as the page showed it, even if
\* the request had to wait for the row (update_role, update_active, unlock).
THEOREM DecisionsOnSeen == Spec => DecidedOnSeen
<1>1. IInv /\ [Next]_vars =>
        [\A s \in Sessions :
           /\ txn[s].op \in {"role", "status", "unlock"} /\ txn'[s] = Idle /\ changes' > changes
           => LET row == account[txn[s].user] IN
              [row EXCEPT !.lock = "none"] = [page[s].row EXCEPT !.lock = "none"]]_vars
  BY DecisionStep DEF AdminOps
<1>2. QED  BY <1>1, Inductive, PTL DEF Spec, DecidedOnSeen

-----------------------------------------------------------------------------
(* Accounts and records together.                                           *)

RecordsProofs == INSTANCE StaffRecordsProofs

\* A step of the whole is a step of each part, or leaves it alone.
LEMMA PartsMove ==
    [StaffNext]_<<part, vars, recordVars>> => [Next]_vars /\ [Records!Next]_recordVars
BY DEF StaffNext, vars, recordVars

\* The two instances of StaffRecords have the same requests ...
LEMMA SameRequests == Records!Next <=> RecordsProofs!Next
<1>1. \A s : Records!Submit(s) <=> RecordsProofs!Submit(s)
  BY DEF Records!Submit, RecordsProofs!Submit, Records!BeginCreate, RecordsProofs!BeginCreate,
         Records!BeginUpdate, RecordsProofs!BeginUpdate, Records!BeginDelete, RecordsProofs!BeginDelete,
         Records!Idle, RecordsProofs!Idle, Records!There, RecordsProofs!There, Records!Ids, RecordsProofs!Ids
<1>2. \A s : Records!EnsureMutableVersion(s) <=> RecordsProofs!EnsureMutableVersion(s)
  BY DEF Records!EnsureMutableVersion, RecordsProofs!EnsureMutableVersion, Records!At, RecordsProofs!At,
         Records!StaffRow, RecordsProofs!StaffRow, Records!Goto, RecordsProofs!Goto,
         Records!There, RecordsProofs!There, Records!Ids, RecordsProofs!Ids, Records!Fail, RecordsProofs!Fail,
         Records!Idle, RecordsProofs!Idle
<1>3. \A s : Records!Validate(s) <=> RecordsProofs!Validate(s)
  BY DEF Records!Validate, RecordsProofs!Validate, Records!FreeForUpdate, RecordsProofs!FreeForUpdate,
         Records!Valid, RecordsProofs!Valid, Records!Is, RecordsProofs!Is,
         Records!StaffRow, RecordsProofs!StaffRow, Records!Refunded, RecordsProofs!Refunded,
         Records!RefundsOf, RecordsProofs!RefundsOf, Records!Sum, RecordsProofs!Sum,
         Records!CentsOf, RecordsProofs!CentsOf, Records!Goto, RecordsProofs!Goto,
         Records!There, RecordsProofs!There, Records!Ids, RecordsProofs!Ids, Records!Fail, RecordsProofs!Fail,
         Records!Idle, RecordsProofs!Idle, Records!Strong, RecordsProofs!Strong,
         Records!NoKey, RecordsProofs!NoKey, Records!KeyShare, RecordsProofs!KeyShare,
         Records!Written, RecordsProofs!Written, Records!At, RecordsProofs!At,
         Records!KeyChanges, RecordsProofs!KeyChanges, Records!NewRefs, RecordsProofs!NewRefs,
         Records!Refs, RecordsProofs!Refs, Records!Others, RecordsProofs!Others
<1>4. \A s : Records!Insert(s) <=> RecordsProofs!Insert(s)
  BY DEF Records!Insert, RecordsProofs!Insert, Records!FreeForShare, RecordsProofs!FreeForShare,
         Records!Unused, RecordsProofs!Unused, Records!Min, RecordsProofs!Min,
         Records!SameVisit, RecordsProofs!SameVisit, Records!VisitFree, RecordsProofs!VisitFree,
         Records!Is, RecordsProofs!Is, Records!KeysExist, RecordsProofs!KeysExist,
         Records!Write, RecordsProofs!Write, Records!There, RecordsProofs!There, Records!Ids, RecordsProofs!Ids,
         Records!Fail, RecordsProofs!Fail, Records!Idle, RecordsProofs!Idle,
         Records!Strong, RecordsProofs!Strong, Records!NoKey, RecordsProofs!NoKey,
         Records!KeyShare, RecordsProofs!KeyShare, Records!Written, RecordsProofs!Written,
         Records!At, RecordsProofs!At, Records!KeyChanges, RecordsProofs!KeyChanges,
         Records!NewRefs, RecordsProofs!NewRefs, Records!Refs, RecordsProofs!Refs,
         Records!Others, RecordsProofs!Others
<1>5. \A s : Records!Update(s) <=> RecordsProofs!Update(s)
  BY DEF Records!Update, RecordsProofs!Update, Records!FreeForShare, RecordsProofs!FreeForShare,
         Records!FreeForUpdate, RecordsProofs!FreeForUpdate, Records!FreeForNoKey, RecordsProofs!FreeForNoKey,
         Records!SameVisit, RecordsProofs!SameVisit, Records!VisitFree, RecordsProofs!VisitFree,
         Records!Is, RecordsProofs!Is, Records!StaffRow, RecordsProofs!StaffRow,
         Records!KeysExist, RecordsProofs!KeysExist, Records!Write, RecordsProofs!Write,
         Records!With, RecordsProofs!With, Records!There, RecordsProofs!There, Records!Ids, RecordsProofs!Ids,
         Records!Fail, RecordsProofs!Fail, Records!Idle, RecordsProofs!Idle,
         Records!Strong, RecordsProofs!Strong, Records!NoKey, RecordsProofs!NoKey,
         Records!KeyShare, RecordsProofs!KeyShare, Records!Written, RecordsProofs!Written,
         Records!At, RecordsProofs!At, Records!KeyChanges, RecordsProofs!KeyChanges,
         Records!NewRefs, RecordsProofs!NewRefs, Records!Refs, RecordsProofs!Refs,
         Records!Others, RecordsProofs!Others
<1>6. \A s : Records!Delete(s) <=> RecordsProofs!Delete(s)
  BY DEF Records!Delete, RecordsProofs!Delete, Records!FreeForShare, RecordsProofs!FreeForShare,
         Records!FreeForUpdate, RecordsProofs!FreeForUpdate, Records!Is, RecordsProofs!Is,
         Records!StaffRow, RecordsProofs!StaffRow, Records!Children, RecordsProofs!Children,
         Records!Write, RecordsProofs!Write, Records!There, RecordsProofs!There, Records!Ids, RecordsProofs!Ids,
         Records!Fail, RecordsProofs!Fail, Records!Idle, RecordsProofs!Idle,
         Records!Strong, RecordsProofs!Strong, Records!NoKey, RecordsProofs!NoKey,
         Records!KeyShare, RecordsProofs!KeyShare, Records!Written, RecordsProofs!Written,
         Records!At, RecordsProofs!At, Records!KeyChanges, RecordsProofs!KeyChanges,
         Records!NewRefs, RecordsProofs!NewRefs, Records!Refs, RecordsProofs!Refs,
         Records!Others, RecordsProofs!Others
<1>7. \A s : Records!Commit(s) <=> RecordsProofs!Commit(s)
  BY DEF Records!Commit, RecordsProofs!Commit, Records!At, RecordsProofs!At, Records!Fail, RecordsProofs!Fail,
         Records!Idle, RecordsProofs!Idle
<1>8. Records!WithinBounds <=> RecordsProofs!WithinBounds
  BY DEF Records!WithinBounds, RecordsProofs!WithinBounds, Records!Ids, RecordsProofs!Ids,
         Records!Unused, RecordsProofs!Unused, Records!Written, RecordsProofs!Written,
         Records!At, RecordsProofs!At, Records!There, RecordsProofs!There
<1>9. QED
  BY <1>1, <1>2, <1>3, <1>4, <1>5, <1>6, <1>7, <1>8
     DEF Records!Next, RecordsProofs!Next, Records!Serve, RecordsProofs!Serve

\* ... and the same properties.
LEMMA SameProperties ==
    /\ RecordsProofs!TypeOK <=> Records!TypeOK
    /\ RecordsProofs!AuditComplete <=> Records!AuditComplete
    /\ RecordsProofs!WrittenAsSeen <=> Records!WrittenAsSeen
    /\ RecordsProofs!RefundFits <=> Records!RefundFits
    /\ RecordsProofs!RecordsAssumption <=> Records!RecordsAssumption
<1>1. RecordsProofs!TypeOK <=> Records!TypeOK
  BY DEF Records!TypeOK, RecordsProofs!TypeOK, Records!Is, RecordsProofs!Is, Records!There, RecordsProofs!There,
         Records!Ids, RecordsProofs!Ids, Records!Kinds, RecordsProofs!Kinds,
         Records!Origins, RecordsProofs!Origins, Records!Refs, RecordsProofs!Refs
<1>2. RecordsProofs!AuditComplete <=> Records!AuditComplete
  <2>1. \A S : RecordsProofs!Cardinality(S) = Records!Cardinality(S)
    BY DEF Records!Cardinality, RecordsProofs!Cardinality
  <2>2. QED
    BY <2>1 DEF Records!AuditComplete, RecordsProofs!AuditComplete, Records!There, RecordsProofs!There,
                Records!Ids, RecordsProofs!Ids
<1>3. RecordsProofs!WrittenAsSeen <=> Records!WrittenAsSeen
  BY PTL DEF Records!WrittenAsSeen, RecordsProofs!WrittenAsSeen, Records!At, RecordsProofs!At,
             Records!vars, RecordsProofs!vars, Records!Idle, RecordsProofs!Idle
<1>4. RecordsProofs!RefundFits <=> Records!RefundFits
  BY PTL DEF Records!RefundFits, RecordsProofs!RefundFits, Records!At, RecordsProofs!At,
             Records!vars, RecordsProofs!vars, Records!Idle, RecordsProofs!Idle,
             Records!Refunded, RecordsProofs!Refunded,
             Records!RefundsOf, RecordsProofs!RefundsOf, Records!Is, RecordsProofs!Is,
             Records!There, RecordsProofs!There, Records!Ids, RecordsProofs!Ids, Records!Sum, RecordsProofs!Sum,
             Records!CentsOf, RecordsProofs!CentsOf, Records!Cardinality, RecordsProofs!Cardinality
<1>5. RecordsProofs!RecordsAssumption <=> Records!RecordsAssumption
  BY DEF Records!RecordsAssumption, RecordsProofs!RecordsAssumption, Records!Ids, RecordsProofs!Ids,
         Records!Rows, RecordsProofs!Rows, Records!Data, RecordsProofs!Data, Records!Kinds, RecordsProofs!Kinds,
         Records!Origins, RecordsProofs!Origins
<1>6. QED  BY <1>1, <1>2, <1>3, <1>4, <1>5

LEMMA RecordsSpec == StaffSpec => RecordsProofs!Spec
<1>1. StaffInit => RecordsProofs!Init
  BY DEF StaffInit, Records!Init, RecordsProofs!Init, Records!Ids, RecordsProofs!Ids, Records!Idle, RecordsProofs!Idle
<1>2. [Records!Next]_recordVars => [RecordsProofs!Next]_(RecordsProofs!vars)
  BY SameRequests DEF recordVars, RecordsProofs!vars
<1>3. QED  BY <1>1, <1>2, PartsMove, PTL DEF StaffSpec, RecordsProofs!Spec

LEMMA AccountsSpec == StaffSpec => Spec
<1>1. StaffInit => Init  BY DEF StaffInit
<1>2. QED  BY <1>1, PartsMove, PTL DEF StaffSpec, Spec

\* Accounts keep their domains, and no record refers to one that was deleted (app_users; the
\* foreign keys of the shop's tables).
THEOREM StaffTypesCorrect == ASSUME Records!RecordsAssumption PROVE StaffSpec => []StaffTypeOK
<1>1. StaffSpec => []RecordsProofs!TypeOK  BY RecordsSpec, SameProperties, RecordsProofs!TypeCorrect
<1>2. RecordsProofs!TypeOK /\ TypeOK => StaffTypeOK  BY SameProperties DEF StaffTypeOK
<1>3. QED  BY <1>1, <1>2, AccountsSpec, TypeCorrect, PTL

\* The audit trail has exactly the changes that were committed (record_audit in the transaction
\* of every change).
THEOREM TrailIsComplete == ASSUME Records!RecordsAssumption PROVE StaffSpec => []AuditComplete
<1>1. StaffSpec => []RecordsProofs!AuditComplete  BY RecordsSpec, SameProperties, RecordsProofs!TrailIsComplete
<1>2. RecordsProofs!AuditComplete => AuditComplete  BY SameProperties DEF AuditComplete
<1>3. QED  BY <1>1, <1>2, PTL

\* Whoever changes an account or a record has seen what is changed, and a refund that is
\* written fits in what is left of its item's price (update_role, update_active, unlock;
\* update, delete and validate of the generic endpoints).
THEOREM ChangesAsSeen == ASSUME Records!RecordsAssumption PROVE StaffSpec => SeenBeforeChanged
<1>1. StaffSpec => Records!WrittenAsSeen /\ Records!RefundFits
  BY RecordsSpec, SameProperties, RecordsProofs!WritesAsSeen, RecordsProofs!RefundsFit
<1>2. StaffSpec => DecidedOnSeen  BY AccountsSpec, DecisionsOnSeen
<1>3. QED  BY <1>1, <1>2 DEF SeenBeforeChanged

=============================================================================
