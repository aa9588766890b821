------------------------- MODULE CustomerAccessProofs -------------------------
(***************************************************************************)
(* Customer accounts and their browser sessions, proved for any number of  *)
(* accounts, tabs and products and any limit of failures.  The account's   *)
(* token_version has moved past every token that is over; a reset link     *)
(* goes with the password it was mailed for; and every product a visitor   *)
(* picked is in a bag or in a cart.                                        *)
(***************************************************************************)
EXTENDS CustomerAccess, SequenceTheorems, FiniteSetTheorems, TLAPS

Token == [account : Accounts, version : Nat, expired : BOOLEAN, over : BOOLEAN]

\* A row whose lock goes with its failures and whose link with its password.
Rows == {row \in AccountRows : /\ row.lock # "none" <=> row.failed >= Limit
                               /\ row.link # None => row.link.changed = row.changed}

Requests == [step : {"none", "correct", "wrong", "me", "transfer", "persist", "change"},
             account : Accounts \cup {None}, read : AccountRows \cup {None}, token : Nat, moved : SUBSET Products]

State == [snapshot : Nat, token : Nat, handle : Nat, ignore : BOOLEAN, command : {None} \cup [value : Nat],
          guest : SUBSET Products, request : Requests]

AccountsOK ==
    /\ account \in [Accounts -> {None} \cup Rows] /\ changes \in Nat
    /\ \A a \in Accounts : account[a] # None => account[a].changed <= changes

\* A token's account exists; its version is passed when the token is over.
TokensOK ==
    /\ token \in Seq(Token)
    /\ \A n \in DOMAIN token :
         LET row == account[token[n].account] IN
         /\ row # None /\ token[n].version <= row.version
         /\ token[n].over => token[n].version < row.version

Handles == {0} \cup DOMAIN token

StoreOK == store \subseteq DOMAIN token /\ cookie \in Handles

\* What a tab knows, and what its request in flight has found.
Knows(s) ==
    /\ {s.snapshot, s.token} \subseteq Handles /\ (s.command # None => s.command.value \in Handles)
    /\ s.token # 0 => s.handle = s.token
    /\ s.request.step \in {"correct", "wrong", "change"} =>
         s.request.account \in Accounts /\ account[s.request.account] # None
    /\ s.request.step = "correct" => s.request.read \in AccountRows
    /\ s.request.step \in {"me", "transfer", "persist"} =>
         s.request.account \in Accounts /\ s.request.token \in DOMAIN token
    /\ s.request.moved \subseteq s.guest
    /\ s.request.step \notin {"transfer", "persist"} => s.request.moved = {}

TabsOK == tab \in [Tabs -> State] /\ \A t \in Tabs : Knows(tab[t])

MailOK == mailed \subseteq Links /\ IsFiniteSet(mailed) /\ \A link \in mailed : account[link.account] # None

\* A product that was picked is in a bag, or in a cart, or both when an answer
\* was lost.
Counted(p) ==
    /\ IsFiniteSet(InCarts(p)) /\ IsFiniteSet(InBags(p)) /\ Cardinality(InBags(p)) <= bag[p].picked
    /\ bag[p].picked <= Cardinality(InCarts(p)) + Cardinality(InBags(p))
    /\ Cardinality(InCarts(p)) + Cardinality(InBags(p)) <= bag[p].picked + bag[p].unanswered

BagOK ==
    /\ cart \in [Accounts -> [Products -> Nat]]
    /\ bag \in [Products -> [picked : Nat, unanswered : Nat]]
    /\ \A p \in Products : Counted(p)

IInv == AccountsOK /\ TokensOK /\ StoreOK /\ TabsOK /\ MailOK /\ BagOK
-----------------------------------------------------------------------------
(* Rows and tokens.                                                         *)

LEMMA RowFacts ==
    ASSUME BoundsAssumption, AccountsOK, NEW a \in Accounts
    PROVE  None \notin Rows /\ (account[a] # None => account[a] \in Rows /\ account[a] \in AccountRows)
BY DEF BoundsAssumption, AccountsOK, Rows

\* Every token and row that was there is there.
Grow == DOMAIN token \subseteq DOMAIN token' /\ \A b \in Accounts : account[b] # None => account'[b] # None

\* One row changes, and its tokens are over when its version passes them.
LEMMA AccountStep ==
    ASSUME BoundsAssumption, AccountsOK, TokensOK, NEW a \in Accounts, NEW row \in Rows,
           account' = [account EXCEPT ![a] = row], changes' \in Nat, changes <= changes', row.changed <= changes',
           \/ token' = token /\ (account[a] = None \/ account[a].version <= row.version)
           \/ token' = Ended(a) /\ account[a].version < row.version
    PROVE  AccountsOK' /\ TokensOK' /\ Grow
<1>1. None \notin Rows  BY RowFacts
<1>2. account \in [Accounts -> {None} \cup Rows]  BY DEF AccountsOK
<1>3. account' \in [Accounts -> {None} \cup Rows]  BY <1>2
<1>4. \A b \in Accounts : account[b] # None => account'[b] # None  BY <1>1, <1>2
<1>5. \A b \in Accounts : account[b] # None => account[b].changed \in Nat /\ account[b].version \in Nat
  BY RowFacts DEF AccountRows
<1>6. row.changed \in Nat /\ row.version \in Nat  BY DEF Rows, AccountRows
<1>7. AccountsOK'
  <2>1. ASSUME NEW b \in Accounts, account'[b] # None PROVE account'[b].changed <= changes'
    <3>1. CASE b = a  BY <1>2, <3>1
    <3>2. CASE b # a  BY <1>2, <1>5, <2>1, <3>2 DEF AccountsOK
    <3>3. QED  BY <3>1, <3>2
  <2>2. QED  BY <1>3, <2>1 DEF AccountsOK
<1>8. token \in Seq(Token)  BY DEF TokensOK
<1>9. \A n \in DOMAIN token : token[n] \in Token  BY <1>8
<1>10. \A n \in DOMAIN token : token[n].account \in Accounts /\ token[n].version \in Nat  BY <1>9 DEF Token
<1>11. CASE token' = token /\ (account[a] = None \/ account[a].version <= row.version)
  <2>1. ASSUME NEW n \in DOMAIN token', NEW x, x = token'[n]
        PROVE  /\ account'[x.account] # None /\ x.version <= account'[x.account].version
               /\ x.over => x.version < account'[x.account].version
    <3>1. n \in DOMAIN token /\ x = token[n]  BY <1>11, <2>1
    <3>2. /\ account[x.account] # None /\ x.version <= account[x.account].version
          /\ x.over => x.version < account[x.account].version
      BY <3>1 DEF TokensOK
    <3>3. CASE x.account = a  BY <1>2, <1>5, <1>6, <1>10, <1>11, <3>1, <3>2, <3>3, <1>1
    <3>4. CASE x.account # a  BY <1>2, <1>10, <3>1, <3>2, <3>4
    <3>5. QED  BY <3>3, <3>4
  <2>2. TokensOK'  BY <1>8, <1>11, <2>1 DEF TokensOK
  <2>3. QED  BY <1>4, <1>7, <1>11, <2>2 DEF Grow
<1>12. CASE token' = Ended(a) /\ account[a].version < row.version
  <2>1. token' = [n \in DOMAIN token |-> IF token[n].account = a THEN [token[n] EXCEPT !.over = TRUE] ELSE token[n]]
    BY <1>12 DEF Ended
  <2>2. ASSUME NEW n \in DOMAIN token
        PROVE  /\ token'[n] \in Token /\ token'[n].account = token[n].account /\ token'[n].version = token[n].version
               /\ token[n].account # a => token'[n] = token[n]
    <3>1. PICK x : x = token[n]  OBVIOUS
    <3>2. x \in Token  BY <1>9, <3>1
    <3>3. [x EXCEPT !.over = TRUE] \in Token  BY <3>2 DEF Token
    <3>4. [x EXCEPT !.over = TRUE].account = x.account /\ [x EXCEPT !.over = TRUE].version = x.version  BY <3>2 DEF Token
    <3>5. token'[n] = IF x.account = a THEN [x EXCEPT !.over = TRUE] ELSE x  BY <2>1, <3>1
    <3>6. QED  BY <3>1, <3>2, <3>3, <3>4, <3>5
  <2>3. DOMAIN token' = DOMAIN token  BY <2>1
  <2>4. token' \in Seq(Token)
    <3>1. DOMAIN token = 1..Len(token) /\ Len(token) \in Nat  BY <1>8
    <3>2. token' = [n \in 1..Len(token) |-> token'[n]]  BY <2>1, <3>1
    <3>3. QED  BY <2>2, <3>1, <3>2
  <2>5. ASSUME NEW n \in DOMAIN token', NEW x, x = token'[n]
        PROVE  /\ account'[x.account] # None /\ x.version <= account'[x.account].version
               /\ x.over => x.version < account'[x.account].version
    <3>1. PICK y : y = token[n]  OBVIOUS
    <3>2. x.account = y.account /\ x.version = y.version /\ (y.account # a => x = y)  BY <2>2, <2>3, <2>5, <3>1
    <3>3. /\ account[y.account] # None /\ y.version <= account[y.account].version
          /\ y.over => y.version < account[y.account].version
      BY <2>3, <2>5, <3>1 DEF TokensOK
    <3>4. y.account \in Accounts /\ y.version \in Nat  BY <1>10, <2>3, <2>5, <3>1
    <3>5. CASE y.account = a
      <4>1. account'[a] = row  BY <1>2
      <4>2. y.version < row.version  BY <1>5, <1>6, <1>12, <3>3, <3>4, <3>5
      <4>3. QED  BY <1>1, <1>6, <3>2, <3>4, <3>5, <4>1, <4>2
    <3>6. CASE y.account # a
      <4>1. account'[y.account] = account[y.account]  BY <1>2, <3>4, <3>6
      <4>2. QED  BY <3>2, <3>3, <3>6, <4>1
    <3>7. QED  BY <3>5, <3>6
  <2>6. TokensOK'  BY <2>4, <2>5 DEF TokensOK
  <2>7. QED  BY <1>4, <1>7, <2>3, <2>6 DEF Grow
<1>13. QED  BY <1>11, <1>12

-----------------------------------------------------------------------------
(* Tabs and bags.                                                           *)

LEMMA StillKnows == ASSUME NEW s, Knows(s), Grow PROVE Knows(s)'
BY DEF Knows, Grow, Handles

LEMMA TabStep ==
    ASSUME TabsOK, Grow, NEW t \in Tabs, NEW u \in State, Knows(u)', tab' = [tab EXCEPT ![t] = u]
    PROVE  TabsOK'
<1>1. tab \in [Tabs -> State]  BY DEF TabsOK
<1>2. tab' \in [Tabs -> State]  BY <1>1
<1>3. ASSUME NEW r \in Tabs, NEW x, x = tab'[r] PROVE Knows(x)'
  <2>1. CASE r = t
    <3>1. x = u  BY <1>1, <1>3, <2>1
    <3>2. QED  BY <3>1 DEF Knows
  <2>2. CASE r # t
    <3>1. x = tab[r]  BY <1>1, <1>3, <2>2
    <3>2. Knows(x)  BY <3>1 DEF TabsOK
    <3>3. QED  BY <3>2, StillKnows
  <2>3. QED  BY <2>1, <2>2
<1>4. QED  BY <1>2, <1>3 DEF TabsOK, Knows

LEMMA TabsStay == ASSUME TabsOK, Grow, tab' = tab PROVE TabsOK'
<1>1. ASSUME NEW r \in Tabs, NEW x, x = tab'[r] PROVE Knows(x)'
  <2>1. Knows(x)  BY <1>1 DEF TabsOK
  <2>2. QED  BY <2>1, StillKnows
<1>2. QED  BY <1>1 DEF TabsOK, Knows

\* What is left to move of a tab's bag.
Remaining(s) == s.guest \ s.request.moved

LEMMA BagStays ==
    ASSUME BagOK, cart' = cart, bag' = bag, \A t \in Tabs : Remaining(tab'[t]) = Remaining(tab[t])
    PROVE  BagOK'
<1>1. \A p : InCarts(p)' = InCarts(p)  BY DEF InCarts
<1>2. \A p : InBags(p)' = InBags(p)  BY DEF InBags, Remaining
<1>3. QED  BY <1>1, <1>2 DEF BagOK, Counted

\* One tab's bag is as it was.
LEMMA SameBag ==
    ASSUME TabsOK, BagOK, cart' = cart, bag' = bag, NEW t \in Tabs, NEW u, tab' = [tab EXCEPT ![t] = u],
           Remaining(u) = Remaining(tab[t])
    PROVE  BagOK'
<1>1. tab \in [Tabs -> State]  BY DEF TabsOK
<1>2. \A r \in Tabs : tab'[r] = IF r = t THEN u ELSE tab[r]  BY <1>1
<1>3. \A r \in Tabs : Remaining(tab'[r]) = Remaining(tab[r])
  <2>1. TAKE r \in Tabs
  <2>2. QED  BY <1>2
<1>4. QED  BY <1>3, BagStays
-----------------------------------------------------------------------------
(* What happens to the accounts, while no tab moves.                        *)

LEMMA MailStays == ASSUME MailOK, Grow, mailed' = mailed PROVE MailOK'
BY DEF MailOK, Grow, Links

LEMMA TabsRest ==
    ASSUME IInv, Grow, AccountsOK', TokensOK', mailed' = mailed \/ MailOK', UNCHANGED <<store, cookie, tab, cart, bag>>
    PROVE  IInv'
<1>0. MailOK'  BY MailStays DEF IInv
<1>1. StoreOK'  BY DEF IInv, StoreOK, Grow, Handles
<1>2. TabsOK'  BY TabsStay DEF IInv
<1>3. BagOK'  BY BagStays DEF IInv
<1>4. QED  BY <1>0, <1>1, <1>2, <1>3 DEF IInv

LEMMA OneChange ==
    ASSUME BoundsAssumption, IInv, NEW a \in Accounts, NEW row \in Rows, Set(a, row),
           account[a] # None => row.changed <= account[a].changed + 1, account[a] = None => row.changed = 0,
           \/ token' = token /\ (account[a] = None \/ account[a].version <= row.version)
           \/ token' = Ended(a) /\ account[a].version < row.version
    PROVE  AccountsOK' /\ TokensOK' /\ Grow
<1>1. AccountsOK /\ TokensOK /\ changes \in Nat  BY DEF IInv, AccountsOK
<1>2. account' = [account EXCEPT ![a] = row] /\ changes' = changes + 1  BY DEF Set
<1>3. changes' \in Nat /\ changes <= changes'  BY <1>1, <1>2
<1>4. row.changed \in Nat  BY DEF Rows, AccountRows
<1>5. row.changed <= changes'
  <2>1. CASE account[a] = None  BY <1>3, <2>1
  <2>2. CASE account[a] # None
    <3>1. account[a].changed \in Nat /\ account[a].changed <= changes  BY <1>1, <2>2, RowFacts DEF AccountRows, AccountsOK
    <3>2. QED  BY <1>1, <1>2, <1>4, <2>2, <3>1
  <2>3. QED  BY <2>1, <2>2
<1>6. QED  BY <1>1, <1>2, <1>3, <1>5, AccountStep

LEMMA RegisterStep == ASSUME BoundsAssumption, IInv, NEW a \in Accounts, Register(a) PROVE IInv'
<1>1. account[a] = None /\ Set(a, NewAccount) /\ UNCHANGED <<browser, tab, mailed>>  BY DEF Register
<1>2. UNCHANGED <<token, store, cookie, tab, cart, bag, mailed>>  BY <1>1 DEF browser
<1>3. NewAccount \in Rows /\ NewAccount.changed = 0
  BY SMT DEF NewAccount, Rows, AccountRows, BoundsAssumption
<1>4. AccountsOK' /\ TokensOK' /\ Grow  BY <1>1, <1>2, <1>3, OneChange
<1>5. QED  BY <1>2, <1>4, TabsRest

LEMMA LinkMailed ==
    ASSUME MailOK, Grow, NEW link \in Links, account[link.account] # None, mailed' = mailed \cup {link} PROVE MailOK'
BY FS_AddElement DEF MailOK, Grow, Links

LEMMA ForgotStep ==
    ASSUME BoundsAssumption, IInv, NEW a \in Accounts, NEW stored \in BOOLEAN, Forgot(a, stored) PROVE IInv'
<1>r. PICK row : row = account[a]  OBVIOUS
<1>l. PICK link : link = [account |-> a, changed |-> row.changed, number |-> Cardinality(mailed)]  OBVIOUS
<1>1. row # None /\ mailed' = mailed \cup {link} /\ UNCHANGED <<token, store, cookie, tab, cart, bag>>
  BY <1>r, <1>l DEF Forgot, browser
<1>2. AccountsOK /\ TokensOK /\ MailOK  BY DEF IInv
<1>3. row \in Rows /\ row \in AccountRows  BY <1>r, <1>1, <1>2, RowFacts
<1>4. row.changed \in Nat /\ row.version \in Nat  BY <1>3 DEF AccountRows
<1>5. Cardinality(mailed) \in Nat  BY <1>2, FS_CardinalityType DEF MailOK
<1>6. link \in Links /\ link.changed = row.changed /\ account[link.account] # None
  BY <1>r, <1>l, <1>1, <1>4, <1>5 DEF Links
<1>7. CASE stored
  <2>1. PICK new : new = [row EXCEPT !.link = link]  OBVIOUS
  <2>2. new \in Rows /\ new.version = row.version /\ new.changed = row.changed  BY <1>3, <1>6, <2>1 DEF Rows, AccountRows
  <2>3. Set(a, new)  BY <1>r, <1>l, <1>7, <2>1 DEF Forgot
  <2>4. AccountsOK' /\ TokensOK' /\ Grow  BY <1>r, <1>1, <1>4, <2>2, <2>3, OneChange
  <2>5. MailOK'  BY <1>1, <1>2, <1>6, <2>4, LinkMailed
  <2>6. QED  BY <1>1, <2>4, <2>5, TabsRest
<1>8. CASE ~stored
  <2>1. account' = account /\ changes' = changes + 1  BY <1>8 DEF Forgot
  <2>2. AccountsOK'
    <3>1. \A b \in Accounts : account[b] # None => account[b].changed \in Nat  BY <1>2, RowFacts DEF AccountRows
    <3>2. QED  BY <1>2, <2>1, <3>1 DEF AccountsOK
  <2>3. TokensOK' /\ Grow  BY <1>1, <1>2, <2>1 DEF TokensOK, Grow
  <2>4. MailOK'  BY <1>1, <1>2, <1>6, <2>3, LinkMailed
  <2>5. QED  BY <1>1, <2>2, <2>3, <2>4, TabsRest
<1>9. QED  BY <1>7, <1>8

LEMMA NewPassword ==
    ASSUME NEW row \in Rows, NEW password \in Nat, Limit \in Nat \ {0}, NEW new, new = WithPassword(row, password)
    PROVE  new \in Rows /\ new.version = row.version + 1 /\ new.changed = row.changed + 1
<1>1. row \in AccountRows /\ row.version + 1 \in Nat /\ row.changed + 1 \in Nat  BY DEF Rows, AccountRows
<1>2. new = [row EXCEPT !.password = password, !.outdated = FALSE, !.link = None, !.failed = 0, !.lock = "none",
                        !.version = row.version + 1, !.changed = row.changed + 1]
  BY <1>1 DEF WithPassword, AccountRows
<1>3. new \in AccountRows
  <2>1. FALSE \in BOOLEAN /\ 0 \in Nat /\ "none" \in {"none", "until", "past"}  OBVIOUS
  <2>2. QED  BY <1>1, <1>2, <2>1 DEF AccountRows
<1>4. new.version = row.version + 1 /\ new.changed = row.changed + 1 /\ new.link = None /\ new.lock = "none" /\ new.failed = 0
  BY <1>1, <1>2 DEF AccountRows
<1>5. QED  BY <1>3, <1>4 DEF Rows

\* A new password, with the account's tokens over.
LEMMA PasswordStep ==
    ASSUME BoundsAssumption, IInv, NEW a \in Accounts, account[a] # None,
           Set(a, WithPassword(account[a], account[a].changed + 1)), token' = Ended(a)
    PROVE  AccountsOK' /\ TokensOK' /\ Grow
<1>r. PICK row : row = account[a]  OBVIOUS
<1>n. PICK new : new = WithPassword(row, row.changed + 1)  OBVIOUS
<1>1. AccountsOK  BY DEF IInv
<1>2. row \in Rows  BY <1>r, <1>1, RowFacts
<1>3. row.version \in Nat /\ row.changed \in Nat /\ row.changed + 1 \in Nat  BY <1>2 DEF Rows, AccountRows
<1>4. Limit \in Nat \ {0}  BY DEF BoundsAssumption
<1>5. new \in Rows /\ new.version = row.version + 1 /\ new.changed = row.changed + 1  BY <1>n, <1>2, <1>3, <1>4, NewPassword
<1>6. Set(a, new)  BY <1>r, <1>n
<1>7. row.version < new.version /\ new.changed <= row.changed + 1  BY <1>3, <1>5
<1>8. QED  BY <1>r, <1>5, <1>6, <1>7, OneChange

LEMMA ResetStep == ASSUME BoundsAssumption, IInv, NEW link \in mailed, Reset(link) PROVE IInv'
<1>a. PICK a : a = link.account  OBVIOUS
<1>1. link \in Links /\ a \in Accounts  BY <1>a DEF IInv, MailOK, Links
<1>2. /\ account[a].link = link /\ account[a].active /\ Set(a, WithPassword(account[a], account[a].changed + 1))
      /\ token' = Ended(a) /\ UNCHANGED <<store, cookie, tab, cart, mailed, bag>>
  BY <1>a DEF Reset
<1>3. account[a] # None  BY <1>a DEF IInv, MailOK
<1>4. AccountsOK' /\ TokensOK' /\ Grow  BY <1>1, <1>2, <1>3, PasswordStep
<1>5. QED  BY <1>2, <1>4, TabsRest

LEMMA SetActiveStep ==
    ASSUME BoundsAssumption, IInv, NEW a \in Accounts, NEW on \in BOOLEAN, SetActive(a, on) PROVE IInv'
<1>r. PICK row : row = account[a]  OBVIOUS
<1>n. PICK new : new = [row EXCEPT !.active = on, !.version = @ + 1]  OBVIOUS
<1>1. row # None /\ Set(a, new) /\ token' = Ended(a) /\ UNCHANGED <<store, cookie, tab, cart, mailed, bag>>
  BY <1>r, <1>n DEF SetActive
<1>2. row \in Rows /\ row.version \in Nat /\ row.changed \in Nat  BY <1>r, <1>1, RowFacts DEF IInv, AccountRows
<1>3. new \in Rows /\ new.version = row.version + 1 /\ new.changed = row.changed
  <2>1. row.version + 1 \in Nat  BY <1>2
  <2>2. QED  BY <1>n, <1>2, <2>1 DEF Rows, AccountRows
<1>4. row.version < new.version /\ new.changed <= row.changed + 1  BY <1>2, <1>3
<1>5. AccountsOK' /\ TokensOK' /\ Grow  BY <1>r, <1>1, <1>3, <1>4, OneChange
<1>6. QED  BY <1>1, <1>5, TabsRest

LEMMA UnlockStep == ASSUME BoundsAssumption, IInv, NEW a \in Accounts, Unlock(a) PROVE IInv'
<1>r. PICK row : row = account[a]  OBVIOUS
<1>n. PICK new : new = [row EXCEPT !.failed = 0, !.lock = "none"]  OBVIOUS
<1>1. row # None /\ Set(a, new) /\ UNCHANGED <<token, store, cookie, tab, cart, bag, mailed>>
  BY <1>r, <1>n DEF Unlock, browser
<1>2. row \in Rows /\ row.version \in Nat /\ row.changed \in Nat  BY <1>r, <1>1, RowFacts DEF IInv, AccountRows
<1>3. new \in Rows /\ new.version = row.version /\ new.changed = row.changed
  <2>1. Limit \in Nat \ {0}  BY DEF BoundsAssumption
  <2>2. row \in AccountRows /\ (row.link # None => row.link.changed = row.changed)  BY <1>2 DEF Rows
  <2>3. new \in AccountRows /\ new.failed = 0 /\ new.lock = "none" /\ new.link = row.link
        /\ new.version = row.version /\ new.changed = row.changed
    BY <1>n, <2>2 DEF AccountRows
  <2>4. QED  BY <2>1, <2>2, <2>3 DEF Rows
<1>4. row.version <= new.version /\ new.changed <= row.changed + 1  BY <1>2, <1>3
<1>5. AccountsOK' /\ TokensOK' /\ Grow  BY <1>r, <1>1, <1>3, <1>4, OneChange
<1>6. QED  BY <1>1, <1>5, TabsRest

LEMMA ExpireStep == ASSUME BoundsAssumption, IInv, Expire PROVE IInv'
<1>0. AccountsOK /\ TokensOK /\ MailOK /\ StoreOK /\ TabsOK /\ BagOK  BY DEF IInv
<1>1. ASSUME NEW a \in Accounts, NEW new \in Rows, account[a] # None, account' = [account EXCEPT ![a] = new],
             new.version = account[a].version, new.changed = account[a].changed,
             UNCHANGED <<browser, tab, mailed, changes>>
      PROVE  IInv'
  <2>1. UNCHANGED <<token, store, cookie, tab, cart, bag, mailed>>  BY <1>1 DEF browser
  <2>2. changes \in Nat /\ account[a].changed \in Nat /\ account[a].version \in Nat /\ account[a].changed <= changes
    BY <1>0, <1>1, RowFacts DEF AccountsOK, AccountRows
  <2>3. new.changed <= changes' /\ account[a].version <= new.version /\ changes' \in Nat /\ changes <= changes'
    BY <1>1, <2>2
  <2>4. AccountsOK' /\ TokensOK' /\ Grow  BY <1>0, <1>1, <2>1, <2>3, AccountStep
  <2>5. QED  BY <2>1, <2>4, TabsRest
<1>2. CASE /\ \E a \in Accounts : /\ account[a] # None
                                  /\ \/ account[a].lock = "until" /\ account' = [account EXCEPT ![a].lock = "past"]
                                     \/ account[a].link # None /\ account' = [account EXCEPT ![a].link = None]
           /\ UNCHANGED <<browser, tab, mailed, changes>>
  <2>1. PICK a \in Accounts : /\ account[a] # None
                              /\ \/ account[a].lock = "until" /\ account' = [account EXCEPT ![a].lock = "past"]
                                 \/ account[a].link # None /\ account' = [account EXCEPT ![a].link = None]
    BY <1>2
  <2>2. PICK row : row = account[a]  OBVIOUS
  <2>3. row \in Rows  BY <1>0, <2>1, <2>2, RowFacts
  <2>4. account \in [Accounts -> {None} \cup Rows]  BY <1>0 DEF AccountsOK
  <2>5. CASE row.lock = "until" /\ account' = [account EXCEPT ![a].lock = "past"]
    <3>1. PICK new : new = [row EXCEPT !.lock = "past"]  OBVIOUS
    <3>2. new \in Rows /\ new.version = row.version /\ new.changed = row.changed
      BY <2>3, <2>5, <3>1 DEF Rows, AccountRows
    <3>3. account' = [account EXCEPT ![a] = new]  BY <2>2, <2>5, <3>1
    <3>4. QED  BY <1>1, <1>2, <2>1, <2>2, <3>2, <3>3
  <2>6. CASE account' = [account EXCEPT ![a].link = None]
    <3>1. PICK new : new = [row EXCEPT !.link = None]  OBVIOUS
    <3>2. new \in Rows /\ new.version = row.version /\ new.changed = row.changed
      BY <2>3, <3>1 DEF Rows, AccountRows
    <3>3. account' = [account EXCEPT ![a] = new]  BY <2>2, <2>6, <3>1
    <3>4. QED  BY <1>1, <1>2, <2>1, <2>2, <3>2, <3>3
  <2>7. QED  BY <2>1, <2>2, <2>5, <2>6
<1>3. CASE /\ \E n \in DOMAIN token : ~token[n].expired /\ token' = [token EXCEPT ![n].expired = TRUE]
           /\ UNCHANGED <<account, store, cookie, tab, cart, mailed, bag, changes>>
  <2>1. PICK n \in DOMAIN token : token' = [token EXCEPT ![n].expired = TRUE]  BY <1>3
  <2>2. PICK x : x = token[n]  OBVIOUS
  <2>3. PICK y : y = [x EXCEPT !.expired = TRUE]  OBVIOUS
  <2>4. token \in Seq(Token) /\ x \in Token  BY <1>0, <2>2 DEF TokensOK
  <2>5. y \in Token /\ y.account = x.account /\ y.version = x.version /\ y.over = x.over  BY <2>3, <2>4 DEF Token
  <2>6. token' = [token EXCEPT ![n] = y]  BY <2>1, <2>2, <2>3
  <2>7. token' \in Seq(Token) /\ DOMAIN token' = DOMAIN token  BY <2>4, <2>5, <2>6, ExceptSeq
  <2>8. \A m \in DOMAIN token : token'[m].account = token[m].account /\ token'[m].version = token[m].version
                                /\ token'[m].over = token[m].over
    BY <2>2, <2>5, <2>6
  <2>9. TokensOK'  BY <1>0, <1>3, <2>7, <2>8 DEF TokensOK
  <2>10. Grow  BY <1>3, <2>7 DEF Grow
  <2>11. AccountsOK'  BY <1>0, <1>3 DEF AccountsOK
  <2>12. QED  BY <1>3, <2>9, <2>10, <2>11, TabsRest
<1>4. CASE /\ \E n \in store : token[n].expired /\ store' = store \ {n}
           /\ UNCHANGED <<account, token, cookie, tab, cart, mailed, bag, changes>>
  <2>1. AccountsOK' /\ TokensOK' /\ MailOK' /\ Grow  BY <1>0, <1>4 DEF AccountsOK, TokensOK, MailOK, Grow
  <2>2. StoreOK'  BY <1>0, <1>4 DEF StoreOK, Handles
  <2>3. TabsOK' /\ BagOK'  BY <1>0, <1>4, <2>1, TabsStay, BagStays
  <2>4. QED  BY <2>1, <2>2, <2>3 DEF IInv
<1>5. QED  BY <1>2, <1>3, <1>4 DEF Expire
-----------------------------------------------------------------------------
(* What is picked, dropped and moved.                                       *)

LEMMA BagsOfOne ==
    ASSUME TabsOK, NEW t \in Tabs, NEW u, tab' = [tab EXCEPT ![t] = u], NEW p
    PROVE  /\ InBags(p)' = IF p \in Remaining(u) THEN InBags(p) \cup {t} ELSE InBags(p) \ {t}
           /\ t \in InBags(p) <=> p \in Remaining(tab[t])
<1>1. tab \in [Tabs -> State]  BY DEF TabsOK
<1>2. \A r \in Tabs : tab'[r] = IF r = t THEN u ELSE tab[r]  BY <1>1
<1>3. \A r : r \in InBags(p)' <=> r \in Tabs /\ p \in Remaining(tab'[r])  BY DEF InBags, Remaining
<1>4. \A r : r \in InBags(p) <=> r \in Tabs /\ p \in Remaining(tab[r])  BY DEF InBags, Remaining
<1>5. QED  BY <1>2, <1>3, <1>4

\* A piece more in a cart.
LEMMA CartGrows ==
    ASSUME cart \in [Accounts -> [Products -> Nat]], NEW a \in Accounts, NEW p \in Products,
           cart' = [cart EXCEPT ![a][p] = @ + 1]
    PROVE  /\ cart' \in [Accounts -> [Products -> Nat]]
           /\ \E piece : piece \notin InCarts(p) /\ InCarts(p)' = InCarts(p) \cup {piece}
           /\ \A q \in Products : q # p => InCarts(q)' = InCarts(q)
<1>1. PICK row : row = [cart[a] EXCEPT ![p] = cart[a][p] + 1]  OBVIOUS
<1>2. cart[a] \in [Products -> Nat] /\ cart[a][p] \in Nat  OBVIOUS
<1>3. row \in [Products -> Nat] /\ row[p] = cart[a][p] + 1 /\ \A q \in Products : q # p => row[q] = cart[a][q]
  BY <1>1, <1>2
<1>4. cart' = [cart EXCEPT ![a] = row]  BY <1>1
<1>5. cart' \in [Accounts -> [Products -> Nat]] /\ cart'[a] = row /\ \A b \in Accounts : b # a => cart'[b] = cart[b]
  BY <1>3, <1>4
<1>6. PICK n : n = cart[a][p]  OBVIOUS
<1>7. PICK piece : piece = <<a, n + 1>>  OBVIOUS
<1>8. \A x : x \in InCarts(p) <=> \E b \in Accounts : \E m \in 1..cart[b][p] : x = <<b, m>>  BY DEF InCarts
<1>9. \A x : x \in InCarts(p)' <=> \E b \in Accounts : \E m \in 1..cart'[b][p] : x = <<b, m>>  BY DEF InCarts
<1>10. piece \notin InCarts(p)
  <2>1. ASSUME NEW b \in Accounts, NEW m \in 1..cart[b][p], piece = <<b, m>> PROVE FALSE
    <3>1. b = a /\ m = n + 1  BY <1>7, <2>1
    <3>2. QED  BY <1>2, <1>6, <2>1, <3>1
  <2>2. QED  BY <1>8, <2>1
<1>11. \A m : m \in 1..(n + 1) <=> m \in 1..n \/ m = n + 1
  <2>1. n \in Nat  BY <1>2, <1>6
  <2>2. \A m \in Int : m \in 1..(n + 1) <=> (m \in 1..n \/ m = n + 1)  BY <2>1
  <2>3. \A m : (m \in 1..(n + 1) \/ m \in 1..n \/ m = n + 1) => m \in Int  BY <2>1
  <2>4. QED  BY <2>2, <2>3
<1>12. cart'[a][p] = n + 1 /\ cart[a][p] = n /\ \A b \in Accounts : b # a => cart'[b][p] = cart[b][p]
  BY <1>3, <1>5, <1>6
<1>13. ASSUME NEW x PROVE x \in InCarts(p)' <=> x \in InCarts(p) \/ x = piece
  <2>1. ASSUME NEW b \in Accounts, NEW m \in 1..cart'[b][p], x = <<b, m>> PROVE x \in InCarts(p) \/ x = piece
    <3>1. CASE b = a  BY <1>7, <1>8, <1>11, <1>12, <2>1, <3>1
    <3>2. CASE b # a  BY <1>8, <1>12, <2>1, <3>2
    <3>3. QED  BY <3>1, <3>2
  <2>2. ASSUME NEW b \in Accounts, NEW m \in 1..cart[b][p], x = <<b, m>> PROVE x \in InCarts(p)'
    <3>1. m \in 1..cart'[b][p]  BY <1>11, <1>12, <2>2
    <3>2. QED  BY <1>9, <2>2, <3>1
  <2>3. ASSUME x = piece PROVE x \in InCarts(p)'
    <3>1. n + 1 \in 1..cart'[a][p]  BY <1>11, <1>12
    <3>2. QED  BY <1>7, <1>9, <2>3, <3>1
  <2>4. QED  BY <1>8, <1>9, <2>1, <2>2, <2>3
<1>14. InCarts(p)' = InCarts(p) \cup {piece}  BY <1>13
<1>15. ASSUME NEW q \in Products, q # p PROVE InCarts(q)' = InCarts(q)
  <2>1. \A b \in Accounts : cart'[b][q] = cart[b][q]  BY <1>3, <1>5, <1>15
  <2>2. QED  BY <2>1 DEF InCarts
<1>16. QED  BY <1>5, <1>10, <1>14, <1>15

\* How a step of tab t may change what there is of a product.
Same(p, t, u) ==
    (p \in Remaining(u) <=> p \in Remaining(tab[t])) /\ InCarts(p)' = InCarts(p) /\ bag'[p] = bag[p]
Picked(p, t, u) ==
    /\ p \in Remaining(u) /\ p \notin Remaining(tab[t]) /\ InCarts(p)' = InCarts(p)
    /\ bag'[p].picked = bag[p].picked + 1 /\ bag'[p].unanswered = bag[p].unanswered
Dropped(p, t, u) ==
    /\ p \notin Remaining(u) /\ p \in Remaining(tab[t]) /\ InCarts(p)' = InCarts(p)
    /\ bag'[p].picked = bag[p].picked - 1 /\ bag'[p].unanswered = bag[p].unanswered
Moved(p, t, u) ==
    /\ p \notin Remaining(u) /\ p \in Remaining(tab[t]) /\ bag'[p] = bag[p]
    /\ \E piece : piece \notin InCarts(p) /\ InCarts(p)' = InCarts(p) \cup {piece}
Doubled(p, t, u) ==
    /\ p \in Remaining(u) <=> p \in Remaining(tab[t])
    /\ bag'[p].picked = bag[p].picked /\ bag'[p].unanswered = bag[p].unanswered + 1
    /\ \E piece : piece \notin InCarts(p) /\ InCarts(p)' = InCarts(p) \cup {piece}

LEMMA CountedStep ==
    ASSUME TabsOK, BagOK, NEW t \in Tabs, NEW u, tab' = [tab EXCEPT ![t] = u], NEW p \in Products,
           Same(p, t, u) \/ Picked(p, t, u) \/ Dropped(p, t, u) \/ Moved(p, t, u) \/ Doubled(p, t, u)
    PROVE  Counted(p)' /\ (Dropped(p, t, u) => bag[p].picked # 0)
<1> DEFINE C == Cardinality(InCarts(p))
           B == Cardinality(InBags(p))
<1>1. Counted(p) /\ bag[p].picked \in Nat /\ bag[p].unanswered \in Nat  BY DEF BagOK
<1>2. IsFiniteSet(InCarts(p)) /\ IsFiniteSet(InBags(p))  BY <1>1 DEF Counted
<1>3. C \in Nat /\ B \in Nat  BY <1>2, FS_CardinalityType
<1>4. B <= bag[p].picked /\ bag[p].picked <= C + B /\ C + B <= bag[p].picked + bag[p].unanswered  BY <1>1 DEF Counted
<1>5. /\ InBags(p)' = IF p \in Remaining(u) THEN InBags(p) \cup {t} ELSE InBags(p) \ {t}
      /\ t \in InBags(p) <=> p \in Remaining(tab[t])
  BY BagsOfOne
<1>6. ASSUME NEW piece, piece \notin InCarts(p), InCarts(p)' = InCarts(p) \cup {piece}
      PROVE  IsFiniteSet(InCarts(p)') /\ Cardinality(InCarts(p)') = C + 1
  BY <1>2, <1>6, FS_AddElement
<1>7. (p \in Remaining(u) <=> p \in Remaining(tab[t])) => InBags(p)' = InBags(p)  BY <1>5
<1>8. ASSUME p \in Remaining(u), p \notin Remaining(tab[t])
      PROVE  IsFiniteSet(InBags(p)') /\ Cardinality(InBags(p)') = B + 1
  BY <1>2, <1>5, <1>8, FS_AddElement
<1>9. ASSUME p \notin Remaining(u), p \in Remaining(tab[t])
      PROVE  IsFiniteSet(InBags(p)') /\ Cardinality(InBags(p)') = B - 1 /\ B # 0
  <2>1. t \in InBags(p) /\ InBags(p)' = InBags(p) \ {t}  BY <1>5, <1>9
  <2>2. IsFiniteSet(InBags(p)') /\ Cardinality(InBags(p)') = B - 1  BY <1>2, <2>1, FS_RemoveElement
  <2>3. B # 0  BY <1>2, <2>1, FS_EmptySet
  <2>4. QED  BY <2>2, <2>3
<1> HIDE DEF C, B
<1>10. C = Cardinality(InCarts(p)) /\ B = Cardinality(InBags(p))  BY DEF C, B
<1>11. CASE Same(p, t, u)
  <2>1. InBags(p)' = InBags(p) /\ InCarts(p)' = InCarts(p) /\ bag'[p] = bag[p]  BY <1>7, <1>11 DEF Same
  <2>2. QED  BY <1>1, <1>11, <2>1 DEF Counted, Same, Dropped
<1>12. CASE Picked(p, t, u)
  <2>1. IsFiniteSet(InBags(p)') /\ Cardinality(InBags(p)') = B + 1 /\ InCarts(p)' = InCarts(p)
        /\ bag'[p].picked = bag[p].picked + 1 /\ bag'[p].unanswered = bag[p].unanswered
    BY <1>8, <1>12 DEF Picked
  <2>2. QED  BY <1>1, <1>2, <1>3, <1>4, <1>10, <1>12, <2>1 DEF Counted, Picked, Dropped
<1>13. CASE Dropped(p, t, u)
  <2>1. IsFiniteSet(InBags(p)') /\ Cardinality(InBags(p)') = B - 1 /\ B # 0 /\ InCarts(p)' = InCarts(p)
        /\ bag'[p].picked = bag[p].picked - 1 /\ bag'[p].unanswered = bag[p].unanswered
    BY <1>9, <1>13 DEF Dropped
  <2>2. QED  BY <1>1, <1>2, <1>3, <1>4, <1>10, <2>1 DEF Counted
<1>14. CASE Moved(p, t, u)
  <2>1. IsFiniteSet(InBags(p)') /\ Cardinality(InBags(p)') = B - 1 /\ B # 0 /\ bag'[p] = bag[p]
    BY <1>9, <1>14 DEF Moved
  <2>2. IsFiniteSet(InCarts(p)') /\ Cardinality(InCarts(p)') = C + 1  BY <1>6, <1>14 DEF Moved
  <2>3. ~Dropped(p, t, u)
    <3>1. PICK k : k = bag[p].picked  OBVIOUS
    <3>2. bag'[p].picked = k  BY <2>1, <3>1
    <3>3. k # k - 1  BY <1>1, <3>1
    <3>4. QED  BY <3>1, <3>2, <3>3 DEF Dropped
  <2>4. QED  BY <1>1, <1>3, <1>4, <2>1, <2>2, <2>3 DEF Counted
<1>15. CASE Doubled(p, t, u)
  <2>1. InBags(p)' = InBags(p) /\ bag'[p].picked = bag[p].picked /\ bag'[p].unanswered = bag[p].unanswered + 1
    BY <1>7, <1>15 DEF Doubled
  <2>2. IsFiniteSet(InCarts(p)') /\ Cardinality(InCarts(p)') = C + 1  BY <1>6, <1>15 DEF Doubled
  <2>3. ~Dropped(p, t, u)  BY <1>15 DEF Doubled, Dropped
  <2>4. QED  BY <1>1, <1>2, <1>3, <1>4, <1>10, <2>1, <2>2, <2>3 DEF Counted
<1>16. QED  BY <1>11, <1>12, <1>13, <1>14, <1>15
-----------------------------------------------------------------------------
(* A tab moves.                                                             *)

LEMMA TabMoves ==
    ASSUME IInv, Grow, AccountsOK', TokensOK', StoreOK', BagOK', mailed' = mailed,
           NEW t \in Tabs, NEW u \in State, Knows(u), tab' = [tab EXCEPT ![t] = u]
    PROVE  IInv'
<1>1. Knows(u)'  BY StillKnows
<1>2. TabsOK'  BY <1>1, TabStep DEF IInv
<1>3. MailOK'  BY MailStays DEF IInv
<1>4. QED  BY <1>2, <1>3 DEF IInv

LEMMA SameRows ==
    ASSUME IInv, UNCHANGED <<account, token, changes>> PROVE AccountsOK' /\ TokensOK' /\ Grow
BY DEF IInv, AccountsOK, TokensOK, Grow

LEMMA SameStore == ASSUME IInv, Grow, UNCHANGED <<store, cookie>> PROVE StoreOK'
BY DEF IInv, StoreOK, Grow, Handles

LEMMA OfTab == ASSUME IInv, NEW t \in Tabs PROVE tab[t] \in State /\ tab[t].request \in Requests /\ Knows(tab[t])
BY DEF IInv, TabsOK, State

LEMMA NoRequestFacts ==
    NoRequest \in Requests /\ NoRequest.step = "none" /\ NoRequest.moved = {}
BY DEF NoRequest, Requests

\* Signing out: no token, the same bag, and a handle less.
LEMMA SignOutFacts ==
    ASSUME IInv, NEW t \in Tabs, SignOut(t), tab[t].request.moved = {}
    PROVE  /\ \E u \in State : /\ tab' = [tab EXCEPT ![t] = u] /\ Knows(u)
                               /\ Remaining(u) = Remaining(tab[t]) /\ u.token = 0
           /\ store' \subseteq store
           /\ tab[t].token # 0 => tab[t].token \notin store'
<1>s. PICK s : s = tab[t]  OBVIOUS
<1>1. s \in State /\ Knows(s) /\ s.request.moved = {}  BY <1>s, OfTab
<1>2. PICK u : u = [s EXCEPT !.token = 0, !.handle = 0, !.ignore = TRUE, !.command = [value |-> 0], !.request = NoRequest]
  OBVIOUS
<1>3. tab' = [tab EXCEPT ![t] = u] /\ store' = store \ {IF s.handle # 0 THEN s.handle ELSE s.snapshot}
  <2>1. [[s EXCEPT !.token = 0, !.handle = 0, !.ignore = TRUE, !.command = [value |-> 0]] EXCEPT !.request = NoRequest] = u
    BY <1>1, <1>2 DEF State
  <2>2. RequestCookieDelete(s).state = [s EXCEPT !.token = 0, !.handle = 0, !.ignore = TRUE, !.command = [value |-> 0]]
    BY DEF RequestCookieDelete
  <2>3. RequestCookieDelete(s).revoked = IF s.handle # 0 THEN s.handle ELSE s.snapshot  BY DEF RequestCookieDelete
  <2>4. QED  BY <1>s, <2>1, <2>2, <2>3 DEF SignOut
<1>4. [value |-> 0] \in [value : Nat] /\ [value |-> 0].value = 0  OBVIOUS
<1>5. u \in State /\ u.token = 0 /\ u.handle = 0 /\ u.snapshot = s.snapshot /\ u.guest = s.guest
      /\ u.request = NoRequest /\ u.command = [value |-> 0]
  BY <1>1, <1>2, <1>4, NoRequestFacts DEF State
<1>6. Knows(u)  BY <1>1, <1>4, <1>5, NoRequestFacts DEF Knows, Handles
<1>7. Remaining(u) = Remaining(s)  BY <1>1, <1>5, NoRequestFacts DEF Remaining
<1>8. s.token # 0 => s.token \notin store'  BY <1>1, <1>3 DEF Knows
<1>9. QED  BY <1>s, <1>3, <1>5, <1>6, <1>7, <1>8

LEMMA SignOutStep ==
    ASSUME IInv, NEW t \in Tabs, SignOut(t), tab[t].request.moved = {}, Grow, AccountsOK', TokensOK',
           UNCHANGED <<cookie, cart, mailed, bag>>
    PROVE  IInv'
<1>1. PICK u \in State : tab' = [tab EXCEPT ![t] = u] /\ Knows(u) /\ Remaining(u) = Remaining(tab[t])  BY SignOutFacts
<1>2. store' \subseteq store  BY SignOutFacts
<1>3. StoreOK'  BY <1>2 DEF IInv, StoreOK, Grow, Handles
<1>4. BagOK'  BY <1>1, SameBag DEF IInv
<1>5. QED  BY <1>1, <1>3, <1>4, TabMoves

LEMMA IdleFacts == ASSUME NEW t, Idle(t) PROVE tab[t].request = NoRequest /\ tab[t].request.moved = {}
BY NoRequestFacts DEF Idle

LEMMA CheckStep == ASSUME IInv, NEW t \in Tabs, Check(t) PROVE IInv'
<1>1. SignOut(t) /\ UNCHANGED <<account, token, changes, cookie, cart, mailed, bag>> /\ tab[t].request.moved = {}
  BY IdleFacts DEF Check
<1>2. AccountsOK' /\ TokensOK' /\ Grow  BY <1>1, SameRows
<1>3. QED  BY <1>1, <1>2, SignOutStep

LEMMA RestoreStep == ASSUME IInv, NEW t \in Tabs, Restore(t) PROVE IInv'
<1>s. PICK s : s = tab[t]  OBVIOUS
<1>1. /\ UNCHANGED <<account, token, changes, cookie, cart, mailed, bag>> /\ s.request = NoRequest
      /\ s.snapshot # 0 /\ tab[t].request.moved = {}
  BY <1>s, IdleFacts DEF Restore
<1>2. AccountsOK' /\ TokensOK' /\ Grow  BY <1>1, SameRows
<1>3. CASE SignOut(t)  BY <1>1, <1>2, <1>3, SignOutStep
<1>4. CASE tab' = [tab EXCEPT ![t].token = tab[t].snapshot, ![t].handle = tab[t].snapshot] /\ UNCHANGED store
  <2>1. s \in State /\ Knows(s)  BY <1>s, OfTab
  <2>2. PICK u : u = [s EXCEPT !.token = s.snapshot, !.handle = s.snapshot]  OBVIOUS
  <2>3. tab \in [Tabs -> State]  BY DEF IInv, TabsOK
  <2>4. tab' = [tab EXCEPT ![t] = u]  BY <1>s, <1>4, <2>1, <2>2, <2>3 DEF State
  <2>5. u \in State /\ u.token = s.snapshot /\ u.handle = s.snapshot /\ u.snapshot = s.snapshot /\ u.guest = s.guest
        /\ u.request = s.request /\ u.command = s.command
    BY <2>1, <2>2 DEF State
  <2>6. Knows(u)  BY <2>1, <2>5 DEF Knows
  <2>7. Remaining(u) = Remaining(tab[t])  BY <1>s, <2>5 DEF Remaining
  <2>8. BagOK'  BY <1>1, <2>4, <2>7, SameBag DEF IInv
  <2>9. StoreOK'  BY <1>1, <1>2, <1>4, SameStore
  <2>10. QED  BY <1>1, <1>2, <2>4, <2>5, <2>6, <2>8, <2>9, TabMoves
<1>5. QED  BY <1>3, <1>4 DEF Restore

LEMMA SyncStep == ASSUME IInv, NEW t \in Tabs, NEW answered \in BOOLEAN, Sync(t, answered) PROVE IInv'
<1>s. PICK s : s = tab[t]  OBVIOUS
<1>1. s.command # None /\ cookie' = s.command.value /\ UNCHANGED <<account, token, store, cart, mailed, bag, changes>>
  BY <1>s DEF Sync
<1>2. AccountsOK' /\ TokensOK' /\ Grow  BY <1>1, SameRows
<1>3. s \in State /\ Knows(s)  BY <1>s, OfTab
<1>4. PICK command : command = IF answered THEN None ELSE s.command  OBVIOUS
<1>5. PICK u : u = [s EXCEPT !.command = command]  OBVIOUS
<1>6. tab' = [tab EXCEPT ![t] = u]  BY <1>s, <1>4, <1>5 DEF Sync
<1>7. command \in {None} \cup [value : Nat]  BY <1>3, <1>4 DEF State
<1>8. u \in State /\ u.token = s.token /\ u.handle = s.handle /\ u.snapshot = s.snapshot /\ u.guest = s.guest
      /\ u.request = s.request /\ u.command = command
  BY <1>3, <1>5, <1>7 DEF State
<1>9. Knows(u)  BY <1>3, <1>4, <1>8 DEF Knows
<1>10. Remaining(u) = Remaining(tab[t])  BY <1>s, <1>8 DEF Remaining
<1>11. BagOK'  BY <1>1, <1>6, <1>10, SameBag DEF IInv
<1>12. StoreOK'  BY <1>1, <1>2, <1>3 DEF IInv, StoreOK, Knows, Handles
<1>13. QED  BY <1>1, <1>2, <1>6, <1>8, <1>9, <1>11, <1>12, TabMoves

LEMMA LoadStep == ASSUME IInv, NEW t \in Tabs, Load(t) PROVE IInv'
<1>s. PICK s : s = tab[t]  OBVIOUS
<1>u. PICK u : u = Loaded(cookie)  OBVIOUS
<1>1. /\ UNCHANGED <<account, token, store, cookie, cart, mailed, changes>> /\ s.request.moved = {}
      /\ tab' = [tab EXCEPT ![t] = u]
      /\ bag' = [p \in Products |-> IF p \in s.guest THEN [bag[p] EXCEPT !.picked = @ - 1] ELSE bag[p]]
  BY <1>s, <1>u, IdleFacts DEF Load
<1>2. AccountsOK' /\ TokensOK' /\ Grow  BY <1>1, SameRows
<1>3. cookie \in Handles /\ cookie \in Nat
  <2>1. token \in Seq(Token)  BY DEF IInv, TokensOK
  <2>2. DOMAIN token \subseteq Nat  BY <2>1
  <2>3. QED  BY <2>2 DEF IInv, StoreOK, Handles
<1>4. u \in State /\ u.snapshot = cookie /\ u.token = 0 /\ u.command = None /\ u.guest = {} /\ u.request = NoRequest
  BY <1>u, <1>3, NoRequestFacts DEF Loaded, State
<1>5. Knows(u)  BY <1>3, <1>4, NoRequestFacts DEF Knows, Handles
<1>6. Remaining(u) = {} /\ Remaining(s) = s.guest  BY <1>1, <1>4 DEF Remaining
<1>7. TabsOK /\ BagOK /\ cart' = cart  BY <1>1 DEF IInv
<1>8. ASSUME NEW p \in Products PROVE Counted(p)' /\ bag'[p] \in [picked : Nat, unanswered : Nat]
  <2>1. InCarts(p)' = InCarts(p)  BY <1>7 DEF InCarts
  <2>2. PICK x : x = bag[p]  OBVIOUS
  <2>3. x \in [picked : Nat, unanswered : Nat]  BY <1>7, <2>2 DEF BagOK
  <2>4. CASE p \in s.guest
    <3>1. bag'[p] = [x EXCEPT !.picked = x.picked - 1]  BY <1>1, <2>2, <2>3, <2>4
    <3>2. bag'[p].picked = x.picked - 1 /\ bag'[p].unanswered = x.unanswered  BY <2>3, <3>1
    <3>3. Dropped(p, t, u)  BY <1>s, <1>6, <2>1, <2>2, <2>4, <3>2 DEF Dropped
    <3>4. Counted(p)' /\ x.picked # 0  BY <1>1, <1>7, <2>2, <3>3, CountedStep
    <3>5. x.picked - 1 \in Nat  BY <2>3, <3>4
    <3>6. QED  BY <2>3, <3>1, <3>4, <3>5
  <2>5. CASE p \notin s.guest
    <3>1. bag'[p] = bag[p]  BY <1>1, <2>5
    <3>2. Same(p, t, u)  BY <1>s, <1>6, <2>1, <2>5, <3>1 DEF Same
    <3>3. QED  BY <1>1, <1>7, <2>2, <2>3, <3>1, <3>2, CountedStep
  <2>6. QED  BY <2>4, <2>5
<1>9. BagOK'
  <2>1. bag' = [p \in Products |-> bag'[p]]  BY <1>1
  <2>2. bag' \in [Products -> [picked : Nat, unanswered : Nat]]  BY <1>8, <2>1
  <2>3. QED  BY <1>7, <1>8, <2>2 DEF BagOK
<1>10. StoreOK'  BY <1>1, <1>2, SameStore
<1>11. QED  BY <1>1, <1>2, <1>4, <1>5, <1>9, <1>10, TabMoves

OthersStay(p, t, u) == \A q \in Products : q # p => (q \in Remaining(u) <=> q \in Remaining(tab[t]))

\* A product into the bag, or out of it.
LEMMA OneProduct ==
    ASSUME TabsOK, BagOK, NEW t \in Tabs, NEW u, tab' = [tab EXCEPT ![t] = u], cart' = cart,
           NEW p \in Products, NEW n \in Int, bag' = [bag EXCEPT ![p].picked = n],
           OthersStay(p, t, u),
           \/ n = bag[p].picked + 1 /\ p \in Remaining(u) /\ p \notin Remaining(tab[t])
           \/ n = bag[p].picked - 1 /\ p \notin Remaining(u) /\ p \in Remaining(tab[t])
    PROVE  BagOK'
<1>1. bag \in [Products -> [picked : Nat, unanswered : Nat]]  BY DEF BagOK
<1>2. PICK x : x = bag[p]  OBVIOUS
<1>3. PICK y : y = [x EXCEPT !.picked = n]  OBVIOUS
<1>4. x \in [picked : Nat, unanswered : Nat]  BY <1>1, <1>2
<1>5. y.picked = n /\ y.unanswered = x.unanswered  BY <1>3, <1>4
<1>6. bag' = [bag EXCEPT ![p] = y]  BY <1>2, <1>3
<1>7. \A q : InCarts(q)' = InCarts(q)  BY DEF InCarts
<1>8. bag'[p] = y /\ \A q \in Products : q # p => bag'[q] = bag[q]  BY <1>1, <1>6
<1>9. ASSUME NEW q \in Products PROVE Counted(q)'
  <2>1. CASE q = p
    <3>1. Picked(p, t, u) \/ Dropped(p, t, u)  BY <1>2, <1>5, <1>7, <1>8 DEF Picked, Dropped
    <3>2. QED  BY <2>1, <3>1, CountedStep
  <2>2. CASE q # p
    <3>1. Same(q, t, u)  BY <1>7, <1>8, <2>2 DEF Same, OthersStay
    <3>2. QED  BY <3>1, CountedStep
  <2>3. QED  BY <2>1, <2>2
<1>10. n \in Nat
  <2>1. CASE n = x.picked + 1  BY <1>4, <2>1
  <2>2. CASE n = bag[p].picked - 1 /\ p \notin Remaining(u) /\ p \in Remaining(tab[t])
    <3>1. Dropped(p, t, u)  BY <1>2, <1>5, <1>7, <1>8, <2>2 DEF Dropped
    <3>2. x.picked # 0  BY <1>2, <3>1, CountedStep
    <3>3. QED  BY <1>2, <1>4, <2>2, <3>2
  <2>3. QED  BY <1>2, <2>1, <2>2
<1>11. y \in [picked : Nat, unanswered : Nat]  BY <1>3, <1>4, <1>10
<1>12. bag' \in [Products -> [picked : Nat, unanswered : Nat]]  BY <1>1, <1>6, <1>11
<1>13. QED  BY <1>9, <1>12 DEF BagOK

LEMMA PickStep == ASSUME IInv, NEW t \in Tabs, NEW p \in Products, Pick(t, p) \/ Drop(t, p) PROVE IInv'
<1>s. PICK s : s = tab[t]  OBVIOUS
<1>1. s \in State /\ Knows(s) /\ s.request.moved = {} /\ s.request = NoRequest
  BY <1>s, OfTab, IdleFacts DEF Pick, Drop
<1>2. UNCHANGED <<account, token, store, cookie, cart, mailed, changes>>  BY DEF Pick, Drop
<1>3. AccountsOK' /\ TokensOK' /\ Grow  BY <1>2, SameRows
<1>4. StoreOK'  BY <1>2, <1>3, SameStore
<1>5. TabsOK /\ BagOK /\ bag \in [Products -> [picked : Nat, unanswered : Nat]]  BY DEF IInv, BagOK
<1>6. bag[p].picked \in Nat  BY <1>5
<1>7. ASSUME NEW guest \in SUBSET Products PROVE \E u \in State : /\ u = [s EXCEPT !.guest = guest] /\ Knows(u)
                                                                 /\ Remaining(u) = guest
  <2>1. PICK u : u = [s EXCEPT !.guest = guest]  OBVIOUS
  <2>2. u \in State /\ u.token = s.token /\ u.handle = s.handle /\ u.snapshot = s.snapshot /\ u.guest = guest
        /\ u.request = s.request /\ u.command = s.command
    BY <1>1, <2>1 DEF State
  <2>3. Knows(u)  BY <1>1, <2>2, NoRequestFacts DEF Knows
  <2>4. Remaining(u) = guest  BY <1>1, <2>2 DEF Remaining
  <2>5. QED  BY <2>1, <2>2, <2>3, <2>4
<1>8. Remaining(s) = s.guest /\ s.guest \in SUBSET Products  BY <1>1 DEF Remaining, State
<1>9. CASE Pick(t, p)
  <2>1. PICK u \in State : u = [s EXCEPT !.guest = s.guest \cup {p}] /\ Knows(u) /\ Remaining(u) = s.guest \cup {p}
    BY <1>7, <1>8
  <2>2. p \notin s.guest /\ bag' = [bag EXCEPT ![p].picked = @ + 1] /\ tab' = [tab EXCEPT ![t] = u]
    BY <1>s, <1>1, <1>9, <2>1 DEF Pick, State
  <2>3. PICK n \in Int : n = bag[p].picked + 1  BY <1>6
  <2>4. bag' = [bag EXCEPT ![p].picked = n]  BY <1>5, <2>2, <2>3
  <2>5. p \in Remaining(u) /\ p \notin Remaining(tab[t]) /\ OthersStay(p, t, u)
    BY <1>s, <1>8, <2>1, <2>2 DEF OthersStay
  <2>6. cart' = cart  BY <1>2
  <2>7. BagOK'  BY <1>5, <2>2, <2>3, <2>4, <2>5, <2>6, OneProduct
  <2>8. QED  BY <1>2, <1>3, <1>4, <2>1, <2>2, <2>7, TabMoves
<1>10. CASE Drop(t, p)
  <2>1. PICK u \in State : u = [s EXCEPT !.guest = s.guest \ {p}] /\ Knows(u) /\ Remaining(u) = s.guest \ {p}
    BY <1>7, <1>8
  <2>2. p \in s.guest /\ bag' = [bag EXCEPT ![p].picked = @ - 1] /\ tab' = [tab EXCEPT ![t] = u]
    BY <1>s, <1>1, <1>10, <2>1 DEF Drop, State
  <2>3. PICK n \in Int : n = bag[p].picked - 1  BY <1>6
  <2>4. bag' = [bag EXCEPT ![p].picked = n]  BY <1>5, <2>2, <2>3
  <2>5. p \notin Remaining(u) /\ p \in Remaining(tab[t]) /\ OthersStay(p, t, u)
    BY <1>s, <1>8, <2>1, <2>2 DEF OthersStay
  <2>6. cart' = cart  BY <1>2
  <2>7. BagOK'  BY <1>5, <2>2, <2>3, <2>4, <2>5, <2>6, OneProduct
  <2>8. QED  BY <1>2, <1>3, <1>4, <2>1, <2>2, <2>7, TabMoves
<1>11. QED  BY <1>9, <1>10
-----------------------------------------------------------------------------
(* A tab's request in flight.                                               *)

\* What a request in flight has found, as it is after the step.
Found(request) ==
    /\ request.step \in {"correct", "wrong", "change"} =>
         request.account \in Accounts /\ account'[request.account] # None
    /\ request.step = "correct" => request.read \in AccountRows
    /\ request.step \in {"me", "transfer", "persist"} =>
         request.account \in Accounts /\ request.token \in DOMAIN token'
    /\ request.step \notin {"transfer", "persist"} => request.moved = {}

LEMMA RequestStep ==
    ASSUME IInv, Grow, AccountsOK', TokensOK', UNCHANGED <<store, cookie, cart, mailed, bag>>,
           NEW t \in Tabs, NEW request \in Requests, tab' = [tab EXCEPT ![t].request = request],
           request.moved = tab[t].request.moved, Found(request)
    PROVE  IInv'
<1>s. PICK s : s = tab[t]  OBVIOUS
<1>1. s \in State /\ Knows(s)  BY <1>s, OfTab
<1>2. PICK u : u = [s EXCEPT !.request = request]  OBVIOUS
<1>3. u \in State /\ u.token = s.token /\ u.handle = s.handle /\ u.snapshot = s.snapshot /\ u.guest = s.guest
      /\ u.request = request /\ u.command = s.command
  BY <1>1, <1>2 DEF State
<1>4. tab' = [tab EXCEPT ![t] = u]  BY <1>s, <1>2
<1>5. Knows(s)'  BY <1>1, StillKnows
<1>6. Knows(u)'  BY <1>s, <1>3, <1>5 DEF Knows, Found
<1>7. TabsOK'  BY <1>3, <1>4, <1>6, TabStep DEF IInv
<1>8. Remaining(u) = Remaining(tab[t])  BY <1>s, <1>3 DEF Remaining
<1>9. BagOK'  BY <1>4, <1>8, SameBag DEF IInv
<1>10. StoreOK'  BY SameStore
<1>11. MailOK'  BY MailStays DEF IInv
<1>12. QED  BY <1>7, <1>9, <1>10, <1>11 DEF IInv

LEMMA DoneStep ==
    ASSUME IInv, Grow, AccountsOK', TokensOK', UNCHANGED <<store, cookie, cart, mailed, bag>>,
           NEW t \in Tabs, Done(t), tab[t].request.moved = {}
    PROVE  IInv'
<1>1. Found(NoRequest)  BY NoRequestFacts DEF Found
<1>2. QED  BY <1>1, NoRequestFacts, RequestStep DEF Done

LEMMA BeginLoginStep ==
    ASSUME BoundsAssumption, IInv, NEW t \in Tabs, NEW a \in Accounts, NEW correct \in BOOLEAN, BeginLogin(t, a, correct)
    PROVE  IInv'
<1>1. account[a] # None /\ UNCHANGED <<account, token, store, cookie, cart, bag, mailed, changes>> /\ tab[t].request.moved = {}
  BY IdleFacts DEF BeginLogin, browser
<1>2. account[a] \in AccountRows  BY <1>1, RowFacts DEF IInv
<1>3. PICK request : request = [NoRequest EXCEPT !.account = a, !.read = account[a],
                                                 !.step = IF correct THEN "correct" ELSE "wrong"]
  OBVIOUS
<1>4. tab' = [tab EXCEPT ![t].request = request]  BY <1>3 DEF BeginLogin
<1>5. request \in Requests /\ request.account = a /\ request.read = account[a] /\ request.moved = {}
      /\ request.step \in {"correct", "wrong"}
  BY <1>2, <1>3, NoRequestFacts DEF Requests
<1>6. AccountsOK' /\ TokensOK' /\ Grow  BY <1>1, SameRows
<1>7. Found(request)  BY <1>1, <1>2, <1>5 DEF Found
<1>8. QED  BY <1>1, <1>4, <1>5, <1>6, <1>7, RequestStep

LEMMA LoginFailureStep == ASSUME BoundsAssumption, IInv, NEW t \in Tabs, LoginFailure(t) PROVE IInv'
<1>a. PICK a : a = tab[t].request.account  OBVIOUS
<1>r. PICK row : row = account[a]  OBVIOUS
<1>k. PICK next : next = (IF row.lock = "past" THEN 0 ELSE row.failed) + 1  OBVIOUS
<1>n. PICK new : new = [row EXCEPT !.failed = next, !.lock = IF next >= Limit THEN "until" ELSE "none"]  OBVIOUS
<1>1. /\ tab[t].request.step = "wrong" /\ Set(a, new) /\ Done(t)
      /\ UNCHANGED <<token, store, cookie, cart, bag, mailed>>
  BY <1>a, <1>r, <1>k, <1>n DEF LoginFailure, Waits, browser
<1>2. a \in Accounts /\ row # None /\ tab[t].request.moved = {}  BY <1>a, <1>r, <1>1, OfTab DEF Knows
<1>3. row \in Rows /\ row.version \in Nat /\ row.changed \in Nat  BY <1>r, <1>2, RowFacts DEF IInv, AccountRows
<1>4. new \in Rows /\ new.version = row.version /\ new.changed = row.changed
  <2>1. Limit \in Nat \ {0}  BY DEF BoundsAssumption
  <2>2. row \in AccountRows /\ (row.link # None => row.link.changed = row.changed)  BY <1>3 DEF Rows
  <2>3. row.failed \in Nat  BY <2>2 DEF AccountRows
  <2>4. next \in Nat  BY <1>k, <2>3
  <2>5. PICK lock \in {"none", "until"} : lock = IF next >= Limit THEN "until" ELSE "none"  OBVIOUS
  <2>6. new = [row EXCEPT !.failed = next, !.lock = lock]  BY <1>n, <2>5
  <2>7. new \in AccountRows /\ new.failed = next /\ new.lock = lock /\ new.link = row.link
        /\ new.version = row.version /\ new.changed = row.changed
    BY <2>2, <2>4, <2>6 DEF AccountRows
  <2>8. QED  BY <2>1, <2>2, <2>4, <2>5, <2>7 DEF Rows
<1>5. row.version <= new.version /\ new.changed <= row.changed + 1  BY <1>3, <1>4
<1>6. AccountsOK' /\ TokensOK' /\ Grow  BY <1>r, <1>1, <1>2, <1>4, <1>5, OneChange
<1>7. QED  BY <1>1, <1>2, <1>6, DoneStep

\* A token more, of an account whose row keeps its version.
LEMMA TokenIssued ==
    ASSUME BoundsAssumption, AccountsOK, TokensOK, NEW a \in Accounts, NEW row \in Rows, account[a] # None,
           account' = [account EXCEPT ![a] = row], row.version = account[a].version, row.changed <= changes,
           changes' = changes + 1, NEW x \in Token, x.account = a, x.version = row.version, ~x.over,
           token' = Append(token, x)
    PROVE  /\ AccountsOK' /\ TokensOK' /\ Grow
           /\ Len(token) + 1 \in DOMAIN token' /\ Len(token) + 1 \in Nat
<1>1. account \in [Accounts -> {None} \cup Rows] /\ changes \in Nat /\ None \notin Rows  BY RowFacts DEF AccountsOK
<1>2. row.changed \in Nat /\ row.version \in Nat  BY DEF Rows, AccountRows
<1>3. account' \in [Accounts -> {None} \cup Rows] /\ account'[a] = row /\ \A b \in Accounts : b # a => account'[b] = account[b]
  BY <1>1
<1>4. AccountsOK'
  <2>1. ASSUME NEW b \in Accounts, account'[b] # None PROVE account'[b].changed <= changes'
    <3>1. CASE b = a  BY <1>1, <1>2, <1>3, <3>1
    <3>2. CASE b # a
      <4>1. account[b].changed \in Nat /\ account[b].changed <= changes  BY <1>3, <2>1, <3>2, RowFacts DEF AccountRows, AccountsOK
      <4>2. QED  BY <1>1, <1>3, <3>2, <4>1
    <3>3. QED  BY <3>1, <3>2
  <2>2. changes' \in Nat  BY <1>1
  <2>3. QED  BY <1>3, <2>1, <2>2 DEF AccountsOK
<1>5. token \in Seq(Token)  BY DEF TokensOK
<1>6. /\ token' \in Seq(Token) /\ Len(token) \in Nat /\ Len(token') = Len(token) + 1
      /\ \A n \in 1..Len(token) : token'[n] = token[n]
      /\ token'[Len(token) + 1] = x
  BY <1>5, AppendProperties
<1>7. DOMAIN token = 1..Len(token) /\ DOMAIN token' = 1..(Len(token) + 1)  BY <1>5, <1>6
<1>8. Len(token) + 1 \in DOMAIN token' /\ Len(token) + 1 \in Nat /\ DOMAIN token \subseteq DOMAIN token'  BY <1>6, <1>7
<1>9. ASSUME NEW n \in DOMAIN token', NEW y, y = token'[n]
      PROVE  /\ account'[y.account] # None /\ y.version <= account'[y.account].version
             /\ y.over => y.version < account'[y.account].version
  <2>1. CASE n = Len(token) + 1
    <3>1. y = x  BY <1>6, <1>9, <2>1
    <3>2. QED  BY <1>1, <1>2, <1>3, <3>1
  <2>2. CASE n # Len(token) + 1
    <3>1. n \in DOMAIN token /\ y = token[n]  BY <1>6, <1>7, <1>9, <2>2
    <3>2. /\ account[y.account] # None /\ y.version <= account[y.account].version
          /\ y.over => y.version < account[y.account].version
      BY <3>1 DEF TokensOK
    <3>3. y \in Token  BY <1>5, <3>1
    <3>4. y.account \in Accounts  BY <3>3 DEF Token
    <3>5. CASE y.account = a  BY <1>1, <1>3, <3>2, <3>5
    <3>6. CASE y.account # a  BY <1>3, <3>2, <3>4, <3>6
    <3>7. QED  BY <3>5, <3>6
  <2>3. QED  BY <2>1, <2>2
<1>10. TokensOK'  BY <1>6, <1>9 DEF TokensOK
<1>11. Grow  BY <1>1, <1>3, <1>8 DEF Grow
<1>12. QED  BY <1>4, <1>8, <1>10, <1>11

LEMMA LoginSuccessStep == ASSUME BoundsAssumption, IInv, NEW t \in Tabs, LoginSuccess(t) PROVE IInv'
<1>q. PICK q : q = tab[t].request  OBVIOUS
<1>r. PICK row : row = account[q.account]  OBVIOUS
<1>1. q.step = "correct" /\ UNCHANGED <<store, cookie, cart, mailed, bag>>  BY <1>q DEF LoginSuccess, Waits
<1>2. q \in Requests /\ q.account \in Accounts /\ row # None /\ q.read \in AccountRows /\ q.moved = {}
  BY <1>q, <1>r, <1>1, OfTab DEF Knows
<1>3. CASE row.active
  <2>1. PICK password : password = IF q.read.outdated THEN q.read.password ELSE row.password  OBVIOUS
  <2>2. PICK outdated : outdated = IF q.read.outdated THEN FALSE ELSE row.outdated  OBVIOUS
  <2>3. PICK new : new = [row EXCEPT !.failed = 0, !.lock = "none", !.password = password, !.outdated = outdated]  OBVIOUS
  <2>4. PICK x : x = [account |-> q.account, version |-> row.version, expired |-> FALSE, over |-> FALSE]  OBVIOUS
  <2>5. PICK request : request = [q EXCEPT !.step = "me", !.token = Len(token) + 1]  OBVIOUS
  <2>6. row \in Rows /\ row \in AccountRows /\ row.version \in Nat /\ row.changed \in Nat /\ row.changed <= changes
    BY <1>r, <1>2, RowFacts DEF IInv, AccountRows, AccountsOK
  <2>7. new \in Rows /\ new.version = row.version /\ new.changed = row.changed
    <3>1. Limit \in Nat \ {0}  BY DEF BoundsAssumption
    <3>2. row.link # None => row.link.changed = row.changed  BY <2>6 DEF Rows
    <3>3. password \in Nat /\ outdated \in BOOLEAN  BY <1>2, <2>1, <2>2, <2>6 DEF AccountRows
    <3>4. new \in AccountRows /\ new.failed = 0 /\ new.lock = "none" /\ new.link = row.link
          /\ new.version = row.version /\ new.changed = row.changed
      BY <2>3, <2>6, <3>3 DEF AccountRows
    <3>5. QED  BY <3>1, <3>2, <3>4 DEF Rows
  <2>8. Set(q.account, new) /\ token' = Append(token, x)
        /\ tab' = [tab EXCEPT ![t].request = [@ EXCEPT !.step = "me", !.token = Len(token) + 1]]
    <3>1. new = [row EXCEPT !.failed = 0, !.lock = "none", !.password = IF q.read.outdated THEN q.read.password ELSE @,
                            !.outdated = IF q.read.outdated THEN FALSE ELSE @]
      BY <2>1, <2>2, <2>3
    <3>2. QED  BY <1>q, <1>r, <1>3, <2>4, <3>1 DEF LoginSuccess
  <2>9. x \in Token /\ x.account = q.account /\ x.version = new.version /\ ~x.over
    BY <1>2, <2>4, <2>6, <2>7 DEF Token
  <2>10. AccountsOK' /\ TokensOK' /\ Grow /\ Len(token) + 1 \in DOMAIN token' /\ Len(token) + 1 \in Nat
    <3>1. AccountsOK /\ TokensOK /\ account' = [account EXCEPT ![q.account] = new] /\ changes' = changes + 1
      BY <2>8 DEF IInv, Set
    <3>2. account[q.account] # None /\ new.version = account[q.account].version /\ new.changed <= changes
      BY <1>r, <1>2, <2>6, <2>7
    <3>3. QED  BY <1>2, <2>7, <2>8, <2>9, <3>1, <3>2, TokenIssued
  <2>11. request \in Requests /\ request.step = "me" /\ request.account = q.account /\ request.token = Len(token) + 1
         /\ request.moved = {}
    BY <1>2, <2>5, <2>10 DEF Requests
  <2>12. tab' = [tab EXCEPT ![t].request = request]  BY <1>q, <2>5, <2>8
  <2>13. Found(request)  BY <1>2, <2>10, <2>11 DEF Found
  <2>14. QED  BY <1>q, <1>1, <1>2, <2>10, <2>11, <2>12, <2>13, RequestStep
<1>4. CASE ~row.active
  <2>1. Done(t) /\ UNCHANGED <<account, token, changes>>  BY <1>q, <1>r, <1>4 DEF LoginSuccess
  <2>2. AccountsOK' /\ TokensOK' /\ Grow  BY <2>1, SameRows
  <2>3. QED  BY <1>q, <1>1, <1>2, <2>1, <2>2, DoneStep
<1>5. QED  BY <1>3, <1>4

LEMMA MeStep == ASSUME IInv, NEW t \in Tabs, Me(t) PROVE IInv'
<1>q. PICK q : q = tab[t].request  OBVIOUS
<1>1. q.step = "me" /\ UNCHANGED <<account, token, store, cookie, cart, bag, mailed, changes>> /\ (Request(t, "transfer") \/ Done(t))
  BY <1>q DEF Me, Waits, browser
<1>2. q \in Requests /\ q.account \in Accounts /\ q.token \in DOMAIN token /\ q.moved = {}  BY <1>q, <1>1, OfTab DEF Knows
<1>3. AccountsOK' /\ TokensOK' /\ Grow  BY <1>1, SameRows
<1>4. CASE Request(t, "transfer")
  <2>1. PICK request : request = [q EXCEPT !.step = "transfer"]  OBVIOUS
  <2>2. request \in Requests /\ request.step = "transfer" /\ request.account = q.account /\ request.token = q.token
        /\ request.moved = {}
    BY <1>2, <2>1 DEF Requests
  <2>3. tab' = [tab EXCEPT ![t].request = request]  BY <1>q, <1>4, <2>1 DEF Request
  <2>4. Found(request)  BY <1>1, <1>2, <2>2 DEF Found
  <2>5. QED  BY <1>q, <1>1, <1>2, <1>3, <2>2, <2>3, <2>4, RequestStep
<1>5. CASE Done(t)  BY <1>q, <1>1, <1>2, <1>3, <1>5, DoneStep
<1>6. QED  BY <1>1, <1>4, <1>5

InBag(moved, t) == moved \subseteq tab[t].guest

\* The tab that moves a product: what is left of its bag, and what it knows.
LEMMA TransferTab ==
    ASSUME IInv, NEW t \in Tabs, tab[t].request.step = "transfer", NEW request \in Requests,
           request.step \in {"transfer", "persist"}, request.account = tab[t].request.account,
           request.token = tab[t].request.token, InBag(request.moved, t), tab' = [tab EXCEPT ![t].request = request]
    PROVE  \E u \in State : /\ tab' = [tab EXCEPT ![t] = u] /\ Knows(u)
                            /\ Remaining(u) = tab[t].guest \ request.moved
<1>s. PICK s : s = tab[t]  OBVIOUS
<1>q. PICK q : q = tab[t].request  OBVIOUS
<1>1. s \in State /\ Knows(s) /\ s.request = q  BY <1>s, <1>q, OfTab
<1>2. PICK u : u = [s EXCEPT !.request = request]  OBVIOUS
<1>3. u \in State /\ u.token = s.token /\ u.handle = s.handle /\ u.snapshot = s.snapshot /\ u.guest = s.guest
      /\ u.request = request /\ u.command = s.command
  BY <1>1, <1>2 DEF State
<1>4. tab' = [tab EXCEPT ![t] = u]  BY <1>s, <1>2
<1>5. Knows(u)  BY <1>s, <1>q, <1>1, <1>3 DEF Knows, InBag
<1>6. Remaining(u) = tab[t].guest \ request.moved  BY <1>s, <1>3 DEF Remaining
<1>7. QED  BY <1>3, <1>4, <1>5, <1>6

LEMMA TransferStep ==
    ASSUME IInv, NEW t \in Tabs, NEW p \in Products, NEW outcome \in {"added", "refused", "unanswered"},
           Transfer(t, p, outcome)
    PROVE  IInv'
<1>q. PICK q : q = tab[t].request  OBVIOUS
<1>a. PICK a : a = q.account  OBVIOUS
<1>1. /\ q.step = "transfer" /\ p \in Left(t) /\ UNCHANGED <<account, token, store, cookie, mailed, changes>>
      /\ cart' = IF outcome = "refused" THEN cart ELSE [cart EXCEPT ![a][p] = @ + 1]
      /\ bag' = IF outcome = "unanswered" THEN [bag EXCEPT ![p].unanswered = @ + 1] ELSE bag
      /\ tab' = IF outcome = "added" THEN [tab EXCEPT ![t].request.moved = @ \cup {p}]
                                     ELSE [tab EXCEPT ![t].request.step = "persist"]
  BY <1>q, <1>a DEF Transfer, Waits
<1>2. q \in Requests /\ a \in Accounts /\ q.moved \subseteq tab[t].guest /\ Knows(tab[t])
  BY <1>q, <1>a, <1>1, OfTab DEF Knows
<1>3. p \in tab[t].guest /\ p \notin q.moved /\ Remaining(tab[t]) = tab[t].guest \ q.moved
  BY <1>q, <1>1 DEF Left, Remaining
<1>4. AccountsOK' /\ TokensOK' /\ Grow  BY <1>1, SameRows
<1>5. StoreOK'  BY <1>1, <1>4, SameStore
<1>6. TabsOK /\ BagOK /\ cart \in [Accounts -> [Products -> Nat]] /\ bag \in [Products -> [picked : Nat, unanswered : Nat]]
  BY DEF IInv, BagOK
<1>7. q.moved \in SUBSET Products /\ {p} \cup q.moved \in SUBSET Products  BY <1>2 DEF Requests
<1>8. CASE outcome = "added"
  <2>1. PICK request : request = [q EXCEPT !.moved = q.moved \cup {p}]  OBVIOUS
  <2>2. request \in Requests /\ request.step = "transfer" /\ request.account = q.account /\ request.token = q.token
        /\ request.moved = q.moved \cup {p}
    BY <1>1, <1>2, <1>7, <2>1 DEF Requests
  <2>3. tab' = [tab EXCEPT ![t].request = request]  BY <1>q, <1>1, <1>8, <2>1
  <2>4. InBag(request.moved, t)  BY <1>2, <1>3, <2>2 DEF InBag
  <2>5. PICK u \in State : /\ tab' = [tab EXCEPT ![t] = u] /\ Knows(u) /\ Remaining(u) = tab[t].guest \ request.moved
    <3>1. tab[t].request.step = "transfer" /\ request.step \in {"transfer", "persist"}
          /\ request.account = tab[t].request.account /\ request.token = tab[t].request.token /\ request \in Requests
      BY <1>q, <1>1, <2>2
    <3>2. \E u \in State : /\ tab' = [tab EXCEPT ![t] = u] /\ Knows(u)
                           /\ Remaining(u) = tab[t].guest \ request.moved
      BY ONLY IInv, t \in Tabs, <2>3, <2>4, <3>1, TransferTab
    <3>3. QED  BY <3>2
  <2>6. cart' = [cart EXCEPT ![a][p] = @ + 1] /\ bag' = bag  BY <1>1, <1>8
  <2>7. /\ cart' \in [Accounts -> [Products -> Nat]]
        /\ \E piece : piece \notin InCarts(p) /\ InCarts(p)' = InCarts(p) \cup {piece}
        /\ \A r \in Products : r # p => InCarts(r)' = InCarts(r)
    BY <1>2, <1>6, <2>6, CartGrows
  <2>8. Moved(p, t, u)  BY <1>3, <2>2, <2>5, <2>6, <2>7 DEF Moved
  <2>9. \A r \in Products : r # p => Same(r, t, u)  BY <1>3, <2>2, <2>5, <2>6, <2>7 DEF Same
  <2>10. \A r \in Products : Counted(r)'  BY <1>6, <2>5, <2>8, <2>9, CountedStep
  <2>11. BagOK'  BY <1>6, <2>6, <2>7, <2>10 DEF BagOK
  <2>12. QED  BY <1>1, <1>4, <1>5, <2>5, <2>11, TabMoves
<1>9. CASE outcome # "added"
  <2>1. PICK request : request = [q EXCEPT !.step = "persist"]  OBVIOUS
  <2>2. request \in Requests /\ request.step = "persist" /\ request.account = q.account /\ request.token = q.token
        /\ request.moved = q.moved
    BY <1>2, <2>1 DEF Requests
  <2>3. tab' = [tab EXCEPT ![t].request = request]  BY <1>q, <1>1, <1>9, <2>1
  <2>4. PICK u \in State : /\ tab' = [tab EXCEPT ![t] = u] /\ Knows(u) /\ Remaining(u) = tab[t].guest \ request.moved
    <3>1. InBag(request.moved, t)  BY <1>2, <2>2 DEF InBag
    <3>2. tab[t].request.step = "transfer" /\ request.step \in {"transfer", "persist"}
          /\ request.account = tab[t].request.account /\ request.token = tab[t].request.token /\ request \in Requests
      BY <1>q, <1>1, <2>2
    <3>3. \E u \in State : /\ tab' = [tab EXCEPT ![t] = u] /\ Knows(u)
                           /\ Remaining(u) = tab[t].guest \ request.moved
      BY ONLY IInv, t \in Tabs, <2>3, <3>1, <3>2, TransferTab
    <3>4. QED  BY <3>3
  <2>5. Remaining(u) = Remaining(tab[t])  BY <1>3, <2>2, <2>4
  <2>6. CASE outcome = "refused"
    <3>1. cart' = cart /\ bag' = bag  BY <1>1, <2>6
    <3>2. BagOK'  BY <1>6, <2>4, <2>5, <3>1, SameBag
    <3>3. QED  BY <1>1, <1>4, <1>5, <2>4, <3>2, TabMoves
  <2>7. CASE outcome = "unanswered"
    <3>1. cart' = [cart EXCEPT ![a][p] = @ + 1] /\ bag' = [bag EXCEPT ![p].unanswered = @ + 1]  BY <1>1, <2>7
    <3>2. /\ cart' \in [Accounts -> [Products -> Nat]]
          /\ \E piece : piece \notin InCarts(p) /\ InCarts(p)' = InCarts(p) \cup {piece}
          /\ \A r \in Products : r # p => InCarts(r)' = InCarts(r)
      BY <1>2, <1>6, <3>1, CartGrows
    <3>3. PICK x : x = bag[p]  OBVIOUS
    <3>4. x \in [picked : Nat, unanswered : Nat] /\ x.unanswered \in Nat /\ x.unanswered + 1 \in Nat  BY <1>6, <3>3
    <3>5. PICK y : y = [x EXCEPT !.unanswered = x.unanswered + 1]  OBVIOUS
    <3>6. y \in [picked : Nat, unanswered : Nat] /\ y.picked = x.picked /\ y.unanswered = x.unanswered + 1
      BY <3>4, <3>5
    <3>7. bag' = [bag EXCEPT ![p] = y]  BY <3>1, <3>3, <3>5
    <3>8. /\ bag' \in [Products -> [picked : Nat, unanswered : Nat]] /\ bag'[p] = y
          /\ \A r \in Products : r # p => bag'[r] = bag[r]
      BY <1>6, <3>6, <3>7
    <3>9. Doubled(p, t, u)  BY <2>5, <3>2, <3>3, <3>6, <3>8 DEF Doubled
    <3>10. \A r \in Products : r # p => Same(r, t, u)  BY <2>5, <3>2, <3>8 DEF Same
    <3>11. \A r \in Products : Counted(r)'  BY <1>6, <2>4, <3>9, <3>10, CountedStep
    <3>12. BagOK'  BY <3>2, <3>8, <3>11 DEF BagOK
    <3>13. QED  BY <1>1, <1>4, <1>5, <2>4, <3>12, TabMoves
  <2>8. QED  BY <1>9, <2>6, <2>7
<1>10. QED  BY <1>8, <1>9

LEMMA SignInStep == ASSUME IInv, NEW t \in Tabs, SignIn(t) PROVE IInv'
<1>s. PICK s : s = tab[t]  OBVIOUS
<1>n. PICK n : n = s.request.token  OBVIOUS
<1>1. /\ s.request.step \in {"persist", "transfer"} /\ UNCHANGED <<account, token, cookie, cart, mailed, bag, changes>>
      /\ store' = (store \ {s.handle}) \cup {n}
  BY <1>s, <1>n DEF SignIn, Waits
<1>2. s \in State /\ Knows(s) /\ n \in DOMAIN token /\ n \in Nat  BY <1>s, <1>n, <1>1, OfTab DEF Knows, Requests
<1>3. AccountsOK' /\ TokensOK' /\ Grow  BY <1>1, SameRows
<1>4. StoreOK'  BY <1>1, <1>2 DEF IInv, StoreOK, Handles
<1>5. PICK guest : guest = s.guest \ s.request.moved  OBVIOUS
<1>6. PICK command : command = [value |-> n]  OBVIOUS
<1>7. PICK u : u = [s EXCEPT !.guest = guest, !.token = n, !.handle = n, !.ignore = FALSE, !.command = command,
                             !.request = NoRequest]
  OBVIOUS
<1>8. command \in [value : Nat] /\ command.value = n  BY <1>2, <1>6
<1>9. guest \in SUBSET Products  BY <1>2, <1>5 DEF State
<1>10. u \in State /\ u.token = n /\ u.handle = n /\ u.snapshot = s.snapshot /\ u.guest = guest /\ u.request = NoRequest
       /\ u.command = command
  BY <1>2, <1>7, <1>8, <1>9, NoRequestFacts DEF State
<1>11. tab' = [tab EXCEPT ![t] = u]
  <2>1. GuestAfter(t) = guest  BY <1>s, <1>5 DEF GuestAfter
  <2>2. tab' = [tab EXCEPT ![t] = [s EXCEPT !.guest = guest, !.token = n, !.handle = n, !.ignore = FALSE,
                                            !.command = command, !.request = NoRequest]]
    BY <1>s, <1>n, <1>6, <2>1 DEF SignIn
  <2>3. QED  BY <1>7, <2>2
<1>12. Knows(u)  BY <1>2, <1>8, <1>10, NoRequestFacts DEF Knows, Handles
<1>13. Remaining(u) = Remaining(tab[t])  BY <1>s, <1>5, <1>10, NoRequestFacts DEF Remaining
<1>14. BagOK'  BY <1>1, <1>11, <1>13, SameBag DEF IInv
<1>15. QED  BY <1>1, <1>3, <1>4, <1>10, <1>11, <1>12, <1>14, TabMoves
-----------------------------------------------------------------------------
(* Signed in, and out again.                                                *)

\* A tab that shows an account: the account exists.
LEMMA TokensAccount ==
    ASSUME IInv, NEW t \in Tabs, NEW n, n = tab[t].token, n # 0
    PROVE  n \in DOMAIN token /\ token[n].account \in Accounts /\ account[token[n].account] # None
<1>1. n \in DOMAIN token  BY OfTab DEF Knows, Handles
<1>2. token \in Seq(Token)  BY DEF IInv, TokensOK
<1>3. token[n] \in Token  BY <1>1, <1>2
<1>4. QED  BY <1>1, <1>3 DEF IInv, TokensOK, Token

LEMMA LogoutStep ==
    ASSUME BoundsAssumption, IInv, NEW t \in Tabs, NEW served \in BOOLEAN, Logout(t, served) PROVE IInv'
<1>n. PICK n : n = tab[t].token  OBVIOUS
<1>1. n # 0 /\ SignOut(t) /\ UNCHANGED <<cookie, cart, mailed, bag>> /\ tab[t].request.moved = {}
  BY <1>n, IdleFacts DEF Logout
<1>2. CASE served
  <2>a. PICK a : a = token[n].account  OBVIOUS
  <2>r. PICK row : row = account[a]  OBVIOUS
  <2>1. PICK new : new = [row EXCEPT !.version = @ + 1]  OBVIOUS
  <2>2. Set(a, new) /\ token' = Ended(a)  BY <1>n, <1>2, <2>a, <2>r, <2>1 DEF Logout
  <2>3. a \in Accounts /\ row # None  BY <1>n, <1>1, <2>a, <2>r, TokensAccount
  <2>4. row \in Rows /\ row.version \in Nat /\ row.changed \in Nat  BY <2>r, <2>3, RowFacts DEF IInv, AccountRows
  <2>5. new \in Rows /\ new.version = row.version + 1 /\ new.changed = row.changed
    <3>1. row.version + 1 \in Nat  BY <2>4
    <3>2. QED  BY <2>1, <2>4, <3>1 DEF Rows, AccountRows
  <2>6. row.version < new.version /\ new.changed <= row.changed + 1  BY <2>4, <2>5
  <2>7. AccountsOK' /\ TokensOK' /\ Grow  BY <2>r, <2>2, <2>3, <2>5, <2>6, OneChange
  <2>8. QED  BY <1>1, <2>7, SignOutStep
<1>3. CASE ~served
  <2>1. UNCHANGED <<account, token, changes>>  BY <1>3 DEF Logout
  <2>2. AccountsOK' /\ TokensOK' /\ Grow  BY <2>1, SameRows
  <2>3. QED  BY <1>1, <2>2, SignOutStep
<1>4. QED  BY <1>2, <1>3

LEMMA BeginChangeStep == ASSUME IInv, NEW t \in Tabs, BeginChange(t) PROVE IInv'
<1>n. PICK n : n = tab[t].token  OBVIOUS
<1>a. PICK a : a = token[n].account  OBVIOUS
<1>1. n # 0 /\ UNCHANGED <<account, token, store, cookie, cart, bag, mailed, changes>> /\ tab[t].request.moved = {}
  BY <1>n, IdleFacts DEF BeginChange, Accepted, browser
<1>2. a \in Accounts /\ account[a] # None  BY <1>n, <1>a, <1>1, TokensAccount
<1>3. PICK request : request = [NoRequest EXCEPT !.step = "change", !.account = a]  OBVIOUS
<1>4. tab' = [tab EXCEPT ![t].request = request]  BY <1>n, <1>a, <1>3 DEF BeginChange
<1>5. request \in Requests /\ request.account = a /\ request.step = "change" /\ request.moved = {}
  BY <1>2, <1>3, NoRequestFacts DEF Requests
<1>6. AccountsOK' /\ TokensOK' /\ Grow  BY <1>1, SameRows
<1>7. Found(request)  BY <1>1, <1>2, <1>5 DEF Found
<1>8. QED  BY <1>1, <1>4, <1>5, <1>6, <1>7, RequestStep

LEMMA ChangePasswordStep == ASSUME BoundsAssumption, IInv, NEW t \in Tabs, ChangePassword(t) PROVE IInv'
<1>a. PICK a : a = tab[t].request.account  OBVIOUS
<1>1. /\ tab[t].request.step = "change" /\ Set(a, WithPassword(account[a], account[a].changed + 1))
      /\ token' = Ended(a) /\ SignOut(t) /\ UNCHANGED <<cookie, cart, mailed, bag>>
  BY <1>a DEF ChangePassword, Waits
<1>2. a \in Accounts /\ account[a] # None /\ tab[t].request.moved = {}  BY <1>a, <1>1, OfTab DEF Knows
<1>3. AccountsOK' /\ TokensOK' /\ Grow  BY <1>1, <1>2, PasswordStep
<1>4. QED  BY <1>1, <1>2, <1>3, SignOutStep
-----------------------------------------------------------------------------
(* The invariant.                                                           *)

LEMMA InitHolds == ASSUME BoundsAssumption, Init PROVE IInv
<1>1. Limit \in Nat \ {0} /\ None \notin Rows  BY DEF BoundsAssumption, Rows
<1>2. AccountsOK
  <2>1. ASSUME NEW row \in [active : BOOLEAN, failed : {0}, lock : {"none"}, version : {1}, password : {0},
                            outdated : BOOLEAN, link : {None}, changed : {0}]
        PROVE  row \in Rows /\ row.changed = 0
    <3>1. row \in AccountRows /\ row.failed = 0 /\ row.lock = "none" /\ row.link = None /\ row.changed = 0
      BY <2>1 DEF AccountRows
    <3>2. QED  BY <1>1, <3>1 DEF Rows
  <2>2. account \in [Accounts -> {None} \cup [active : BOOLEAN, failed : {0}, lock : {"none"}, version : {1},
                                 password : {0}, outdated : BOOLEAN, link : {None}, changed : {0}]] /\ changes = 0
    BY DEF Init
  <2>3. account \in [Accounts -> {None} \cup Rows]  BY <2>1, <2>2
  <2>4. ASSUME NEW a \in Accounts, account[a] # None PROVE account[a].changed <= changes
    <3>1. account[a].changed = 0  BY <2>1, <2>2, <2>4
    <3>2. QED  BY <2>2, <3>1
  <2>5. QED  BY <2>2, <2>3, <2>4 DEF AccountsOK
<1>3. token = <<>> /\ DOMAIN token = {} /\ token \in Seq(Token)  BY DEF Init
<1>4. TokensOK /\ StoreOK  BY <1>3 DEF Init, TokensOK, StoreOK, Handles
<1>5. TabsOK
  <2>1. PICK u : u = Loaded(0)  OBVIOUS
  <2>2. u \in State /\ u.snapshot = 0 /\ u.token = 0 /\ u.command = None /\ u.guest = {} /\ u.request = NoRequest
    BY <2>1, NoRequestFacts DEF Loaded, State
  <2>3. Knows(u)  BY <2>2, NoRequestFacts DEF Knows, Handles
  <2>4. tab = [t \in Tabs |-> u]  BY <2>1 DEF Init
  <2>5. QED  BY <2>2, <2>3, <2>4 DEF TabsOK
<1>6. MailOK  BY FS_EmptySet DEF Init, MailOK
<1>7. BagOK
  <2>1. cart = [a \in Accounts |-> [p \in Products |-> 0]] /\ bag = [p \in Products |-> [picked |-> 0, unanswered |-> 0]]
    BY DEF Init
  <2>2. cart \in [Accounts -> [Products -> Nat]] /\ bag \in [Products -> [picked : Nat, unanswered : Nat]]  BY <2>1
  <2>3. ASSUME NEW p \in Products PROVE Counted(p)
    <3>1. InCarts(p) = {}
      <4>1. \A a \in Accounts : 1..cart[a][p] = {}  BY <2>1
      <4>2. QED  BY <4>1 DEF InCarts
    <3>2. InBags(p) = {}
      <4>1. \A t \in Tabs : tab[t].guest = {}  BY DEF Init, Loaded
      <4>2. QED  BY <4>1 DEF InBags
    <3>3. bag[p].picked = 0 /\ bag[p].unanswered = 0  BY <2>1
    <3>4. QED  BY <3>1, <3>2, <3>3, FS_EmptySet DEF Counted
  <2>4. QED  BY <2>2, <2>3 DEF BagOK
<1>8. QED  BY <1>2, <1>4, <1>5, <1>6, <1>7 DEF IInv

LEMMA Stutter == ASSUME IInv, UNCHANGED vars PROVE IInv'
<1>1. AccountsOK' /\ TokensOK' /\ Grow  BY SameRows DEF vars
<1>2. UNCHANGED <<store, cookie, tab, cart, bag, mailed>>  BY DEF vars
<1>3. QED  BY <1>1, <1>2, TabsRest

LEMMA NextPreserves == ASSUME BoundsAssumption, IInv, [Next]_vars PROVE IInv'
<1>1. CASE UNCHANGED vars  BY <1>1, Stutter
<1>2. ASSUME NEW t \in Tabs, Page(t) PROVE IInv'
  <2>1. CASE Load(t) \/ Restore(t) \/ Check(t)  BY <2>1, LoadStep, RestoreStep, CheckStep
  <2>2. CASE \E answered \in BOOLEAN : Sync(t, answered)  BY <2>2, SyncStep
  <2>3. CASE \E p \in Products : Pick(t, p) \/ Drop(t, p)  BY <2>3, PickStep
  <2>4. CASE \E served \in BOOLEAN : Logout(t, served)  BY <2>4, LogoutStep
  <2>5. CASE BeginChange(t) \/ ChangePassword(t)  BY <2>5, BeginChangeStep, ChangePasswordStep
  <2>6. QED  BY <1>2, <2>1, <2>2, <2>3, <2>4, <2>5 DEF Page
<1>3. ASSUME NEW t \in Tabs, Login(t) PROVE IInv'
  <2>1. CASE \E a \in Accounts, correct \in BOOLEAN : BeginLogin(t, a, correct)  BY <2>1, BeginLoginStep
  <2>2. CASE LoginFailure(t) \/ LoginSuccess(t)  BY <2>2, LoginFailureStep, LoginSuccessStep
  <2>3. CASE Me(t) \/ SignIn(t)  BY <2>3, MeStep, SignInStep
  <2>4. CASE \E p \in Products, outcome \in {"added", "refused", "unanswered"} : Transfer(t, p, outcome)
    BY <2>4, TransferStep
  <2>5. QED  BY <1>3, <2>1, <2>2, <2>3, <2>4 DEF Login
<1>4. CASE Others
  <2>1. ASSUME NEW a \in Accounts, Register(a) \/ Unlock(a) PROVE IInv'  BY <2>1, RegisterStep, UnlockStep
  <2>2. ASSUME NEW a \in Accounts, NEW active \in BOOLEAN, SetActive(a, active) PROVE IInv'  BY <2>2, SetActiveStep
  <2>3. ASSUME NEW a \in Accounts, NEW stored \in BOOLEAN, Forgot(a, stored) PROVE IInv'  BY <2>3, ForgotStep
  <2>4. ASSUME NEW link \in mailed, Reset(link) PROVE IInv'  BY <2>4, ResetStep
  <2>5. CASE Expire  BY <2>5, ExpireStep
  <2>6. QED  BY <1>4, <2>1, <2>2, <2>3, <2>4, <2>5 DEF Others
<1>5. QED  BY <1>1, <1>2, <1>3, <1>4 DEF Next

LEMMA Inductive == ASSUME BoundsAssumption PROVE Spec => []IInv
<1>1. Init => IInv  BY InitHolds
<1>2. IInv /\ [Next]_vars => IInv'  BY NextPreserves
<1>3. QED  BY <1>1, <1>2, PTL DEF Spec
-----------------------------------------------------------------------------
(* The theorems.                                                            *)

LEMMA TypesHold == ASSUME BoundsAssumption, IInv PROVE TypeOK
<1>1. account \in [Accounts -> {None} \cup Rows]  BY DEF IInv, AccountsOK
<1>2. Rows \subseteq AccountRows  BY DEF Rows
<1>3. account \in [Accounts -> {None} \cup AccountRows]  BY <1>1, <1>2
<1>4. \A a \in Accounts : account[a] # None => (account[a].lock # "none" <=> account[a].failed >= Limit)
  BY RowFacts DEF IInv, Rows
<1>5. \A t \in Tabs : tab[t].token # 0 => tab[t].handle = tab[t].token  BY OfTab DEF Knows
<1>6. QED  BY <1>3, <1>4, <1>5 DEF TypeOK, IInv, AccountsOK, StoreOK, Handles

LEMMA OverIsRefused == ASSUME BoundsAssumption, IInv PROVE SessionsEnd
<1>1. ASSUME NEW n \in DOMAIN token, Accepted(n) PROVE ~token[n].over
  <2>1. PICK x : x = token[n]  OBVIOUS
  <2>2. token \in Seq(Token)  BY DEF IInv, TokensOK
  <2>3. x \in Token  BY <2>1, <2>2
  <2>4. x.version \in Nat /\ x.account \in Accounts  BY <2>3 DEF Token
  <2>5. x.version = account[x.account].version  BY <1>1, <2>1 DEF Accepted
  <2>6. x.over => x.version < account[x.account].version  BY <2>1 DEF IInv, TokensOK
  <2>7. QED  BY <2>1, <2>4, <2>5, <2>6
<1>2. ASSUME NEW a \in Accounts, account[a] # None, account[a].link # None
      PROVE  account[a].link.changed = account[a].changed
  BY <1>2, RowFacts DEF IInv, Rows
<1>3. QED  BY <1>1, <1>2 DEF SessionsEnd

\* After a sign-out, a new password or a new status no token of before is accepted,
\* however many tabs hold it; a reset link works for the password it was mailed for.
\* A lock goes with the failures that reached the limit, and a tab that shows an
\* account holds the handle that restores it, so that it can revoke it.
THEOREM SessionsAreOver == ASSUME BoundsAssumption PROVE Spec => [](TypeOK /\ SessionsEnd)
<1>1. IInv => TypeOK /\ SessionsEnd  BY TypesHold, OverIsRefused
<1>2. QED  BY <1>1, Inductive, PTL

\* On the way from a visitor's bag to the account's cart no product is lost, and
\* none is there twice unless the answer to its request was lost.
THEOREM BagsArriveWhole == ASSUME BoundsAssumption PROVE Spec => []GuestItems
<1>1. IInv => GuestItems  BY DEF IInv, BagOK, Counted, GuestItems
<1>2. QED  BY <1>1, Inductive, PTL

LEMMA OneTab ==
    ASSUME IInv, NEW t \in Tabs, NEW r \in Tabs, NEW u, tab' = [tab EXCEPT ![t] = u], r # t
    PROVE  tab'[r] = tab[r]
BY DEF IInv, TabsOK

LEMMA SignOutGone ==
    ASSUME IInv, NEW t \in Tabs, SignOut(t), tab[t].request.moved = {}, NEW r \in Tabs,
           tab[r].token # 0, tab'[r].token = 0
    PROVE  tab[r].token \notin store'
<1>1. PICK u \in State : tab' = [tab EXCEPT ![t] = u]  BY SignOutFacts
<1>2. r = t  BY <1>1, OneTab
<1>3. QED  BY <1>2, SignOutFacts

\* A step that signs no tab out.
Quiet == \A r \in Tabs : tab[r].token # 0 /\ tab'[r].token = 0 => ~tab'[r].ignore

LEMMA QuietTab ==
    ASSUME IInv, NEW t \in Tabs, NEW u, tab' = [tab EXCEPT ![t] = u],
           u.token = tab[t].token \/ u.token # 0 \/ ~u.ignore
    PROVE  Quiet
<1>1. tab \in [Tabs -> State]  BY DEF IInv, TabsOK
<1>2. \A r \in Tabs : tab'[r] = IF r = t THEN u ELSE tab[r]  BY <1>1
<1>3. QED  BY <1>2 DEF Quiet

LEMMA QuietRequest ==
    ASSUME IInv, NEW t \in Tabs, NEW request, tab' = [tab EXCEPT ![t].request = request] PROVE Quiet
<1>1. PICK u : u = [tab[t] EXCEPT !.request = request]  OBVIOUS
<1>2. u.token = tab[t].token  BY <1>1, OfTab DEF State
<1>3. QED  BY <1>1, <1>2, QuietTab

LEMMA QuietLogin == ASSUME IInv, NEW t \in Tabs, Login(t) PROVE Quiet
<1>1. ASSUME NEW a \in Accounts, NEW correct \in BOOLEAN, BeginLogin(t, a, correct) PROVE Quiet
  BY <1>1, QuietRequest DEF BeginLogin
<1>2. CASE LoginFailure(t)  BY <1>2, QuietRequest DEF LoginFailure, Done
<1>3. CASE LoginSuccess(t)
  <2>1. PICK request : tab' = [tab EXCEPT ![t].request = request]  BY <1>3 DEF LoginSuccess, Done
  <2>2. QED  BY <2>1, QuietRequest
<1>4. CASE Me(t)
  <2>1. PICK request : tab' = [tab EXCEPT ![t].request = request]  BY <1>4 DEF Me, Done, Request
  <2>2. QED  BY <2>1, QuietRequest
<1>5. ASSUME NEW p \in Products, NEW outcome \in {"added", "refused", "unanswered"}, Transfer(t, p, outcome) PROVE Quiet
  <2>1. PICK request : tab' = [tab EXCEPT ![t].request = request]  BY <1>5 DEF Transfer
  <2>2. QED  BY <2>1, QuietRequest
<1>6. CASE SignIn(t)
  <2>1. PICK n : n = tab[t].request.token  OBVIOUS
  <2>2. PICK u : u = [tab[t] EXCEPT !.guest = GuestAfter(t), !.token = n, !.handle = n, !.ignore = FALSE,
                                    !.command = [value |-> n], !.request = NoRequest]
    OBVIOUS
  <2>3. ~u.ignore  BY <2>2, OfTab DEF State
  <2>4. tab' = [tab EXCEPT ![t] = u]  BY <1>6, <2>1, <2>2 DEF SignIn
  <2>5. QED  BY <2>3, <2>4, QuietTab
<1>7. QED  BY <1>1, <1>2, <1>3, <1>4, <1>5, <1>6 DEF Login

LEMMA PageSignsOut ==
    ASSUME IInv, NEW t \in Tabs, Page(t) PROVE Quiet \/ (SignOut(t) /\ tab[t].request.moved = {})
<1>s. PICK s : s = tab[t]  OBVIOUS
<1>0. s \in State /\ Knows(s)  BY <1>s, OfTab
<1>1. CASE Load(t)
  <2>1. PICK u : u = Loaded(cookie)  OBVIOUS
  <2>2. ~u.ignore  BY <2>1 DEF Loaded
  <2>3. tab' = [tab EXCEPT ![t] = u]  BY <1>1, <2>1 DEF Load
  <2>4. QED  BY <2>2, <2>3, QuietTab
<1>2. CASE Restore(t)
  <2>1. CASE SignOut(t)  BY <1>2, <2>1, IdleFacts DEF Restore
  <2>2. CASE tab' = [tab EXCEPT ![t].token = tab[t].snapshot, ![t].handle = tab[t].snapshot]
    <3>1. PICK u : u = [s EXCEPT !.token = s.snapshot, !.handle = s.snapshot]  OBVIOUS
    <3>2. tab \in [Tabs -> State]  BY DEF IInv, TabsOK
    <3>3. tab' = [tab EXCEPT ![t] = u]  BY <1>s, <1>0, <2>2, <3>1, <3>2 DEF State
    <3>4. u.token = s.snapshot /\ s.snapshot # 0  BY <1>s, <1>0, <1>2, <3>1 DEF State, Restore
    <3>5. QED  BY <3>3, <3>4, QuietTab
  <2>3. QED  BY <1>2, <2>1, <2>2 DEF Restore
<1>3. CASE Check(t)  BY <1>3, IdleFacts DEF Check
<1>4. ASSUME NEW answered \in BOOLEAN, Sync(t, answered) PROVE Quiet
  <2>1. PICK u : u = [s EXCEPT !.command = IF answered THEN None ELSE @]  OBVIOUS
  <2>2. u.token = s.token  BY <1>0, <2>1 DEF State
  <2>3. tab' = [tab EXCEPT ![t] = u]  BY <1>s, <1>4, <2>1 DEF Sync
  <2>4. QED  BY <1>s, <2>2, <2>3, QuietTab
<1>5. ASSUME NEW p \in Products, Pick(t, p) \/ Drop(t, p) PROVE Quiet
  <2>1. PICK guest : tab' = [tab EXCEPT ![t].guest = guest]  BY <1>5 DEF Pick, Drop
  <2>2. PICK u : u = [s EXCEPT !.guest = guest]  OBVIOUS
  <2>3. u.token = s.token  BY <1>0, <2>2 DEF State
  <2>4. tab' = [tab EXCEPT ![t] = u]  BY <1>s, <2>1, <2>2
  <2>5. QED  BY <1>s, <2>3, <2>4, QuietTab
<1>6. ASSUME NEW served \in BOOLEAN, Logout(t, served) PROVE SignOut(t) /\ tab[t].request.moved = {}
  BY <1>6, IdleFacts DEF Logout
<1>7. CASE BeginChange(t)  BY <1>7, QuietRequest DEF BeginChange
<1>8. CASE ChangePassword(t)
  <2>1. SignOut(t) /\ s.request.step = "change"  BY <1>s, <1>8 DEF ChangePassword, Waits
  <2>2. QED  BY <1>s, <1>0, <2>1 DEF Knows
<1>9. QED  BY <1>1, <1>2, <1>3, <1>4, <1>5, <1>6, <1>7, <1>8 DEF Page

\* A tab that is signed out, by its user, by a new password or because its token is
\* no longer accepted, leaves no handle behind from which a session could come back.
THEOREM NothingComesBack == ASSUME BoundsAssumption PROVE Spec => SignedOutGone
<1>1. ASSUME IInv, [Next]_vars, NEW r \in Tabs, tab[r].token # 0, tab'[r].token = 0, tab'[r].ignore
      PROVE  tab[r].token \notin store'
  <2>1. ~Quiet  BY <1>1 DEF Quiet
  <2>2. CASE tab' = tab  BY <1>1, <2>2
  <2>3. ASSUME NEW t \in Tabs, Page(t) PROVE tab[r].token \notin store'
    <3>1. SignOut(t) /\ tab[t].request.moved = {}  BY <1>1, <2>1, <2>3, PageSignsOut
    <3>2. QED  BY <1>1, <3>1, SignOutGone
  <2>4. ASSUME NEW t \in Tabs, Login(t) PROVE FALSE  BY <1>1, <2>1, <2>4, QuietLogin
  <2>5. Others => tab' = tab
    BY DEF Others, Register, Unlock, SetActive, Forgot, Reset, Expire
  <2>6. UNCHANGED vars => tab' = tab  BY DEF vars
  <2>7. QED  BY <1>1, <2>2, <2>3, <2>4, <2>5, <2>6 DEF Next
<1>2. IInv /\ [Next]_vars =>
        (\A t \in Tabs : tab[t].token # 0 /\ tab'[t].token = 0 /\ tab'[t].ignore => tab[t].token \notin store')
  BY <1>1
<1>3. QED  BY <1>2, Inductive, PTL DEF SignedOutGone, Spec

=============================================================================
