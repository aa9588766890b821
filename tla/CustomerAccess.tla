---------------------------- MODULE CustomerAccess ----------------------------
(***************************************************************************)
(* Customer accounts and the browser sessions that use them: registration, *)
(* sign-in and sign-out, change and reset of the password, the server-side *)
(* store of tokens behind the browser's cookie, the tabs of one browser,   *)
(* and the bag of a visitor that moves to the account at sign-in.          *)
(*                                                                         *)
(* A sign-in reads the account, compares the password, and updates the     *)
(* account later, whatever has happened in between.  A tab works on its    *)
(* own session state; the cookies it sees are those of its last full load, *)
(* and the cookie it sets or deletes changes some time later.              *)
(***************************************************************************)
EXTENDS Naturals, Sequences, FiniteSets, FiniteSetsExt, Functions

CONSTANTS
    Accounts,      \* customer_accounts, by email
    Tabs,          \* tabs of one browser
    Products,
    Limit,         \* AUTH_LOCKOUT_ATTEMPTS
    MaxChanges,    \* bound: changes of the accounts
    MaxTokens,     \* bound: tokens issued
    MaxPicks,      \* bound: products put into a visitor's bag
    None

\* A link that was mailed, and a row of customer_accounts.
Links == [account : Accounts, changed : Nat, number : Nat]

AccountRows ==
    [active : BOOLEAN, failed : Nat, lock : {"none", "until", "past"}, version : Nat,
     password : Nat, outdated : BOOLEAN, link : {None} \cup Links, changed : Nat]

BoundsAssumption ==
    /\ Limit \in Nat \ {0} /\ {MaxChanges, MaxTokens, MaxPicks} \subseteq Nat
    /\ None \notin AccountRows

VARIABLES
    account,       \* [Accounts -> the row, or None]
    token,         \* the tokens issued; the nth one has the nth browser handle
    store,         \* the handles that BrowserSessionStore has
    cookie,        \* the handle in the browser's cookie, or 0
    tab,           \* [Tabs -> the tab's session state and its request in flight]
    cart,          \* [Accounts -> [Products -> how many came from bags]]
    mailed,        \* the reset links that were mailed
    bag,           \* [Products -> [picked, unanswered]], for the properties
    changes

vars == <<account, token, store, cookie, tab, cart, mailed, bag, changes>>
browser == <<token, store, cookie, cart, bag>>

NewAccount == [active |-> TRUE, failed |-> 0, lock |-> "none", version |-> 1,
               password |-> 0, outdated |-> FALSE, link |-> None, changed |-> 0]

NoRequest == [step |-> "none", account |-> None, read |-> None, token |-> 0, moved |-> {}]

\* An empty st.session_state; "snapshot" are the cookies of the page load.
Loaded(handle) ==
    [snapshot |-> handle, token |-> 0, handle |-> 0, ignore |-> FALSE, command |-> None,
     guest |-> {}, request |-> NoRequest]

Init ==
    /\ account \in [Accounts -> {None} \cup [active : BOOLEAN, failed : {0}, lock : {"none"}, version : {1},
                                 password : {0}, outdated : BOOLEAN, link : {None}, changed : {0}]]
    /\ token = <<>> /\ store = {} /\ cookie = 0
    /\ tab = [t \in Tabs |-> Loaded(0)]
    /\ cart = [a \in Accounts |-> [p \in Products |-> 0]]
    /\ mailed = {} /\ bag = [p \in Products |-> [picked |-> 0, unanswered |-> 0]]
    /\ changes = 0

-----------------------------------------------------------------------------
(* Accounts.                                                                *)

Idle(t) == tab[t].request = NoRequest
Waits(t, step) == tab[t].request.step = step

Set(a, row) == account' = [account EXCEPT ![a] = row] /\ changes < MaxChanges /\ changes' = changes + 1

\* The account's tokens of before are over: the ghost that SessionsEnd compares.
Ended(a) == [n \in DOMAIN token |-> IF token[n].account = a THEN [token[n] EXCEPT !.over = TRUE] ELSE token[n]]

\* authenticate_token
Accepted(n) ==
    /\ n # 0 /\ ~token[n].expired
    /\ LET row == account[token[n].account] IN
         token[n].version = row.version /\ row.active /\ row.lock # "until"

\* create_with_profile; the unique email refuses the second one.
Register(a) ==
    /\ account[a] = None
    /\ Set(a, NewAccount)
    /\ UNCHANGED <<browser, tab, mailed>>

WithPasswordKeepingLink(row, password) ==      \* Mutant: the reset link stays.
    [row EXCEPT !.password = password, !.outdated = FALSE, !.failed = 0, !.lock = "none",
                !.version = @ + 1, !.changed = @ + 1]

\* Every change of the password clears the link and ends the account's tokens.
WithPassword(row, password) ==
    [row EXCEPT !.password = password, !.outdated = FALSE, !.link = None, !.failed = 0, !.lock = "none",
                !.version = @ + 1, !.changed = @ + 1]

\* forgot_password: the row is read, then updated if it is still active; the
\* mail is sent either way.
Forgot(a, stored) ==
    /\ account[a] # None
    /\ stored => account[a].active
    /\ LET link == [account |-> a, changed |-> account[a].changed, number |-> Cardinality(mailed)] IN
       /\ IF stored THEN Set(a, [account[a] EXCEPT !.link = link])
                    ELSE changes < MaxChanges /\ changes' = changes + 1 /\ UNCHANGED account
       /\ mailed' = mailed \cup {link}
    /\ UNCHANGED <<browser, tab>>

\* reset_password, with any link that was ever mailed.
Reset(link) ==
    LET a == link.account IN
    /\ account[a].link = link /\ account[a].active
    /\ Set(a, WithPassword(account[a], account[a].changed + 1))
    /\ token' = Ended(a)
    /\ UNCHANGED <<store, cookie, tab, cart, mailed, bag>>

\* The administrator changes the status; the other one of two decisions on the
\* same row_version is refused.
SetActive(a, active) ==
    /\ account[a] # None
    /\ Set(a, [account[a] EXCEPT !.active = active, !.version = @ + 1])
    /\ token' = Ended(a)
    /\ UNCHANGED <<store, cookie, tab, cart, mailed, bag>>

Unlock(a) ==
    /\ account[a] # None
    /\ Set(a, [account[a] EXCEPT !.failed = 0, !.lock = "none"])
    /\ UNCHANGED <<browser, tab, mailed>>

\* Time passes locked_until, password_reset_expires_at, a token's exp, and later
\* the expires_at of its handle, which counts from the end of the sign-in.
Expire ==
    \/ /\ \E a \in Accounts : /\ account[a] # None
                              /\ \/ account[a].lock = "until" /\ account' = [account EXCEPT ![a].lock = "past"]
                                 \/ account[a].link # None /\ account' = [account EXCEPT ![a].link = None]
       /\ UNCHANGED <<browser, tab, mailed, changes>>
    \/ /\ \E n \in DOMAIN token : ~token[n].expired /\ token' = [token EXCEPT ![n].expired = TRUE]
       /\ UNCHANGED <<account, store, cookie, tab, cart, mailed, bag, changes>>
    \/ /\ \E n \in store : token[n].expired /\ store' = store \ {n}
       /\ UNCHANGED <<account, token, cookie, tab, cart, mailed, bag, changes>>

-----------------------------------------------------------------------------
(* A tab's session state.                                                   *)

RequestCookieDeleteOfSnapshot(s) ==            \* Mutant: the cookie before the session state.
    [state |-> [s EXCEPT !.token = 0, !.handle = 0, !.ignore = TRUE, !.command = [value |-> 0]],
     revoked |-> IF s.snapshot # 0 THEN s.snapshot ELSE s.handle]

\* request_cookie_delete, and the rest of customer_sign_out.
RequestCookieDelete(s) ==
    [state |-> [s EXCEPT !.token = 0, !.handle = 0, !.ignore = TRUE, !.command = [value |-> 0]],
     revoked |-> IF s.handle # 0 THEN s.handle ELSE s.snapshot]

SignOut(t) ==
    LET out == RequestCookieDelete(tab[t]) IN
    /\ tab' = [tab EXCEPT ![t] = [out.state EXCEPT !.request = NoRequest]]
    /\ store' = store \ {out.revoked}

\* A full page load: new session state, the cookies of now.
Load(t) ==
    /\ Idle(t)
    /\ tab' = [tab EXCEPT ![t] = Loaded(cookie)]
    /\ bag' = [p \in Products |-> IF p \in tab[t].guest THEN [bag[p] EXCEPT !.picked = @ - 1] ELSE bag[p]]
    /\ UNCHANGED <<account, token, store, cookie, cart, mailed, changes>>

\* restore_customer_browser_session, at the start of every run of the script.
Restore(t) ==
    /\ Idle(t) /\ tab[t].token = 0 /\ ~tab[t].ignore /\ tab[t].snapshot # 0
    /\ IF tab[t].snapshot \in store
         THEN /\ tab' = [tab EXCEPT ![t].token = tab[t].snapshot, ![t].handle = tab[t].snapshot]
              /\ UNCHANGED store
         ELSE SignOut(t)
    /\ UNCHANGED <<account, token, cookie, cart, mailed, bag, changes>>

\* GET /customer/auth/me before anything is shown.
Check(t) ==
    /\ Idle(t) /\ tab[t].token # 0 /\ ~Accepted(tab[t].token)
    /\ SignOut(t)
    /\ UNCHANGED <<account, token, cookie, cart, mailed, bag, changes>>

\* The cookie component carries out the pending command, and may do so once more
\* before its answer clears it.
Sync(t, answered) ==
    /\ tab[t].command # None
    /\ cookie' = tab[t].command.value
    /\ tab' = [tab EXCEPT ![t].command = IF answered THEN None ELSE @]
    /\ UNCHANGED <<account, token, store, cart, mailed, bag, changes>>

-----------------------------------------------------------------------------
(* Sign-in.                                                                 *)

Request(t, step) == tab' = [tab EXCEPT ![t].request.step = step]
Done(t) == tab' = [tab EXCEPT ![t].request = NoRequest]

\* The account is read and the password compared.
BeginLogin(t, a, correct) ==
    /\ Idle(t) /\ tab[t].token = 0
    /\ account[a] # None /\ account[a].active /\ account[a].lock # "until"
    /\ correct => Len(token) + Cardinality({u \in Tabs : Waits(u, "correct")}) < MaxTokens
    /\ tab' = [tab EXCEPT ![t].request = [NoRequest EXCEPT !.account = a, !.read = account[a],
                                             !.step = IF correct THEN "correct" ELSE "wrong"]]
    /\ UNCHANGED <<account, browser, mailed, changes>>

LoginFailureLate(t) ==                         \* Mutant: locks one failure late.
    LET a    == tab[t].request.account
        row  == account[a]
        next == (IF row.lock = "past" THEN 0 ELSE row.failed) + 1
    IN  /\ Waits(t, "wrong")
        /\ Set(a, [row EXCEPT !.failed = next, !.lock = IF next > Limit THEN "until" ELSE "none"])
        /\ Done(t)
        /\ UNCHANGED <<browser, mailed>>

\* record_failed_login
LoginFailure(t) ==
    LET a    == tab[t].request.account
        row  == account[a]
        next == (IF row.lock = "past" THEN 0 ELSE row.failed) + 1
    IN  /\ Waits(t, "wrong")
        /\ Set(a, [row EXCEPT !.failed = next, !.lock = IF next >= Limit THEN "until" ELSE "none"])
        /\ Done(t)
        /\ UNCHANGED <<browser, mailed>>

\* record_successful_login; an outdated hash is replaced by one of the password
\* that was compared.  The route authenticates the new token at once: an account
\* deactivated since it was read gets none, and the UPDATE is rolled back.
LoginSuccess(t) ==
    LET a   == tab[t].request.account
        old == tab[t].request.read
        row == account[a]
    IN  /\ Waits(t, "correct")
        /\ IF row.active
             THEN /\ Set(a, [row EXCEPT !.failed = 0, !.lock = "none",
                                        !.password = IF old.outdated THEN old.password ELSE @,
                                        !.outdated = IF old.outdated THEN FALSE ELSE @])
                  /\ token' = Append(token, [account |-> a, version |-> row.version,
                                             expired |-> FALSE, over |-> FALSE])
                  /\ tab' = [tab EXCEPT ![t].request = [@ EXCEPT !.step = "me", !.token = Len(token) + 1]]
             ELSE Done(t) /\ UNCHANGED <<account, token, changes>>
        /\ UNCHANGED <<store, cookie, cart, mailed, bag>>

\* The page asks /customer/auth/me with the new token.
Me(t) ==
    /\ Waits(t, "me")
    /\ IF Accepted(tab[t].request.token) THEN Request(t, "transfer") ELSE Done(t)
    /\ UNCHANGED <<account, browser, mailed, changes>>

Left(t) == tab[t].guest \ tab[t].request.moved

\* The bag's products move one request at a time; the first error ends it.
Transfer(t, p, outcome) ==
    LET a == tab[t].request.account IN
    /\ Waits(t, "transfer") /\ p \in Left(t)
    /\ outcome \in {"added", "unanswered"} => Accepted(tab[t].request.token)
    /\ cart' = IF outcome = "refused" THEN cart ELSE [cart EXCEPT ![a][p] = @ + 1]
    /\ bag' = IF outcome = "unanswered" THEN [bag EXCEPT ![p].unanswered = @ + 1] ELSE bag
    /\ tab' = IF outcome = "added" THEN [tab EXCEPT ![t].request.moved = @ \cup {p}]
                                   ELSE [tab EXCEPT ![t].request.step = "persist"]
    /\ UNCHANGED <<account, token, store, cookie, mailed, changes>>

GuestEmptied(t) == {}                           \* Mutant: the whole bag is forgotten.
GuestAfter(t) == tab[t].guest \ tab[t].request.moved

\* What was moved leaves the bag; persist_customer_browser_session.
SignIn(t) ==
    LET n == tab[t].request.token IN
    /\ Waits(t, "persist") \/ (Waits(t, "transfer") /\ Left(t) = {})
    /\ store' = (store \ {tab[t].handle}) \cup {n}
    /\ tab' = [tab EXCEPT ![t].guest = GuestAfter(t), ![t].token = n, ![t].handle = n, ![t].ignore = FALSE,
                          ![t].command = [value |-> n], ![t].request = NoRequest]
    /\ UNCHANGED <<account, token, cookie, cart, mailed, bag, changes>>

\* The visitor's bag.
Pick(t, p) ==
    /\ Idle(t) /\ tab[t].token = 0 /\ p \notin tab[t].guest
    /\ SumFunction([q \in Products |-> bag[q].picked]) < MaxPicks
    /\ tab' = [tab EXCEPT ![t].guest = @ \cup {p}]
    /\ bag' = [bag EXCEPT ![p].picked = @ + 1]
    /\ UNCHANGED <<account, token, store, cookie, cart, mailed, changes>>

Drop(t, p) ==
    /\ Idle(t) /\ tab[t].token = 0 /\ p \in tab[t].guest
    /\ tab' = [tab EXCEPT ![t].guest = @ \ {p}]
    /\ bag' = [bag EXCEPT ![p].picked = @ - 1]
    /\ UNCHANGED <<account, token, store, cookie, cart, mailed, changes>>

-----------------------------------------------------------------------------
(* Signed in.                                                               *)

\* "Log out": the tab signs out whether or not the request got through.
Logout(t, served) ==
    LET n == tab[t].token IN
    /\ Idle(t) /\ n # 0
    /\ served => Accepted(n)
    /\ IF served
         THEN LET a == token[n].account IN
              Set(a, [account[a] EXCEPT !.version = @ + 1]) /\ token' = Ended(a)
         ELSE UNCHANGED <<account, token, changes>>
    /\ SignOut(t)
    /\ UNCHANGED <<cookie, cart, mailed, bag>>

\* change_password: the current password is compared with the row the token was
\* authenticated with.
BeginChange(t) ==
    /\ Idle(t) /\ Accepted(tab[t].token)
    /\ tab' = [tab EXCEPT ![t].request = [NoRequest EXCEPT !.step = "change", !.account = token[tab[t].token].account]]
    /\ UNCHANGED <<account, browser, mailed, changes>>

ChangePassword(t) ==
    LET a == tab[t].request.account IN
    /\ Waits(t, "change")
    /\ Set(a, WithPassword(account[a], account[a].changed + 1))
    /\ token' = Ended(a)
    /\ SignOut(t)
    /\ UNCHANGED <<cookie, cart, mailed, bag>>

-----------------------------------------------------------------------------
Page(t) ==
    \/ Load(t) \/ Restore(t) \/ Check(t)
    \/ (\E answered \in BOOLEAN : Sync(t, answered))
    \/ (\E p \in Products : Pick(t, p) \/ Drop(t, p))
    \/ (\E served \in BOOLEAN : Logout(t, served))
    \/ BeginChange(t) \/ ChangePassword(t)

Login(t) ==
    \/ (\E a \in Accounts, correct \in BOOLEAN : BeginLogin(t, a, correct))
    \/ LoginFailure(t) \/ LoginSuccess(t) \/ Me(t)
    \/ (\E p \in Products, outcome \in {"added", "refused", "unanswered"} : Transfer(t, p, outcome))
    \/ SignIn(t)

Others ==
    \/ \E a \in Accounts :
          \/ Register(a) \/ Unlock(a)
          \/ \E active \in BOOLEAN : SetActive(a, active)
          \/ \E stored \in BOOLEAN : Forgot(a, stored)
    \/ (\E link \in mailed : Reset(link))
    \/ Expire

Next == (\E t \in Tabs : Page(t) \/ Login(t)) \/ Others

Spec == Init /\ [][Next]_vars

-----------------------------------------------------------------------------
(* Properties.                                                              *)

\* The columns' domains; a lock goes with the failures that set it; a tab that
\* shows an account can revoke what restores it.
TypeOK ==
    /\ account \in [Accounts -> {None} \cup AccountRows]
    /\ store \subseteq DOMAIN token /\ cookie \in {0} \cup DOMAIN token
    /\ \A a \in Accounts : account[a] # None =>
          /\ account[a].lock # "none" <=> account[a].failed >= Limit
          /\ account[a].changed <= changes
    /\ \A t \in Tabs : tab[t].token # 0 => tab[t].handle = tab[t].token

\* Signing out, a new password and a new status end every session of the account,
\* in whichever tab and however it was restored; and a link that can still reset
\* the password was sent after the last change of it.
SessionsEnd ==
    /\ \A n \in DOMAIN token : Accepted(n) => ~token[n].over
    /\ \A a \in Accounts : account[a] # None /\ account[a].link # None => account[a].link.changed = account[a].changed

\* The pieces of a product that are in the carts, and the bags it is in.
InCarts(p) == UNION {{a} \X (1..cart[a][p]) : a \in Accounts}
InBags(p)  == {t \in Tabs : p \in tab[t].guest \ tab[t].request.moved}

\* Nothing a visitor put into the bag is lost on the way to the cart, and nothing
\* is there twice unless an answer was lost.
GuestItems ==
    \A p \in Products :
        LET there == Cardinality(InCarts(p)) + Cardinality(InBags(p)) IN
        bag[p].picked <= there /\ there <= bag[p].picked + bag[p].unanswered

\* The store has no session of which a tab was signed out: a reload, or another
\* tab with an older cookie, cannot bring it back.
SignedOutGone ==
    [][\A t \in Tabs :
          tab[t].token # 0 /\ tab'[t].token = 0 /\ tab'[t].ignore => tab[t].token \notin store']_vars

=============================================================================
