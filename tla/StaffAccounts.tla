----------------------------- MODULE StaffAccounts -----------------------------
(***************************************************************************)
(* The staff accounts of RetailMetricsWeb: signing in and out, counting    *)
(* failed sign-ins, and administrators who change each other's role and    *)
(* status, statement by statement at READ COMMITTED.                       *)
(*                                                                         *)
(* A request reads the accounts it is about without a lock.  Before an     *)
(* active administrator is demoted or deactivated all active               *)
(* administrators are locked, in no defined order, and counted; the UPDATE *)
(* then applies to the row_version that was read.  An UPDATE that waited   *)
(* for the row applies to the row as it is by then.                        *)
(***************************************************************************)
EXTENDS Naturals, FiniteSets

CONSTANTS
    Users,         \* app_users
    Roles,
    Sessions,      \* browser sessions of the staff
    Attempts,      \* AUTH_LOCKOUT_ATTEMPTS
    MaxChanges,    \* bound: changes of the accounts
    None

ASSUME BoundsAssumption ==
    IsFiniteSet(Users) /\ "admin" \in Roles /\ Attempts \in Nat \ {0} /\ MaxChanges \in Nat

VARIABLES
    account,       \* [Users -> the app_users row]
    token,         \* [Sessions -> the token the session holds]
    page,          \* [Sessions -> the account as user management last showed it]
    txn,           \* [Sessions -> the request in flight]
    changes        \* changes of the accounts so far

vars == <<account, token, page, txn, changes>>

Idle == [op |-> "idle", step |-> "none", user |-> None, read |-> None, role |-> None,
         active |-> FALSE, scan |-> {}, held |-> {}]

IsAdmin(row) == row.role = "admin" /\ row.active
ActiveAdmins == {u \in Users : IsAdmin(account[u])}

\* A token carries the account's token_version; "role" is what the account's
\* role was when the token was issued, for the property TokensMatch.
TokenFor(u) == [user |-> u, version |-> account[u].token, role |-> account[u].role]

\* bootstrap_admin has made the first administrator; accounts are active when
\* they are created.
Init ==
    /\ account \in [Users -> [role : Roles, active : {TRUE}, failed : {0}, lock : {"none"},
                              token : {1}, version : {1}]]
    /\ ActiveAdmins # {}
    /\ token \in [Sessions -> {None} \cup {TokenFor(u) : u \in Users}]
    /\ page = [s \in Sessions |-> None]
    /\ txn = [s \in Sessions |-> Idle]
    /\ changes = 0

-----------------------------------------------------------------------------
At(s, op, step) == txn[s].op = op /\ txn[s].step = step

Goto(s, step) == txn' = [txn EXCEPT ![s].step = step]

\* The row's lock is free for session s.
Free(s, u) == \A r \in Sessions \ {s} : u \notin txn[r].held

Fail(s) == txn' = [txn EXCEPT ![s] = Idle] /\ UNCHANGED <<account, token, page, changes>>

Begin(s, t) ==
    /\ txn[s] = Idle
    /\ changes + Cardinality({r \in Sessions : txn[r] # Idle}) < MaxChanges
    /\ txn' = [txn EXCEPT ![s] = t]
    /\ UNCHANGED <<account, token, page, changes>>

\* The request's one UPDATE, and its end.
Change(s, row) ==
    /\ Free(s, txn[s].user)
    /\ account' = [account EXCEPT ![txn[s].user] = [row EXCEPT !.version = @ + 1]]
    /\ changes' = changes + 1
    /\ txn' = [txn EXCEPT ![s] = Idle]
    /\ UNCHANGED page

-----------------------------------------------------------------------------
(* Tokens.                                                                  *)

\* authenticate_token: the session's token is the account's current one, and
\* the account is active and not locked.
Authenticated(s) ==
    /\ token[s] # None
    /\ LET row == account[token[s].user] IN
         token[s].version = row.token /\ row.active /\ row.lock # "until"

\* require_roles(Role.ADMIN)
Administrates(s) == Authenticated(s) /\ account[token[s].user].role = "admin"

\* POST /auth/login: the password is compared with the row read first.
BeginLogin(s, u, correct) ==
    /\ account[u].active /\ account[u].lock # "until"
    /\ Begin(s, [Idle EXCEPT !.op = "login", !.user = u, !.read = account[u],
                             !.step = IF correct THEN "success" ELSE "failure"])

LoginFailureAsRead(s) ==      \* Mutant: counts from the row read first.
    LET row  == account[txn[s].user]
        next == (IF row.lock = "past" THEN 0 ELSE txn[s].read.failed) + 1
    IN  /\ At(s, "login", "failure")
        /\ Change(s, [row EXCEPT !.failed = next, !.lock = IF next >= Attempts THEN "until" ELSE "none"])
        /\ UNCHANGED token

\* record_failed_login, committed before the request answers.
LoginFailure(s) ==
    LET row  == account[txn[s].user]
        next == (IF row.lock = "past" THEN 0 ELSE row.failed) + 1
    IN  /\ At(s, "login", "failure")
        /\ Change(s, [row EXCEPT !.failed = next, !.lock = IF next >= Attempts THEN "until" ELSE "none"])
        /\ UNCHANGED token

\* record_successful_login; the new token is authenticated at once, so that an
\* account deactivated meanwhile gets none and the UPDATE is rolled back.
LoginSuccess(s) ==
    LET u == txn[s].user IN
    /\ At(s, "login", "success")
    /\ IF account[u].active
         THEN /\ Change(s, [account[u] EXCEPT !.failed = 0, !.lock = "none"])
              /\ token' = [token EXCEPT ![s] = TokenFor(u)]
         ELSE Free(s, u) /\ Fail(s)

BeginOwn(s, op) ==
    /\ Authenticated(s)
    /\ Begin(s, [Idle EXCEPT !.op = op, !.step = "update", !.user = token[s].user])

Logout(s) ==
    /\ At(s, "logout", "update")
    /\ Change(s, [account[txn[s].user] EXCEPT !.token = @ + 1])
    /\ token' = [token EXCEPT ![s] = None]

ChangePassword(s) ==
    /\ At(s, "password", "update")
    /\ Change(s, [account[txn[s].user] EXCEPT !.token = @ + 1, !.failed = 0, !.lock = "none"])
    /\ UNCHANGED token

-----------------------------------------------------------------------------
(* User management.                                                         *)

\* GET /admin/users
Look(s, u) ==
    /\ txn[s] = Idle /\ Administrates(s)
    /\ page' = [page EXCEPT ![s] = [user |-> u, row |-> account[u]]]
    /\ UNCHANGED <<account, token, txn, changes>>

\* Whether an active administrator would be removed.
Removes(t) == IsAdmin(t.read) /\ (t.role # "admin" \/ ~t.active)

\* A change of the account on the page; administrators neither change their own
\* role nor deactivate themselves.
BeginAdmin(s, op, role, active) ==
    /\ Administrates(s) /\ page[s] # None
    /\ LET u == page[s].user
           row == page[s].row
       IN  /\ op = "role"   => u # token[s].user /\ active = row.active
           /\ op = "status" => role = row.role /\ (active \/ u # token[s].user)
           /\ op = "unlock" => role = row.role /\ active = row.active
           /\ Begin(s, [Idle EXCEPT !.op = op, !.step = "read", !.user = u, !.role = role, !.active = active])

\* _require_version: the account must still have the row_version on the page.
RequireVersion(s) ==
    /\ txn[s].step = "read"
    /\ LET t == [txn[s] EXCEPT !.read = account[txn[s].user]] IN
       IF t.read.version = page[s].row.version
         THEN /\ txn' = [txn EXCEPT ![s] = [t EXCEPT !.step = IF Removes(t) THEN "protect" ELSE "update"]]
              /\ UNCHANGED <<account, token, page, changes>>
         ELSE Fail(s)

\* count_active_admins_locked finds the rows to lock, ...
Protect(s) ==
    /\ txn[s].step = "protect"
    /\ txn' = [txn EXCEPT ![s].step = "scan", ![s].scan = ActiveAdmins]
    /\ UNCHANGED <<account, token, page, changes>>

LockAdminNot(s, u) ==          \* Mutant: counts without FOR UPDATE.
    /\ u \in txn[s].scan
    /\ txn' = [txn EXCEPT ![s].scan = {}, ![s].step = IF Cardinality(ActiveAdmins) <= 1 THEN "refuse" ELSE "update"]
    /\ UNCHANGED <<account, token, page, changes>>

\* ... locks one after the other ...
LockAdmin(s, u) ==
    /\ u \in txn[s].scan
    /\ Free(s, u)
    /\ txn' = [txn EXCEPT ![s].scan = @ \ {u}, ![s].held = @ \cup {u}]
    /\ UNCHANGED <<account, token, page, changes>>

\* ... and counts those that are active administrators still.
ProtectLast(s) ==
    /\ txn[s].step = "scan" /\ txn[s].scan = {}
    /\ IF Cardinality(txn[s].held \cap ActiveAdmins) <= 1
         THEN Fail(s)
         ELSE Goto(s, "update") /\ UNCHANGED <<account, token, page, changes>>

AdminChangeKeepingTokens(s) == \* Mutant: token_version stays.
    LET t == txn[s]
        row == account[t.user]
    IN  /\ t.step = "update" /\ t.op \in {"role", "status", "unlock"}
        /\ row.version = t.read.version
        /\ Change(s, IF t.op = "unlock" THEN [row EXCEPT !.failed = 0, !.lock = "none"]
                     ELSE [row EXCEPT !.role = t.role, !.active = t.active])
        /\ UNCHANGED token

\* update_role, update_active and unlock apply to the row_version that was read.
AdminChange(s) ==
    LET t == txn[s]
        row == account[t.user]
    IN  /\ t.step = "update" /\ t.op \in {"role", "status", "unlock"}
        /\ IF row.version = t.read.version
             THEN /\ Change(s, IF t.op = "unlock"
                                 THEN [row EXCEPT !.failed = 0, !.lock = "none"]
                                 ELSE [row EXCEPT !.role = t.role, !.active = t.active, !.token = @ + 1])
                  /\ UNCHANGED token
             ELSE Free(s, t.user) /\ Fail(s)

-----------------------------------------------------------------------------
\* Time passes locked_until.
Expire(u) ==
    /\ account[u].lock = "until"
    /\ account' = [account EXCEPT ![u].lock = "past"]
    /\ UNCHANGED <<token, page, txn, changes>>

\* Sessions that wait for each other's rows: one of them is aborted.
Wants(t) == IF t.step = "update" THEN {t.user} ELSE t.scan
WaitsFor(s) == {r \in Sessions \ {s} : Wants(txn[s]) \cap txn[r].held # {}}
InDeadlock(s) == \E S \in SUBSET Sessions : s \in S /\ \A r \in S : WaitsFor(r) \cap S # {}
Abort(s) == InDeadlock(s) /\ Fail(s)

Submit(s) ==
    \/ \E u \in Users, correct \in BOOLEAN : BeginLogin(s, u, correct)
    \/ \E op \in {"logout", "password"} : BeginOwn(s, op)
    \/ \E u \in Users : Look(s, u)
    \/ \E op \in {"role", "status", "unlock"}, role \in Roles, active \in BOOLEAN :
          BeginAdmin(s, op, role, active)

Serve(s) ==
    \/ LoginFailure(s) \/ LoginSuccess(s) \/ Logout(s) \/ ChangePassword(s)
    \/ RequireVersion(s) \/ Protect(s) \/ (\E u \in Users : LockAdmin(s, u)) \/ ProtectLast(s) \/ AdminChange(s)
    \/ Abort(s)

Next == (\E s \in Sessions : Submit(s) \/ Serve(s)) \/ (\E u \in Users : Expire(u))

Spec == Init /\ [][Next]_vars

-----------------------------------------------------------------------------
(* Properties.                                                              *)

\* The columns' domains; a lock goes with the number of failures that set it.
TypeOK ==
    /\ account \in [Users -> [role : Roles, active : BOOLEAN, failed : Nat,
                              lock : {"none", "until", "past"}, token : Nat \ {0}, version : Nat \ {0}]]
    /\ \A u \in Users : account[u].lock # "none" <=> account[u].failed >= Attempts
    /\ \A s \in Sessions : token[s] # None => token[s].version <= account[token[s].user].token

\* Somebody can administrate: two administrators who remove each other at once,
\* or anybody in any order, never leave the shop without an active one.
AdminRemains == ActiveAdmins # {}

\* A change of role or status ends the sessions of the account: a token that is
\* accepted was issued for the role the account has.
TokensMatch ==
    \A s \in Sessions : Authenticated(s) => token[s].role = account[token[s].user].role

\* An administrator's decision applies to the account as the page showed it, not
\* to one that somebody else has changed since.
DecidedOnSeen ==
    [][\A s \in Sessions :
          /\ txn[s].op \in {"role", "status", "unlock"} /\ txn'[s] = Idle /\ changes' > changes
          => LET row == account[txn[s].user] IN
             [row EXCEPT !.lock = "none"] = [page[s].row EXCEPT !.lock = "none"]]_vars

\* No failed sign-in is lost, however many are made at once.
FailuresCounted ==
    [][\A s \in Sessions :
          /\ At(s, "login", "failure") /\ txn'[s] = Idle
          => LET u == txn[s].user IN
             account[u].lock = "past" \/ account'[u].failed = account[u].failed + 1]_vars

=============================================================================
