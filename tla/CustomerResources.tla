--------------------------- MODULE CustomerResources ---------------------------
(***************************************************************************)
(* The saved addresses of a customer in RetailMetricsWeb, with the default *)
(* one among them, changed from several browser sessions at once.  Payment *)
(* methods are kept by the same statements in a table of their own.        *)
(*                                                                         *)
(* A request reads the row and compares its row_version, takes the lock on *)
(* the customer's account (an edit does not), takes the lock on the row    *)
(* and looks at it again, and writes: what to write follows from the rows  *)
(* as they are then, and is seen by others when the request commits.       *)
(***************************************************************************)
EXTENDS Naturals, Sequences

CONSTANTS
    Sessions,      \* browser sessions of the customer
    Texts,         \* what an address may say
    MaxRows,       \* bound: addresses ever saved
    MaxVersion,    \* bound: row_versions of an address
    None

ASSUME BoundsAssumption == {MaxRows, MaxVersion} \subseteq Nat \ {0}

VARIABLES
    rows,          \* the customer_addresses rows of the customer, by id
    page,          \* [Sessions -> the rows as the session last read them]
    txn            \* [Sessions -> the request in flight]

vars == <<rows, page, txn>>

Ops == {"create", "update", "set_default", "deactivate"}
AccountOps == Ops \ {"update"}

\* A request: what it does, the statement it has come to, the row it is about,
\* that row as the session had read it, and the other rows it has updated.
Idle == [op |-> "idle", step |-> "none", id |-> 0, text |-> None, default |-> FALSE, read |-> None,
         undefaulted |-> {}, promoted |-> {}]

Init ==
    /\ rows = <<>>
    /\ page = [s \in Sessions |-> <<>>]
    /\ txn = [s \in Sessions |-> Idle]

-----------------------------------------------------------------------------
ActiveRows  == {k \in DOMAIN rows : rows[k].active}
DefaultRows == {k \in ActiveRows : rows[k].default}

At(s, step) == txn[s].step = step

HoldsAccountNever(s) == FALSE                                \* Mutant: no lock.

\* _lock_account, until the transaction ends.
HoldsAccount(s) == txn[s].op \in AccountOps /\ txn[s].step \in {"row", "write", "commit"}

\* The row selected FOR UPDATE, and the rows updated.
HoldsRow(s, k) ==
    \/ txn[s].step \in {"write", "commit"} /\ txn[s].id = k
    \/ k \in txn[s].undefaulted \cup txn[s].promoted

AllFree(s, S) == \A r \in Sessions \ {s}, k \in S : ~HoldsRow(r, k)

Bumped(row) == [row EXCEPT !.version = @ + 1]

-----------------------------------------------------------------------------
(* The requests.                                                            *)

\* GET /customer/addresses.
Look(s) ==
    /\ txn[s] = Idle
    /\ page' = [page EXCEPT ![s] = rows]
    /\ UNCHANGED <<rows, txn>>

BeginCreate(s, text, default) ==
    /\ txn[s] = Idle
    /\ Len(rows) < MaxRows
    /\ txn' = [txn EXCEPT ![s] = [Idle EXCEPT !.op = "create", !.step = "account",
                                              !.text = text, !.default = default]]
    /\ UNCHANGED <<rows, page>>

\* The service reads the row first: its row_version must be the one that the
\* session sends, and an inactive address is neither made the default nor
\* deactivated.
BeginOn(s, op, k, text) ==
    /\ txn[s] = Idle
    /\ k \in DOMAIN page[s]
    /\ rows[k].version = page[s][k].version
    /\ op # "update" => rows[k].active
    /\ txn' = [txn EXCEPT ![s] = [Idle EXCEPT !.op = op, !.id = k, !.text = text, !.read = page[s][k],
                                              !.step = IF op = "update" THEN "row" ELSE "account"]]
    /\ UNCHANGED <<rows, page>>

LockAccount(s) ==
    /\ At(s, "account")
    /\ \A r \in Sessions \ {s} : ~HoldsAccount(r)
    /\ txn' = [txn EXCEPT ![s].step = IF txn[s].op = "create" THEN "write" ELSE "row"]
    /\ UNCHANGED <<rows, page>>

LockRowUnchecked(s) ==     \* Mutant: the row is not compared again, once it is locked.
    /\ At(s, "row")
    /\ AllFree(s, {txn[s].id})
    /\ txn' = [txn EXCEPT ![s].step = IF txn[s].op = "update" THEN "commit" ELSE "write"]
    /\ UNCHANGED <<rows, page>>

\* A row of another version, or one that became inactive, answers 409.
LockRow(s) ==
    LET row == rows[txn[s].id] IN
    /\ At(s, "row")
    /\ AllFree(s, {txn[s].id})
    /\ IF row.version = txn[s].read.version /\ (txn[s].op = "set_default" => row.active)
         THEN txn' = [txn EXCEPT ![s].step = IF txn[s].op = "update" THEN "commit" ELSE "write"]
         ELSE txn' = [txn EXCEPT ![s] = Idle]
    /\ UNCHANGED <<rows, page>>

-----------------------------------------------------------------------------
(* The statements that write.                                               *)

Lowest(S) == CHOOSE k \in S : \A j \in S : k <= j

\* The UPDATEs wait for the rows they find.
Write(s, default, undefaulted, promoted) ==
    /\ At(s, "write")
    /\ AllFree(s, undefaulted \cup promoted)
    /\ txn' = [txn EXCEPT ![s].step = "commit", ![s].default = default,
                          ![s].undefaulted = undefaulted, ![s].promoted = promoted]
    /\ UNCHANGED <<rows, page>>

\* The first active address becomes the default in any case.
Create(s) ==
    LET default == txn[s].default \/ DefaultRows = {} IN
    /\ txn[s].op = "create"
    /\ Write(s, default, IF default THEN DefaultRows ELSE {}, {})

SetDefault(s) ==
    /\ txn[s].op = "set_default"
    /\ Write(s, TRUE, DefaultRows \ {txn[s].id}, {})

DeactivateWithoutOrder(s) ==                                 \* Mutant: no ORDER BY.
    LET left == ActiveRows \ {txn[s].id} IN
    /\ txn[s].op = "deactivate"
    /\ \E promoted \in IF rows[txn[s].id].default /\ left # {} THEN {{k} : k \in left} ELSE {{}} :
         Write(s, FALSE, {}, promoted)

\* The default passes to the active address with the lowest id, if one is left.
Heir(k) ==
    LET left == ActiveRows \ {k} IN IF rows[k].default /\ left # {} THEN {Lowest(left)} ELSE {}

Deactivate(s) ==
    /\ txn[s].op = "deactivate"
    /\ Write(s, FALSE, {}, Heir(txn[s].id))

\* The row that the request is about.
Written(s, row) ==
    CASE txn[s].op = "update"      -> [Bumped(row) EXCEPT !.text = txn[s].text]
      [] txn[s].op = "set_default" -> [Bumped(row) EXCEPT !.default = TRUE]
      [] txn[s].op = "deactivate"  -> [Bumped(row) EXCEPT !.active = FALSE, !.default = FALSE]

Commit(s) ==
    LET others == [k \in DOMAIN rows |->
                     IF k \in txn[s].undefaulted THEN [Bumped(rows[k]) EXCEPT !.default = FALSE]
                     ELSE IF k \in txn[s].promoted THEN [Bumped(rows[k]) EXCEPT !.default = TRUE]
                     ELSE rows[k]]
    IN  /\ At(s, "commit")
        /\ rows' = IF txn[s].op = "create"
                     THEN Append(others, [active |-> TRUE, default |-> txn[s].default,
                                          version |-> 1, text |-> txn[s].text])
                     ELSE [others EXCEPT ![txn[s].id] = Written(s, @)]
        /\ txn' = [txn EXCEPT ![s] = Idle]
        /\ UNCHANGED page

-----------------------------------------------------------------------------
\* The bound: every row could still be bumped by each request in flight.
WithinBounds == \A k \in DOMAIN rows : rows[k].version < MaxVersion

Submit(s) ==
    /\ WithinBounds
    /\ \/ \E text \in Texts, default \in BOOLEAN : BeginCreate(s, text, default)
       \/ \E k \in DOMAIN rows, text \in Texts : BeginOn(s, "update", k, text)
       \/ \E k \in DOMAIN rows, op \in {"set_default", "deactivate"} : BeginOn(s, op, k, None)

Serve(s) ==
    LockAccount(s) \/ LockRow(s) \/ Create(s) \/ SetDefault(s) \/ Deactivate(s) \/ Commit(s)

Next == \E s \in Sessions : Look(s) \/ Submit(s) \/ Serve(s)

Spec == Init /\ [][Next]_vars

-----------------------------------------------------------------------------
(* Properties.                                                              *)

Row == [active : BOOLEAN, default : BOOLEAN, version : Nat \ {0}, text : Texts]

\* The types; every request names a row that exists, and an active one when it
\* has locked it to make it the default.
TypeOK ==
    /\ rows \in Seq(Row)
    /\ page \in [Sessions -> Seq(Row)]
    /\ txn \in [Sessions -> [op : Ops \cup {"idle"}, step : {"none", "account", "row", "write", "commit"},
                             id : Nat, text : Texts \cup {None}, default : BOOLEAN, read : Row \cup {None},
                             undefaulted : SUBSET Nat, promoted : SUBSET Nat]]
    /\ \A s \in Sessions :
         /\ txn[s].op \in Ops \ {"create"} => txn[s].id \in DOMAIN rows
         /\ txn[s].step \in {"write", "commit"} /\ txn[s].op = "set_default" => rows[txn[s].id].active

\* A customer with an active address has exactly one default, an active one,
\* whatever is created, chosen and deactivated at once: a checkout page always
\* has an address to start from, and uq_customer_addresses_active_default is
\* never violated.
OneDefault ==
    /\ \A k \in DOMAIN rows : rows[k].default => rows[k].active
    /\ ActiveRows # {} => \E k \in DOMAIN rows : DefaultRows = {k}

\* What a request has decided under the lock on the account is still right when
\* it commits: edits that do not take that lock change neither which addresses
\* are active nor which one is the default.
PlansHold ==
    \A s \in Sessions : At(s, "commit") =>
        /\ txn[s].op = "create" =>
             txn[s].undefaulted = IF txn[s].default THEN DefaultRows ELSE {}
        /\ txn[s].op = "create" /\ ~txn[s].default => DefaultRows # {}
        /\ txn[s].op = "set_default" =>
             txn[s].undefaulted = DefaultRows \ {txn[s].id}
        /\ txn[s].op = "deactivate" => txn[s].promoted = Heir(txn[s].id)

\* README: a deactivated default passes to the lowest id that is active.
LowestPromoted ==
    [][\A k \in DefaultRows : ~rows'[k].active /\ ActiveRows # {k} =>
          DefaultRows' = {Lowest(ActiveRows \ {k})}]_vars

\* An edit or a deactivation never overwrites what its session has not seen.
SeenBeforeWritten ==
    [][\A s \in Sessions : At(s, "commit") /\ txn[s].op # "create" /\ rows' # rows /\ txn'[s] = Idle =>
          rows[txn[s].id] = txn[s].read]_vars

\* A change of the addresses does what its author saw: it overwrites no edit of the
\* other session, and the default passes to the lowest active id.
ChangedAsSeen == LowestPromoted /\ SeenBeforeWritten

=============================================================================
