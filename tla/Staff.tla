-------------------------------- MODULE Staff --------------------------------
(***************************************************************************)
(* What the staff works on: their own accounts and the records of the      *)
(* shop.  No request is about both, so "part" says which of them moves and *)
(* the rest keeps its initial state.                                       *)
(***************************************************************************)
EXTENDS StaffAccounts

CONSTANTS
    Base, Inputs,            \* of StaffRecords
    MaxRows, MaxVersion      \* its bounds

VARIABLES part, records, work, audited

Records == INSTANCE StaffRecords

recordVars == <<records, work, audited>>

StaffInit ==
    /\ part \in {"accounts", "records"}
    /\ Init /\ Records!Init
    /\ part = "records" => /\ \A u \in Users : account[u].active /\ account[u].role = "admin"
                           /\ \A s \in Sessions : token[s] = None

StaffNext ==
    /\ UNCHANGED part
    /\ \/ part = "accounts" /\ Next /\ UNCHANGED recordVars
       \/ part = "records" /\ Records!Next /\ UNCHANGED vars

StaffSpec == StaffInit /\ [][StaffNext]_<<part, vars, recordVars>>

-----------------------------------------------------------------------------
\* Accounts: the columns' domains, and locks that go with their failures.  Records:
\* every reference is to a row that is there, the rows of the staff's orders, and
\* no others, have items of the staff, and a visit has one order at most.
StaffTypeOK == TypeOK /\ Records!TypeOK

\* The audit trail has exactly the changes that were committed; rows of other
\* origins have none.
AuditComplete == Records!AuditComplete

\* A decision is about what its author had seen: an administrator's about the
\* account as the page showed it, the change of a record about the version of the
\* page, even if either had to wait for the row; a refund that is written is of its
\* item's order and fits in what is left of its price.
SeenBeforeChanged == DecidedOnSeen /\ Records!WrittenAsSeen /\ Records!RefundFits

=============================================================================
