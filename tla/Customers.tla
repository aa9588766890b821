------------------------------ MODULE Customers ------------------------------
(***************************************************************************)
(* What a customer has: addresses and payment methods, and the accounts    *)
(* and browser sessions that lead to them.  The two share no row but the   *)
(* account's, which is only locked by the first and only changed by the    *)
(* second, so "part" says which of them moves and the rest keeps its       *)
(* initial state.                                                          *)
(*   resources  the addresses of one account                               *)
(*   sessions   accounts and tabs, without a bag                           *)
(*   bag        the same with a visitor's bag and one change less          *)
(***************************************************************************)
EXTENDS CustomerResources

CONSTANTS
    Accounts, Tabs, Products, Limit,   \* of CustomerAccess
    MaxChanges, MaxTokens, MaxPicks    \* its bounds

VARIABLES part, account, token, store, cookie, tab, cart, mailed, bag, changes

Access == INSTANCE CustomerAccess

accessVars == <<account, token, store, cookie, tab, cart, mailed, bag, changes>>

CustomersInit ==
    /\ part \in {"resources", "sessions", "bag"}
    /\ Init /\ Access!Init
    /\ part = "resources" => account = [a \in Accounts |-> None]

CustomersNext ==
    /\ UNCHANGED part
    /\ \/ part = "resources" /\ Next /\ UNCHANGED accessVars
       \/ part # "resources" /\ Access!Next /\ UNCHANGED vars
    /\ part = "sessions" => UNCHANGED bag
    /\ part = "bag" => changes' < MaxChanges

CustomersSpec == CustomersInit /\ [][CustomersNext]_<<part, vars, accessVars>>

-----------------------------------------------------------------------------
\* Signing out, a new password and a new status end every session of a customer,
\* in whichever tab and however it was restored; a link that can still reset the
\* password was sent after the last change of it; a lock goes with its failures, and
\* a tab that shows an account has the handle to revoke what restores it.
SessionsEnd == Access!TypeOK /\ Access!SessionsEnd

\* The store has no session of which a tab was signed out: a reload, or another
\* tab with an older cookie, cannot bring it back.
SignedOutGone == Access!SignedOutGone

\* Nothing a visitor put into the bag is lost on the way to the cart at sign-in,
\* and nothing is there twice unless an answer was lost.
GuestItems == Access!GuestItems

=============================================================================
