----------------------------- MODULE CartCheckout -----------------------------
(***************************************************************************)
(* A customer's cart in RetailMetricsWeb and its checkout, statement by    *)
(* statement at READ COMMITTED, while other browser sessions of the same   *)
(* customer change the cart, an administrator changes the catalog and an   *)
(* address is deactivated.                                                 *)
(*                                                                         *)
(* A statement finds its row in the committed state and then waits for the *)
(* row's lock.  When the row was changed meanwhile PostgreSQL checks its   *)
(* newest version against the statement's condition; when it was only      *)
(* locked, the statement goes ahead with what it had found.  The writes of *)
(* a transaction become visible, and are made here, when it commits.  One  *)
(* of the transactions that wait in a circle is aborted.                   *)
(***************************************************************************)
EXTENDS Naturals, Sequences, FiniteSets

CONSTANTS
    Products, Prices,
    Addresses,     \* the customer's saved addresses
    Sessions,      \* browser sessions of the customer
    Admins,
    MaxQuantity,   \* ck_cart_items_quantity, 99 in the code
    MaxCarts,      \* bound: carts ever made
    MaxItems,      \* bound: cart items ever made
    MaxVersion,    \* bound: row_versions of a cart
    MaxChanges,    \* bound: changes of the catalog and of the addresses
    None

ASSUME BoundsAssumption ==
    /\ 0 \notin Prices
    /\ {MaxQuantity, MaxCarts, MaxItems, MaxVersion, MaxChanges} \subseteq Nat
    /\ Sessions \cap Admins = {} /\ None \notin Nat

VARIABLES
    carts,         \* the customer's shopping_carts rows with their items, oldest first
    serial,        \* cart_item_ids given out
    catalog,       \* [Products -> the product_catalog_details row]
    active,        \* the addresses that are active
    changes,       \* changes of the catalog and the addresses so far
    orders,        \* the orders placed, oldest first
    shown,         \* [Sessions -> the cart as the session last read it]
    txn,           \* [Clients -> the transaction in flight]
    locks          \* row locks held: records [row, mode, by]

rows == <<carts, serial, catalog, active, changes, orders>>
vars == <<rows, shown, txn, locks>>

Clients == Sessions \cup Admins

\* A transaction: where it is and what it knows.
Blank == [op |-> "idle", step |-> "none", cart |-> None, locking |-> None, item |-> None,
          product |-> None, products |-> {}, quantity |-> 0, price |-> 0, version |-> 0, address |-> None,
          available |-> FALSE, items |-> {}]

NothingShown == [cart |-> None, version |-> 0, items |-> {}]

Init ==
    /\ carts = <<>> /\ serial = 0 /\ orders = <<>> /\ changes = 0
    /\ catalog \in [Products -> [price : Prices, available : {TRUE}, version : {1}]]
    /\ active = Addresses
    /\ shown = [s \in Sessions |-> NothingShown]
    /\ txn = [c \in Clients |-> Blank]
    /\ locks = {}

InFlight(ops) == Cardinality({c \in Clients : txn[c].op \in ops})

ActiveCarts == {k \in DOMAIN carts : carts[k].status = "active"}
ActiveCart  == IF ActiveCarts = {} THEN None ELSE CHOOSE k \in ActiveCarts : TRUE
ItemsOf(k)  == IF k = None THEN {} ELSE carts[k].items
IsActive(k) == k # None /\ k \in ActiveCarts

-----------------------------------------------------------------------------
(* Locks.                                                                   *)

\* "update" is FOR UPDATE and DELETE, "write" an UPDATE of columns that are not
\* a key, "share" FOR SHARE, "key_share" what a foreign key takes.
Conflict(m1, m2) ==
    /\ "none" \notin {m1, m2}
    /\ \/ "update" \in {m1, m2}
       \/ "write" \in {m1, m2} /\ "key_share" \notin {m1, m2}

AccountLockNotForAdd(op) == IF op = "checkout" THEN "key_share" ELSE "none"    \* Mutant
CartLockNotForCheckout(op) == IF op = "checkout" THEN "none" ELSE "write"      \* Mutant
CatalogLockNotForCheckout(op) == IF op = "checkout" THEN "none" ELSE "write"   \* Mutant
AddressLockNotForCheckout(op) == IF op = "checkout" THEN "none" ELSE "update"  \* Mutant

\* Saving an order refers to the customer's account.
AccountLock(op) == IF op = "checkout" THEN "key_share" ELSE "update"
CartLock(op)    == IF op \in {"checkout", "add"} THEN "update" ELSE "write"
ItemLock(op)    == IF op = "update" THEN "write" ELSE "update"
CatalogLock(op) == IF op = "checkout" THEN "share" ELSE "write"
AddressLock(op) == IF op = "checkout" THEN "share" ELSE "update"

\* Mutant: a deletion locks the cart before its item.
WantedCartFirst(t) ==
    LET swapped == [item |-> "cart", cart |-> "item"]
        step == IF t.op = "delete" /\ t.step \in DOMAIN swapped THEN swapped[t.step] ELSE t.step
        cart == IF t.op = "delete" THEN t.cart ELSE t.locking
    IN  CASE step = "account" -> {[row |-> <<"account">>, mode |-> AccountLock(t.op)]}
          [] step = "cart"    -> {[row |-> <<"cart", cart>>, mode |-> CartLock(t.op)]}
          [] step = "item"    -> {[row |-> <<"item", t.item>>, mode |-> ItemLock(t.op)]}
          [] step = "items"   -> {[row |-> <<"item", i.id>>, mode |-> ItemLock(t.op)] : i \in t.items}
          [] step = "catalog" -> {[row |-> <<"catalog", p>>, mode |-> CatalogLock(t.op)] : p \in t.products}
          [] step = "address" -> {[row |-> <<"address", t.address>>, mode |-> AddressLock(t.op)]}
          [] OTHER -> {}

\* The rows a transaction is about to lock.
Wanted(t) ==
    CASE t.step = "account" -> {[row |-> <<"account">>, mode |-> AccountLock(t.op)]}
      [] t.step = "cart"    -> {[row |-> <<"cart", t.locking>>, mode |-> CartLock(t.op)]}
      [] t.step = "item"    -> {[row |-> <<"item", t.item>>, mode |-> ItemLock(t.op)]}
      [] t.step = "items"   -> {[row |-> <<"item", i.id>>, mode |-> ItemLock(t.op)] : i \in t.items}
      [] t.step = "catalog" -> {[row |-> <<"catalog", p>>, mode |-> CatalogLock(t.op)] : p \in t.products}
      [] t.step = "address" -> {[row |-> <<"address", t.address>>, mode |-> AddressLock(t.op)]}
      [] OTHER -> {}

Blocking(c) ==
    {l \in locks : l.by # c /\ \E w \in Wanted(txn[c]) : w.row = l.row /\ Conflict(w.mode, l.mode)}

\* Mutant: the locks stay with the pooled connection.
ReleaseKeepingLocks(c) == txn' = [txn EXCEPT ![c] = Blank] /\ locks' = locks

Release(c) ==
    /\ txn' = [txn EXCEPT ![c] = Blank]
    /\ locks' = {l \in locks : l.by # c}

Fail(c) == Release(c) /\ UNCHANGED rows

\* The statement gets its lock; if what it finds is in order, the transaction
\* goes on as t, and otherwise it is rolled back.
Get(c, inOrder, t) ==
    /\ Blocking(c) = {}
    /\ IF inOrder
         THEN /\ txn' = [txn EXCEPT ![c] = t]
              /\ locks' = locks \cup {[row |-> w.row, mode |-> w.mode, by |-> c] : w \in Wanted(txn[c])}
              /\ UNCHANGED rows
         ELSE Fail(c)

At(c, op, step) == txn[c].op = op /\ txn[c].step = step

Begin(c, t) ==
    /\ txn[c] = Blank
    /\ txn' = [txn EXCEPT ![c] = t]
    /\ UNCHANGED <<rows, locks>>

-----------------------------------------------------------------------------
(* GET /customer/cart reads the cart and then, in a second statement, the   *)
(* items of the active cart.                                                *)

LookItemsFirst(s) ==    \* Mutant
    \/ /\ ActiveCart # None
       /\ Begin(s, [Blank EXCEPT !.op = "look", !.step = "items", !.items = ItemsOf(ActiveCart)])
       /\ UNCHANGED shown
    \/ /\ At(s, "look", "items")
       /\ ActiveCart # None
       /\ shown' = [shown EXCEPT ![s] = [cart |-> ActiveCart, version |-> carts[ActiveCart].version,
                                         items |-> txn[s].items]]
       /\ Fail(s)

Look(s) ==
    \/ /\ ActiveCart # None
       /\ Begin(s, [Blank EXCEPT !.op = "look", !.step = "items", !.cart = ActiveCart,
                                 !.version = carts[ActiveCart].version])
       /\ UNCHANGED shown
    \/ /\ At(s, "look", "items")
       /\ shown' = [shown EXCEPT ![s] = [cart |-> txn[s].cart, version |-> txn[s].version,
                                         items |-> ItemsOf(ActiveCart)]]
       /\ Fail(s)

-----------------------------------------------------------------------------
(* POST /customer/cart/items.  The price is read before any lock is taken.  *)

BeginAdd(s) ==
    \E p \in Products, q \in 1..MaxQuantity :
        /\ catalog[p].available
        /\ Begin(s, [Blank EXCEPT !.op = "add", !.step = "account", !.product = p,
                                  !.quantity = q, !.price = catalog[p].price])

AddAccount(s) ==
    /\ At(s, "add", "account")
    /\ Get(s, TRUE, [txn[s] EXCEPT !.step = IF ActiveCart = None THEN "commit" ELSE "cart",
                                   !.locking = ActiveCart])

SameProduct(k, p) == {i \in ItemsOf(k) : i.product = p}

\* A cart converted while the statement waited is not returned.
AddCart(s) ==
    LET t == txn[s]
        k == IF IsActive(t.locking) THEN t.locking ELSE None
        same == SameProduct(k, t.product)
    IN  /\ At(s, "add", "cart")
        /\ Get(s, TRUE, [t EXCEPT !.cart = k,
                                  !.step = IF same = {} THEN "commit" ELSE "item",
                                  !.item = IF same = {} THEN None ELSE (CHOOSE i \in same : TRUE).id])

AddItemUnchecked(s) ==   \* Mutant: the sum of the quantities is not checked.
    LET t == txn[s]
        now == {i \in ItemsOf(t.cart) : i.id = t.item}
    IN  /\ At(s, "add", "item")
        /\ Get(s, TRUE, [t EXCEPT !.step = "commit", !.item = IF now = {} THEN None ELSE @])

\* The item may have been changed, or deleted, while the statement waited.
AddItem(s) ==
    LET t == txn[s]
        now == {i \in ItemsOf(t.cart) : i.id = t.item}
    IN  /\ At(s, "add", "item")
        /\ Get(s, \A i \in now : i.quantity + t.quantity <= MaxQuantity,
                  [t EXCEPT !.step = "commit", !.item = IF now = {} THEN None ELSE @])

AddCommit(s) ==
    LET t == txn[s]
        more  == [id |-> serial + 1, product |-> t.product, quantity |-> t.quantity,
                  price |-> t.price, version |-> 1]
        items == IF t.item = None
                   THEN ItemsOf(t.cart) \cup {more}
                   ELSE {IF i.id = t.item THEN [i EXCEPT !.quantity = @ + t.quantity, !.version = @ + 1]
                                          ELSE i : i \in ItemsOf(t.cart)}
    IN  /\ At(s, "add", "commit")
        /\ carts' = IF t.cart = None
                      THEN Append(carts, [status |-> "active", version |-> 2, items |-> items])
                      ELSE [carts EXCEPT ![t.cart].items = items, ![t.cart].version = @ + 1]
        /\ serial' = IF t.item = None THEN serial + 1 ELSE serial
        /\ Release(s)
        /\ UNCHANGED <<catalog, active, changes, orders>>

-----------------------------------------------------------------------------
(* PUT and DELETE /customer/cart/items: an item the session has read, with   *)
(* its row_version, in the active cart.  The item is locked before the cart. *)

BeginChange(s, op) ==
    \E i \in shown[s].items, q \in 1..MaxQuantity :
        /\ i \in ItemsOf(ActiveCart)
        /\ op = "delete" => q = 1
        /\ Begin(s, [Blank EXCEPT !.op = op, !.step = "item", !.item = i.id, !.cart = ActiveCart,
                                  !.version = i.version, !.quantity = q])

\* An update bumps the cart it found the item in, a deletion the cart that is
\* active by then, if there is one.
ChangeItem(s, op) ==
    LET t == txn[s]
        k == IF op = "update" THEN t.cart ELSE ActiveCart
    IN  /\ At(s, op, "item")
        /\ Get(s, \E i \in ItemsOf(t.cart) : i.id = t.item /\ i.version = t.version,
                  [t EXCEPT !.locking = k, !.step = IF k = None THEN "commit" ELSE "cart"])

\* An update ends with reading the item in the active cart; it fails when the
\* cart has been converted.
ChangeCart(s, op) ==
    LET t == txn[s] IN
    /\ At(s, op, "cart")
    /\ Get(s, op = "update" => IsActive(t.cart),
              [t EXCEPT !.step = "commit", !.locking = IF IsActive(@) THEN @ ELSE None])

UpdateCommit(s) ==
    LET t == txn[s] IN
    /\ At(s, "update", "commit")
    /\ carts' = [carts EXCEPT ![t.cart].version = @ + 1,
                              ![t.cart].items =
                   {IF i.id = t.item THEN [i EXCEPT !.quantity = t.quantity, !.version = @ + 1]
                                     ELSE i : i \in @}]
    /\ Release(s)
    /\ UNCHANGED <<serial, catalog, active, changes, orders>>

DeleteCommit(s) ==
    LET t == txn[s] IN
    /\ At(s, "delete", "commit")
    /\ carts' = [k \in DOMAIN carts |->
                   [carts[k] EXCEPT !.items = IF k = t.cart THEN {i \in @ : i.id # t.item} ELSE @,
                                    !.version = IF k = t.locking THEN @ + 1 ELSE @]]
    /\ Release(s)
    /\ UNCHANGED <<serial, catalog, active, changes, orders>>

-----------------------------------------------------------------------------
(* POST /customer/checkout: an address and the row_version last read.       *)

BeginCheckout(s) ==
    \E a \in Addresses :
        /\ ActiveCart # None
        /\ Begin(s, [Blank EXCEPT !.op = "checkout", !.step = "cart", !.locking = ActiveCart,
                                  !.cart = ActiveCart, !.version = shown[s].version, !.address = a])

CheckoutCart(s) ==
    LET t == txn[s] IN
    /\ At(s, "checkout", "cart")
    /\ Get(s, IsActive(t.cart) /\ carts[t.cart].version = t.version /\ ItemsOf(t.cart) # {},
              [t EXCEPT !.step = "items", !.items = ItemsOf(t.cart)])

\* The items are locked in the order of their ids and their products one by
\* one; holding some of them while waiting for the next makes no difference
\* here, so each is one step.
CheckoutItems(s) ==
    LET t == txn[s] IN
    /\ At(s, "checkout", "items")
    /\ Get(s, TRUE, [t EXCEPT !.step = "catalog", !.products = {i.product : i \in t.items}])

CheckoutCatalog(s) ==
    LET t == txn[s] IN
    /\ At(s, "checkout", "catalog")
    /\ Get(s, \A i \in t.items : catalog[i.product].available /\ catalog[i.product].price = i.price,
              [t EXCEPT !.step = "address"])

CheckoutAddress(s) ==
    LET t == txn[s] IN
    /\ At(s, "checkout", "address")
    /\ Get(s, t.address \in active, [t EXCEPT !.step = "account"])

CheckoutAccount(s) ==
    /\ At(s, "checkout", "account")
    /\ Get(s, TRUE, [txn[s] EXCEPT !.step = "commit"])

Lines(items) == {[product |-> i.product, quantity |-> i.quantity, price |-> i.price] : i \in items}

CheckoutCommit(s) ==
    LET t == txn[s] IN
    /\ At(s, "checkout", "commit")
    /\ orders' = Append(orders, [cart |-> t.cart, lines |-> Lines(t.items), address |-> t.address, by |-> s])
    /\ carts' = [carts EXCEPT ![t.cart].status = "converted", ![t.cart].version = @ + 1]
    /\ Release(s)
    /\ UNCHANGED <<serial, catalog, active, changes>>

-----------------------------------------------------------------------------
(* What others change meanwhile.                                            *)

\* PUT /admin/catalog: with the row_version the administrator read.
BeginConfigure(c) ==
    \E p \in Products, price \in Prices, available \in BOOLEAN :
        /\ changes + InFlight({"configure", "deactivate"}) < MaxChanges
        /\ Begin(c, [Blank EXCEPT !.op = "configure", !.step = "catalog", !.product = p, !.products = {p},
                                  !.version = catalog[p].version, !.price = price, !.available = available])

Configure(c) ==
    LET t == txn[c] IN
    /\ At(c, "configure", "catalog")
    /\ Get(c, catalog[t.product].version = t.version, [t EXCEPT !.step = "commit"])

ConfigureCommit(c) ==
    LET t == txn[c] IN
    /\ At(c, "configure", "commit")
    /\ catalog' = [catalog EXCEPT ![t.product] = [price |-> t.price, available |-> t.available,
                                                  version |-> t.version + 1]]
    /\ changes' = changes + 1
    /\ Release(c)
    /\ UNCHANGED <<carts, serial, active, orders>>

\* POST /customer/addresses/deactivate: the account is locked, then the address.
BeginDeactivate(s) ==
    \E a \in active :
        /\ changes + InFlight({"configure", "deactivate"}) < MaxChanges
        /\ Begin(s, [Blank EXCEPT !.op = "deactivate", !.step = "account", !.address = a])

DeactivateAccount(s) ==
    /\ At(s, "deactivate", "account")
    /\ Get(s, TRUE, [txn[s] EXCEPT !.step = "address"])

DeactivateAddress(s) ==
    /\ At(s, "deactivate", "address")
    /\ Get(s, txn[s].address \in active, [txn[s] EXCEPT !.step = "commit"])

DeactivateCommit(s) ==
    /\ At(s, "deactivate", "commit")
    /\ active' = active \ {txn[s].address}
    /\ changes' = changes + 1
    /\ Release(s)
    /\ UNCHANGED <<carts, serial, catalog, orders>>

-----------------------------------------------------------------------------
\* Who waits for whom, and for themselves in the end.
WaitsFor(c) == {l.by : l \in Blocking(c)}

Waiting     == {c \in Clients : WaitsFor(c) # {}}
Circle(S)   == S # {} /\ \A c \in S : WaitsFor(c) \cap S # {}

InDeadlock(c) == c \in Waiting /\ \E S \in SUBSET Waiting : c \in S /\ Circle(S)

\* PostgreSQL's deadlock_timeout ends one of the transactions of a circle.
Abort(c) == InDeadlock(c) /\ Fail(c)

Add(s) == AddAccount(s) \/ AddCart(s) \/ AddItem(s) \/ AddCommit(s)
Change(s) ==
    \/ \E op \in {"update", "delete"} : ChangeItem(s, op) \/ ChangeCart(s, op)
    \/ UpdateCommit(s) \/ DeleteCommit(s)
Checkout(s) ==
    \/ CheckoutCart(s) \/ CheckoutItems(s) \/ CheckoutCatalog(s)
    \/ CheckoutAddress(s) \/ CheckoutAccount(s) \/ CheckoutCommit(s)
Deactivate(s) == DeactivateAccount(s) \/ DeactivateAddress(s) \/ DeactivateCommit(s)

\* The bounds leave room for what the requests in flight may still make.
WithinBounds(op) ==
    /\ op = "add" => /\ ActiveCart = None => Len(carts) < MaxCarts
                     /\ serial + InFlight({"add"}) < MaxItems
    /\ \A k \in ActiveCarts : carts[k].version + InFlight({"add", "update", "delete"}) < MaxVersion

Submit(s) ==
    \/ WithinBounds("add") /\ BeginAdd(s)
    \/ \E op \in {"update", "delete"} : WithinBounds(op) /\ BeginChange(s, op)
    \/ BeginCheckout(s) \/ BeginDeactivate(s)

Serve(c) ==
    \/ (Add(c) \/ Change(c) \/ Checkout(c) \/ Deactivate(c) \/ Configure(c) \/ ConfigureCommit(c))
         /\ UNCHANGED shown
    \/ Abort(c) /\ UNCHANGED shown

Next ==
    \/ \E s \in Sessions : Look(s) \/ (Submit(s) /\ UNCHANGED shown)
    \/ \E c \in Admins : BeginConfigure(c) /\ UNCHANGED shown
    \/ \E c \in Clients : Serve(c)

Spec == Init /\ [][Next]_vars

-----------------------------------------------------------------------------
(* Properties.                                                              *)

\* The columns' domains and constraints, uniqueness of a product in a cart
\* among them; and, added to from two windows at once, one active cart: the lock
\* on the account is enough, and uq_shopping_carts_active_customer never needed.
TypeOK ==
    /\ Cardinality(ActiveCarts) <= 1
    /\ \A k \in DOMAIN carts :
         /\ carts[k].status \in {"active", "converted"} /\ carts[k].version \in Nat \ {0}
         /\ \A i \in carts[k].items :
              /\ i.id \in 1..serial /\ i.product \in Products /\ i.price \in Prices
              /\ i.quantity \in 1..MaxQuantity /\ i.version \in Nat \ {0}
              /\ SameProduct(k, i.product) = {i}
    /\ catalog \in [Products -> [price : Prices, available : BOOLEAN, version : Nat \ {0}]]
    /\ active \subseteq Addresses
    /\ \A n \in DOMAIN orders : orders[n].lines # {} /\ orders[n].cart \in DOMAIN carts
    /\ shown \in [Sessions -> [cart : (Nat \ {0}) \cup {None}, version : Nat, items : SUBSET
                    [id : Nat, product : Products, quantity : 1..MaxQuantity, price : Prices, version : Nat]]]

\* At the moment of the order its products are available, the catalog asks what the
\* customer is charged, and the address it is shipped to is active.
OrderedAsOffered ==
    [][\A n \in DOMAIN orders' \ DOMAIN orders :
          /\ orders'[n].address \in active
          /\ \A line \in orders'[n].lines :
                catalog[line.product].available /\ catalog[line.product].price = line.price]_vars

\* A cart is ordered once, under the row_version the session last read: the order has
\* exactly the items, quantities and prices it read then.  The row_version does not
\* name a cart, so it may be that of another one, but only when the cart the session
\* read has been checked out since.
ShownIsOrdered ==
    [][\A n \in DOMAIN orders' \ DOMAIN orders :
          LET read == shown[orders'[n].by]
              k    == orders'[n].cart
          IN  /\ \A m \in DOMAIN orders : orders[m].cart # k
              /\ read.version = carts[k].version
              /\ IF read.cart = k THEN Lines(read.items) = orders'[n].lines
                                  ELSE carts[read.cart].status = "converted"]_vars

\* README: converted carts are retained as history.
ConvertedCartKept ==
    \A n \in DOMAIN orders : Lines(carts[orders[n].cart].items) = orders[n].lines

\* Requests wait only for requests that still run, never for a reader of the cart or
\* for one that has ended; and they wait in a circle only if a checkout is among
\* them with a request that changes the cart or an address, or an addition with a
\* change.  Two windows doing the same thing never do.
WaitsEnd ==
    /\ \A c \in Waiting : \A d \in WaitsFor(c) : txn[d].op \notin {"idle", "look"}
    /\ \A S \in SUBSET Waiting :
          LET Ops == {txn[c].op : c \in S} IN
          Circle(S) => \/ "checkout" \in Ops /\ Ops \cap {"add", "update", "delete", "deactivate"} # {}
                       \/ "add" \in Ops /\ Ops \cap {"update", "delete"} # {}

=============================================================================
