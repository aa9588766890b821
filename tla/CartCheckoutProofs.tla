-------------------------- MODULE CartCheckoutProofs --------------------------
(***************************************************************************)
(* The cart and its checkout, proved for any number of sessions, products, *)
(* carts and items.  The lock on the account, which every "add" takes      *)
(* first, makes the adding session the only one that inserts; the locks on *)
(* catalog rows and address keep what a checkout has compared; and a cart's *)
(* row_version stands for its items as long as the cart is active.         *)
(***************************************************************************)
EXTENDS CartCheckout, SequenceTheorems, FiniteSetTheorems, TLAPS

Item == [id : Nat \ {0}, product : Products, quantity : 1..MaxQuantity, price : Prices, version : Nat \ {0}]

Cart == [status : {"active", "converted"}, version : Nat \ {0}, items : SUBSET Item]

Order == [cart : Nat \ {0}, lines : SUBSET [product : Products, quantity : 1..MaxQuantity, price : Prices],
          address : Addresses, by : Clients]

Txn == [op : {"idle", "look", "add", "update", "delete", "checkout", "configure", "deactivate"},
        step : {"none", "items", "account", "cart", "item", "catalog", "address", "commit"},
        cart : Nat \cup {None}, locking : Nat \cup {None}, item : Nat \cup {None},
        product : Products \cup {None}, products : SUBSET Products, quantity : Nat, price : Prices \cup {0},
        version : Nat, address : Addresses \cup {None}, available : BOOLEAN, items : SUBSET Item]

Page == [cart : (Nat \ {0}) \cup {None}, version : Nat, items : SUBSET Item]

Holds(c, row, mode) == [row |-> row, mode |-> mode, by |-> c] \in locks

\* In a cart an id and a product name an item.
KeysOK(items) ==
    \A i, j \in items : /\ i.id <= serial
                        /\ i.id = j.id \/ i.product = j.product => i = j

CartsOK ==
    /\ carts \in Seq(Cart) /\ serial \in Nat
    /\ \A k \in DOMAIN carts : KeysOK(carts[k].items)
    /\ \A j, k \in ActiveCarts : j = k

OrdersOK == orders \in Seq(Order) /\ \A n \in DOMAIN orders : orders[n].lines # {} /\ orders[n].cart \in DOMAIN carts

CatalogOK ==
    /\ catalog \in [Products -> [price : Prices, available : BOOLEAN, version : Nat \ {0}]]
    /\ active \subseteq Addresses

\* What was read of a cart under the version it still has is what is in it.
Current(k, version, items) ==
    /\ k \in DOMAIN carts
    /\ IsActive(k) => /\ version <= carts[k].version
                      /\ version = carts[k].version => items = carts[k].items

PagesOK ==
    /\ shown \in [Sessions -> Page]
    /\ \A s \in Sessions : shown[s].cart # None => Current(shown[s].cart, shown[s].version, shown[s].items)

\* What an addition knows after each of its statements.  Nobody else inserts an
\* item or a cart before it commits, because it holds the account's row.
Adding(t) ==
    /\ t.step \in {"account", "cart", "item", "commit"}
    /\ t.product \in Products /\ t.quantity \in 1..MaxQuantity /\ t.price \in Prices
    /\ t.step \in {"account", "cart"} => t.cart = None /\ t.item = None
    /\ t.step = "cart" => ActiveCarts \subseteq {t.locking}
    /\ t.step \in {"item", "commit"} /\ t.cart # None => t.cart \in DOMAIN carts
    /\ t.step \in {"item", "commit"} /\ t.cart = None => t.item = None /\ ActiveCarts = {}
    /\ t.step = "item" => /\ t.item # None
                          /\ \A i \in ItemsOf(t.cart) : i.product = t.product => i.id = t.item
    /\ t.step = "commit" /\ t.item = None => \A i \in ItemsOf(t.cart) : i.product # t.product
    /\ t.step = "commit" /\ t.item # None =>
          \A i \in ItemsOf(t.cart) : i.id = t.item => i.quantity + t.quantity <= MaxQuantity

\* A deletion raises the version of the active cart, which is the one it deletes
\* from as long as that one is active.
Deleting(t) ==
    /\ t.cart \in DOMAIN carts
    /\ t.step \in {"cart", "commit"} => (IsActive(t.cart) => t.locking = t.cart)

\* What a checkout has compared, and keeps from changing.
Checking(c, t) ==
    /\ c \in Sessions /\ t.cart \in DOMAIN carts /\ t.address \in Addresses /\ t.version = shown[c].version
    /\ t.step # "cart" => t.items # {} /\ (shown[c].cart = t.cart => t.items = shown[c].items)
    /\ t.step \in {"catalog", "address", "account", "commit"} => t.products = {i.product : i \in t.items}
    /\ t.step \in {"address", "account", "commit"} =>
         \A i \in t.items : catalog[i.product].available /\ catalog[i.product].price = i.price
    /\ t.step \in {"account", "commit"} => t.address \in active

Knows(c, t) ==
    /\ c \in Admins => t.op \in {"idle", "configure"}
    /\ t.op = "look" => t.cart \in DOMAIN carts /\ (IsActive(t.cart) => t.version <= carts[t.cart].version)
    /\ t.op = "add" => Adding(t)
    /\ t.op = "update" => t.quantity \in 1..MaxQuantity /\ t.cart \in DOMAIN carts
    /\ t.op = "delete" => Deleting(t)
    /\ t.op = "checkout" => Checking(c, t)
    /\ t.op = "configure" => t.product \in Products /\ t.products = {t.product} /\ t.price \in Prices
    /\ t.op = "deactivate" => t.address \in Addresses

\* The locks it has for that.
Keeps(c, t) ==
    /\ t.op = "add" /\ t.step \in {"cart", "item", "commit"} => Holds(c, <<"account">>, "update")
    /\ t.op = "add" /\ t.step = "commit" /\ t.item # None => Holds(c, <<"item", t.item>>, "update")
    /\ t.op = "update" /\ t.step \in {"cart", "commit"} => Holds(c, <<"item", t.item>>, "write")
    /\ t.op = "checkout" /\ t.step \in {"address", "account", "commit"} =>
         \A p \in t.products : Holds(c, <<"catalog", p>>, "share")
    /\ t.op = "checkout" /\ t.step \in {"account", "commit"} => Holds(c, <<"address", t.address>>, "share")
    /\ t.op = "configure" /\ t.step = "commit" => Holds(c, <<"catalog", t.product>>, "write")
    /\ t.op = "deactivate" /\ t.step = "commit" => Holds(c, <<"address", t.address>>, "update")

LocksOK == \A l, m \in locks : l.row = m.row /\ l.by # m.by => ~Conflict(l.mode, m.mode)

IInv ==
    /\ CartsOK /\ OrdersOK /\ CatalogOK /\ PagesOK
    /\ txn \in [Clients -> Txn]
    /\ \A c \in Clients : Knows(c, txn[c]) /\ Keeps(c, txn[c])
    /\ LocksOK
-----------------------------------------------------------------------------
(* Carts.                                                                   *)

LEMMA CartFacts ==
    ASSUME CartsOK
    PROVE  /\ DOMAIN carts = 1..Len(carts) /\ Len(carts) \in Nat
           /\ \A k \in DOMAIN carts : k \in Nat \ {0} /\ k # None /\ carts[k] \in Cart
           /\ ActiveCarts \subseteq DOMAIN carts
           /\ ActiveCarts = {} => ActiveCart = None
           /\ ActiveCarts # {} => ActiveCart \in ActiveCarts /\ ActiveCart # None
           /\ ActiveCarts \subseteq {ActiveCart}
           /\ \A k \in DOMAIN carts \cup {None} : ItemsOf(k) \subseteq Item
           /\ ItemsOf(None) = {}
           /\ \A k \in DOMAIN carts : ItemsOf(k) = carts[k].items
<1>1. carts \in Seq(Cart)  BY DEF CartsOK
<1>2. DOMAIN carts = 1..Len(carts) /\ Len(carts) \in Nat  BY <1>1
<1>3. \A k \in DOMAIN carts : k \in Nat \ {0} /\ carts[k] \in Cart  BY <1>1, <1>2
<1>4. \A k \in DOMAIN carts : k # None  BY <1>3, BoundsAssumption
<1>5. ActiveCarts \subseteq DOMAIN carts  BY DEF ActiveCarts
<1>6. ActiveCarts = {} => ActiveCart = None  BY DEF ActiveCart
<1>7. ActiveCarts # {} => ActiveCart \in ActiveCarts  BY DEF ActiveCart
<1>8. ActiveCarts \subseteq {ActiveCart}  BY <1>7 DEF CartsOK
<1>9. ItemsOf(None) = {}  BY DEF ItemsOf
<1>10. \A k \in DOMAIN carts : ItemsOf(k) = carts[k].items  BY <1>4 DEF ItemsOf
<1>11. \A k \in DOMAIN carts : ItemsOf(k) \subseteq Item  BY <1>3, <1>10 DEF Cart
<1>12. QED  BY <1>2, <1>3, <1>4, <1>5, <1>6, <1>7, <1>8, <1>9, <1>10, <1>11

\* Items that are changed but keep their ids and products still have their keys.
LEMMA ChangedKeys ==
    ASSUME NEW items \in SUBSET Item, KeysOK(items), serial \in Nat, serial' \in Nat, serial <= serial',
           NEW f \in [items -> Item], \A i \in items : f[i].id = i.id /\ f[i].product = i.product,
           NEW new, new = {f[i] : i \in items}
    PROVE  new \in SUBSET Item /\ KeysOK(new)'
<1>1. \A j \in new : \E i \in items : j = f[i]  OBVIOUS
<1>2. new \in SUBSET Item  BY <1>1
<1>3. ASSUME NEW j \in new, NEW l \in new
      PROVE  j.id <= serial' /\ (j.id = l.id \/ j.product = l.product => j = l)
  <2>1. PICK i \in items : j = f[i]  BY <1>1
  <2>2. PICK h \in items : l = f[h]  BY <1>1
  <2>3. i.id <= serial /\ (i.id = h.id \/ i.product = h.product => i = h)  BY DEF KeysOK
  <2>4. i.id \in Nat  BY DEF Item
  <2>5. QED  BY <2>1, <2>2, <2>3, <2>4
<1>4. QED  BY <1>2, <1>3 DEF KeysOK

\* What TypeOK says of the carts.
LEMMA OneAtMost == ASSUME CartsOK PROVE Cardinality(ActiveCarts) <= 1
<1>1. CASE ActiveCarts = {}  BY <1>1, FS_EmptySet
<1>2. CASE ActiveCarts # {}
  <2>1. ActiveCarts = {ActiveCart}  BY <1>2, CartFacts
  <2>2. Cardinality({ActiveCart}) = 1  BY FS_Singleton
  <2>3. QED  BY <2>1, <2>2
<1>3. QED  BY <1>1, <1>2

LEMMA Consequences == IInv => TypeOK
<1> SUFFICES ASSUME IInv PROVE TypeOK  OBVIOUS
<1>0. CartsOK /\ OrdersOK /\ CatalogOK /\ PagesOK  BY DEF IInv
<1>1. Cardinality(ActiveCarts) <= 1  BY <1>0, OneAtMost
<1>2. ASSUME NEW k \in DOMAIN carts
      PROVE  /\ carts[k].status \in {"active", "converted"} /\ carts[k].version \in Nat \ {0}
             /\ \A i \in carts[k].items :
                  /\ i.id \in 1..serial /\ i.product \in Products /\ i.price \in Prices
                  /\ i.quantity \in 1..MaxQuantity /\ i.version \in Nat \ {0}
                  /\ SameProduct(k, i.product) = {i}
  <2>1. carts[k] \in Cart /\ ItemsOf(k) = carts[k].items /\ KeysOK(carts[k].items) /\ serial \in Nat
    BY <1>0, CartFacts DEF CartsOK
  <2>2. ASSUME NEW i \in carts[k].items
        PROVE  /\ i.id \in 1..serial /\ i.product \in Products /\ i.price \in Prices
               /\ i.quantity \in 1..MaxQuantity /\ i.version \in Nat \ {0}
               /\ SameProduct(k, i.product) = {i}
    <3>1. i \in Item /\ i.id <= serial  BY <2>1 DEF Cart, KeysOK
    <3>2. \A j \in carts[k].items : j.product = i.product => j = i  BY <2>1 DEF KeysOK
    <3>3. SameProduct(k, i.product) = {i}  BY <2>1, <3>2 DEF SameProduct
    <3>4. i.id \in 1..serial  BY <2>1, <3>1 DEF Item
    <3>5. QED  BY <3>1, <3>3, <3>4 DEF Item
  <2>3. QED  BY <2>1, <2>2 DEF Cart
<1>3. shown \in [Sessions -> [cart : (Nat \ {0}) \cup {None}, version : Nat, items : SUBSET
                    [id : Nat, product : Products, quantity : 1..MaxQuantity, price : Prices, version : Nat]]]
  <2>1. Item \subseteq [id : Nat, product : Products, quantity : 1..MaxQuantity, price : Prices, version : Nat]
    BY DEF Item
  <2>2. QED  BY <1>0, <2>1 DEF PagesOK, Page
<1>4. QED  BY <1>0, <1>1, <1>2, <1>3 DEF TypeOK, OrdersOK, CatalogOK

-----------------------------------------------------------------------------
(* Locks.                                                                   *)

LEMMA Granted ==
    ASSUME LocksOK, NEW c \in Clients, Blocking(c) = {},
           locks' = locks \cup {[row |-> w.row, mode |-> w.mode, by |-> c] : w \in Wanted(txn[c])}
    PROVE  /\ LocksOK'
           /\ \A d, row, mode : Holds(d, row, mode) => Holds(d, row, mode)'
           /\ \A w \in Wanted(txn[c]) : Holds(c, w.row, w.mode)'
<1> DEFINE New == {[row |-> w.row, mode |-> w.mode, by |-> c] : w \in Wanted(txn[c])}
<1>1. \A l \in New : \E w \in Wanted(txn[c]) : l.row = w.row /\ l.mode = w.mode /\ l.by = c  OBVIOUS
<1>2. \A l \in locks, w \in Wanted(txn[c]) : l.by # c /\ w.row = l.row => ~Conflict(w.mode, l.mode)
  BY DEF Blocking
<1>3. \A m1, m2 : Conflict(m1, m2) <=> Conflict(m2, m1)  BY DEF Conflict
<1>4. locks' = locks \cup New  OBVIOUS
<1>5. \A w \in Wanted(txn[c]) : [row |-> w.row, mode |-> w.mode, by |-> c] \in New  OBVIOUS
<1> HIDE DEF New
<1>6. ASSUME NEW l \in locks', NEW m \in locks', l.row = m.row, l.by # m.by PROVE ~Conflict(l.mode, m.mode)
  <2>1. CASE l \in locks /\ m \in locks  BY <1>6, <2>1 DEF LocksOK
  <2>2. CASE l \in New /\ m \in locks  BY <1>1, <1>2, <1>6, <2>2
  <2>3. CASE l \in locks /\ m \in New  BY <1>1, <1>2, <1>3, <1>6, <2>3
  <2>4. CASE l \in New /\ m \in New  BY <1>1, <1>6, <2>4
  <2>5. QED  BY <1>4, <2>1, <2>2, <2>3, <2>4
<1>7. LocksOK'  BY <1>6 DEF LocksOK
<1>8. QED  BY <1>4, <1>5, <1>7 DEF Holds

LEMMA Released ==
    ASSUME LocksOK, NEW c, locks' = {l \in locks : l.by # c}
    PROVE  /\ LocksOK'
           /\ \A d, row, mode : d # c /\ Holds(d, row, mode) => Holds(d, row, mode)'
<1>1. LocksOK'  BY DEF LocksOK
<1>2. ASSUME NEW d, NEW row, NEW mode, d # c, Holds(d, row, mode) PROVE Holds(d, row, mode)'
  <2>1. [row |-> row, mode |-> mode, by |-> d].by = d  OBVIOUS
  <2>2. QED  BY <1>2, <2>1 DEF Holds
<1>3. QED  BY <1>1, <1>2

LEMMA Exclusion ==
    ASSUME LocksOK, NEW c, NEW d, NEW row, NEW m1, NEW m2, Holds(c, row, m1), Holds(d, row, m2), Conflict(m1, m2)
    PROVE  c = d
<1> DEFINE l == [row |-> row, mode |-> m1, by |-> c]
           m == [row |-> row, mode |-> m2, by |-> d]
<1>1. l \in locks /\ m \in locks  BY DEF Holds
<1>2. l.row = m.row /\ l.mode = m1 /\ m.mode = m2 /\ l.by = c /\ m.by = d  OBVIOUS
<1> HIDE DEF l, m
<1>3. QED  BY <1>1, <1>2 DEF LocksOK

-----------------------------------------------------------------------------
(* One transaction goes on, begins or ends, and no row changes.             *)

LEMMA SameKnowledge ==
    ASSUME UNCHANGED <<rows, shown>>, NEW c, NEW t
    PROVE  Knows(c, t)' <=> Knows(c, t)
BY DEF rows, Knows, Adding, Deleting, Checking, IsActive, ActiveCarts, ItemsOf

LEMMA KeptLocks ==
    ASSUME NEW d, NEW t, Keeps(d, t), \A row, mode : Holds(d, row, mode) => Holds(d, row, mode)'
    PROVE  Keeps(d, t)'
BY DEF Keeps

LEMMA Moves ==
    ASSUME IInv, NEW c \in Clients, NEW u \in Txn, txn' = [txn EXCEPT ![c] = u], UNCHANGED <<rows, shown>>,
           LocksOK', \A d, row, mode : d # c /\ Holds(d, row, mode) => Holds(d, row, mode)',
           Knows(c, u), Keeps(c, u)'
    PROVE  IInv'
<1>1. CartsOK' /\ OrdersOK' /\ CatalogOK' /\ PagesOK'
  BY DEF IInv, rows, CartsOK, KeysOK, ActiveCarts, OrdersOK, CatalogOK, PagesOK, Current, IsActive
<1>2. txn \in [Clients -> Txn]  BY DEF IInv
<1>3. txn' \in [Clients -> Txn]  BY <1>2
<1>4. ASSUME NEW d \in Clients, NEW t, t = txn'[d] PROVE Knows(d, t)' /\ Keeps(d, t)'
  <2>1. CASE d = c
    <3>1. t = u  BY <1>2, <1>4, <2>1
    <3>2. QED  BY <2>1, <3>1, SameKnowledge
  <2>2. CASE d # c
    <3>1. t = txn[d]  BY <1>2, <1>4, <2>2
    <3>2. Knows(d, t) /\ Keeps(d, t)  BY <3>1 DEF IInv
    <3>3. QED  BY <2>2, <3>2, SameKnowledge, KeptLocks
  <2>3. QED  BY <2>1, <2>2
<1>5. \A d \in Clients : Knows(d, txn[d])' /\ Keeps(d, txn[d])'  BY <1>4 DEF Knows, Keeps, Adding, Deleting, Checking
<1>6. QED  BY <1>1, <1>3, <1>5 DEF IInv

LEMMA BlankFacts ==
    /\ Blank \in Txn /\ Blank.op = "idle" /\ \A c : Knows(c, Blank) /\ Keeps(c, Blank) /\ Keeps(c, Blank)'
<1>1. Blank \in Txn  BY DEF Blank, Txn
<1>2. Blank.op = "idle"  BY DEF Blank
<1>3. QED  BY <1>1, <1>2 DEF Knows, Keeps

LEMMA FailStep == ASSUME IInv, NEW c \in Clients, Fail(c), shown' = shown PROVE IInv'
<1>1. txn' = [txn EXCEPT ![c] = Blank] /\ locks' = {l \in locks : l.by # c} /\ UNCHANGED <<rows, shown>>
  BY DEF Fail, Release
<1>2. LocksOK  BY DEF IInv
<1>3. LocksOK' /\ \A d, row, mode : d # c /\ Holds(d, row, mode) => Holds(d, row, mode)'  BY <1>1, <1>2, Released
<1>4. QED  BY <1>1, <1>3, BlankFacts, Moves

LEMMA BeginStep ==
    ASSUME IInv, NEW c \in Clients, NEW u \in Txn, Begin(c, u), shown' = shown, Knows(c, u),
           u.op = "add" => u.step = "account", u.op = "update" => u.step = "item", u.op = "checkout" => u.step = "cart",
           u.op \in {"configure", "deactivate"} => u.step # "commit"
    PROVE  IInv'
<1>1. txn' = [txn EXCEPT ![c] = u] /\ UNCHANGED <<rows, shown>> /\ locks' = locks  BY DEF Begin
<1>2. LocksOK'  BY <1>1 DEF IInv, LocksOK
<1>3. \A d, row, mode : Holds(d, row, mode) => Holds(d, row, mode)'  BY <1>1 DEF Holds
<1>4. Keeps(c, u)'  BY DEF Keeps, Txn
<1>5. QED  BY <1>1, <1>2, <1>3, <1>4, Moves

LEMMA BeginLook ==
    ASSUME IInv, NEW s \in Sessions, ActiveCart # None, shown' = shown,
           Begin(s, [Blank EXCEPT !.op = "look", !.step = "items", !.cart = ActiveCart,
                                  !.version = carts[ActiveCart].version])
    PROVE  IInv'
<1> DEFINE u == [Blank EXCEPT !.op = "look", !.step = "items", !.cart = ActiveCart,
                              !.version = carts[ActiveCart].version]
<1>1. CartsOK /\ s \in Clients /\ s \notin Admins  BY BoundsAssumption DEF IInv, Clients
<1>2. ActiveCart \in DOMAIN carts /\ ActiveCart \in Nat /\ carts[ActiveCart] \in Cart  BY <1>1, CartFacts
<1>3. carts[ActiveCart].version \in Nat  BY <1>2 DEF Cart
<1>4. u.op = "look" /\ u.step = "items" /\ u.cart = ActiveCart /\ u.version = carts[ActiveCart].version  BY DEF Blank
<1>5. u \in Txn  BY <1>2, <1>3 DEF Blank, Txn
<1>6. Begin(s, u)  OBVIOUS
<1> HIDE DEF u
<1>7. Knows(s, u)  BY <1>1, <1>2, <1>3, <1>4 DEF Knows
<1>8. QED  BY <1>1, <1>4, <1>5, <1>6, <1>7, BeginStep

LEMMA BeginAddStep == ASSUME IInv, NEW s \in Sessions, BeginAdd(s), shown' = shown PROVE IInv'
<1>1. PICK p \in Products, q \in 1..MaxQuantity :
        Begin(s, [Blank EXCEPT !.op = "add", !.step = "account", !.product = p, !.quantity = q, !.price = catalog[p].price])
  BY DEF BeginAdd
<1> DEFINE u == [Blank EXCEPT !.op = "add", !.step = "account", !.product = p, !.quantity = q, !.price = catalog[p].price]
<1>2. s \in Clients /\ s \notin Admins  BY BoundsAssumption DEF Clients
<1>3. catalog[p].price \in Prices  BY DEF IInv, CatalogOK
<1>4. u.op = "add" /\ u.step = "account" /\ u.product = p /\ u.quantity = q /\ u.price = catalog[p].price
      /\ u.cart = None /\ u.item = None
  BY DEF Blank
<1>5. q \in Nat  BY BoundsAssumption
<1>6. u \in Txn  BY <1>3, <1>5 DEF Blank, Txn
<1>7. Begin(s, u)  BY <1>1
<1> HIDE DEF u
<1>8. Knows(s, u)  BY <1>2, <1>3, <1>4 DEF Knows, Adding
<1>9. QED  BY <1>2, <1>4, <1>6, <1>7, <1>8, BeginStep

LEMMA BeginChangeStep ==
    ASSUME IInv, NEW s \in Sessions, NEW op \in {"update", "delete"}, BeginChange(s, op), shown' = shown
    PROVE  IInv'
<1>1. PICK i \in shown[s].items, q \in 1..MaxQuantity :
        /\ i \in ItemsOf(ActiveCart)
        /\ Begin(s, [Blank EXCEPT !.op = op, !.step = "item", !.item = i.id, !.cart = ActiveCart,
                                  !.version = i.version, !.quantity = q])
  BY DEF BeginChange
<1> DEFINE u == [Blank EXCEPT !.op = op, !.step = "item", !.item = i.id, !.cart = ActiveCart,
                              !.version = i.version, !.quantity = q]
<1>2. s \in Clients /\ s \notin Admins /\ CartsOK  BY BoundsAssumption DEF Clients, IInv
<1>3. ActiveCart \in DOMAIN carts  BY <1>1, <1>2, CartFacts
<1>4. i \in Item /\ ActiveCart \in Nat  BY <1>1, <1>2, <1>3, CartFacts
<1>5. i.id \in Nat /\ i.version \in Nat /\ q \in Nat  BY <1>4, BoundsAssumption DEF Item
<1>6. u.op = op /\ u.step = "item" /\ u.cart = ActiveCart /\ u.quantity = q  BY DEF Blank
<1>7. u \in Txn  BY <1>4, <1>5 DEF Blank, Txn
<1>8. Begin(s, u)  BY <1>1
<1> HIDE DEF u
<1>9. Knows(s, u)  BY <1>2, <1>3, <1>6 DEF Knows, Deleting
<1>10. QED  BY <1>2, <1>6, <1>7, <1>8, <1>9, BeginStep

LEMMA BeginCheckoutStep == ASSUME IInv, NEW s \in Sessions, BeginCheckout(s), shown' = shown PROVE IInv'
<1>1. PICK a \in Addresses :
        /\ ActiveCart # None
        /\ Begin(s, [Blank EXCEPT !.op = "checkout", !.step = "cart", !.locking = ActiveCart,
                                  !.cart = ActiveCart, !.version = shown[s].version, !.address = a])
  BY DEF BeginCheckout
<1> DEFINE u == [Blank EXCEPT !.op = "checkout", !.step = "cart", !.locking = ActiveCart,
                              !.cart = ActiveCart, !.version = shown[s].version, !.address = a]
<1>2. s \in Clients /\ s \notin Admins /\ CartsOK  BY BoundsAssumption DEF Clients, IInv
<1>3. ActiveCart \in DOMAIN carts /\ ActiveCart \in Nat  BY <1>1, <1>2, CartFacts
<1>4. shown[s].version \in Nat  BY DEF IInv, PagesOK, Page
<1>5. u.op = "checkout" /\ u.step = "cart" /\ u.cart = ActiveCart /\ u.version = shown[s].version /\ u.address = a
  BY DEF Blank
<1>6. u \in Txn  BY <1>3, <1>4 DEF Blank, Txn
<1>7. Begin(s, u)  BY <1>1
<1> HIDE DEF u
<1>8. Knows(s, u)  BY <1>2, <1>3, <1>5 DEF Knows, Checking
<1>9. QED  BY <1>2, <1>5, <1>6, <1>7, <1>8, BeginStep

LEMMA BeginConfigureStep == ASSUME IInv, NEW c \in Admins, BeginConfigure(c), shown' = shown PROVE IInv'
<1>1. PICK p \in Products, price \in Prices, available \in BOOLEAN :
        Begin(c, [Blank EXCEPT !.op = "configure", !.step = "catalog", !.product = p, !.products = {p},
                               !.version = catalog[p].version, !.price = price, !.available = available])
  BY DEF BeginConfigure
<1> DEFINE u == [Blank EXCEPT !.op = "configure", !.step = "catalog", !.product = p, !.products = {p},
                              !.version = catalog[p].version, !.price = price, !.available = available]
<1>2. c \in Clients  BY DEF Clients
<1>3. catalog[p].version \in Nat  BY DEF IInv, CatalogOK
<1>4. u.op = "configure" /\ u.step = "catalog" /\ u.product = p /\ u.products = {p} /\ u.price = price  BY DEF Blank
<1>5. u \in Txn  BY <1>3 DEF Blank, Txn
<1>6. Begin(c, u)  BY <1>1
<1> HIDE DEF u
<1>7. Knows(c, u)  BY <1>4 DEF Knows
<1>8. QED  BY <1>2, <1>4, <1>5, <1>6, <1>7, BeginStep

LEMMA BeginDeactivateStep == ASSUME IInv, NEW s \in Sessions, BeginDeactivate(s), shown' = shown PROVE IInv'
<1>1. PICK a \in active : Begin(s, [Blank EXCEPT !.op = "deactivate", !.step = "account", !.address = a])
  BY DEF BeginDeactivate
<1> DEFINE u == [Blank EXCEPT !.op = "deactivate", !.step = "account", !.address = a]
<1>2. s \in Clients /\ s \notin Admins  BY BoundsAssumption DEF Clients
<1>3. a \in Addresses  BY DEF IInv, CatalogOK
<1>4. u.op = "deactivate" /\ u.step = "account" /\ u.address = a  BY DEF Blank
<1>5. u \in Txn  BY <1>3 DEF Blank, Txn
<1>6. Begin(s, u)  BY <1>1
<1> HIDE DEF u
<1>7. Knows(s, u)  BY <1>2, <1>3, <1>4 DEF Knows
<1>8. QED  BY <1>2, <1>4, <1>5, <1>6, <1>7, BeginStep
-----------------------------------------------------------------------------
(* A statement gets its lock.                                               *)

Goes(c, u) ==
    /\ Blocking(c) = {}
    /\ txn' = [txn EXCEPT ![c] = u]
    /\ locks' = locks \cup {[row |-> w.row, mode |-> w.mode, by |-> c] : w \in Wanted(txn[c])}
    /\ UNCHANGED rows

LEMMA GoesHolds ==
    ASSUME IInv, NEW c \in Clients, NEW u, Goes(c, u)
    PROVE  /\ LocksOK' /\ \A d, row, mode : Holds(d, row, mode) => Holds(d, row, mode)'
           /\ \A w \in Wanted(txn[c]) : Holds(c, w.row, w.mode)'
<1>1. Blocking(c) = {} /\ locks' = locks \cup {[row |-> w.row, mode |-> w.mode, by |-> c] : w \in Wanted(txn[c])}
  BY DEF Goes
<1>2. LocksOK  BY DEF IInv
<1>3. QED  BY <1>1, <1>2, Granted

LEMMA GoesStep ==
    ASSUME IInv, NEW c \in Clients, NEW u \in Txn, Goes(c, u), shown' = shown, Knows(c, u), Keeps(c, u)'
    PROVE  IInv'
<1>1. txn' = [txn EXCEPT ![c] = u] /\ UNCHANGED <<rows, shown>>  BY DEF Goes
<1>2. LocksOK' /\ \A d, row, mode : d # c /\ Holds(d, row, mode) => Holds(d, row, mode)'  BY GoesHolds
<1>3. QED  BY <1>1, <1>2, Moves

\* What is known of a session's transaction.
LEMMA OfTxn ==
    ASSUME IInv, NEW c \in Clients
    PROVE  /\ txn[c] \in Txn /\ Knows(c, txn[c]) /\ Keeps(c, txn[c]) /\ CartsOK
           /\ txn[c].op \notin {"idle", "configure"} => c \in Sessions /\ c \notin Admins
<1>1. txn[c] \in Txn /\ Knows(c, txn[c]) /\ Keeps(c, txn[c]) /\ CartsOK  BY DEF IInv
<1>2. QED  BY <1>1 DEF Knows, Clients

LEMMA AddAccountStep == ASSUME IInv, NEW s \in Clients, AddAccount(s), shown' = shown PROVE IInv'
<1>t. PICK t : t = txn[s]  OBVIOUS
<1>u. PICK u : u = [t EXCEPT !.step = IF ActiveCart = None THEN "commit" ELSE "cart", !.locking = ActiveCart]  OBVIOUS
<1>1. CASE Fail(s)  BY <1>1, FailStep
<1>2. CASE Goes(s, u)
  <2>1. t \in Txn /\ Knows(s, t) /\ t.op = "add" /\ t.step = "account" /\ CartsOK /\ s \notin Admins
    BY <1>t, OfTxn DEF AddAccount, At
  <2>2. Adding(t) /\ t.cart = None /\ t.item = None  BY <2>1 DEF Knows, Adding
  <2>3. ActiveCart \in Nat \cup {None}  BY <2>1, CartFacts
  <2>4. /\ u \in Txn /\ u.op = "add" /\ u.cart = None /\ u.item = None /\ u.locking = ActiveCart
        /\ u.step = (IF ActiveCart = None THEN "commit" ELSE "cart")
        /\ u.product = t.product /\ u.quantity = t.quantity /\ u.price = t.price
    <3>1. PICK step, locking : step = (IF ActiveCart = None THEN "commit" ELSE "cart") /\ locking = ActiveCart
      OBVIOUS
    <3>2. step \in {"commit", "cart"} /\ locking \in Nat \cup {None}  BY <2>3, <3>1
    <3>3. u = [t EXCEPT !.step = step, !.locking = locking]  BY <1>u, <3>1
    <3>4. /\ u \in Txn /\ u.op = t.op /\ u.cart = t.cart /\ u.item = t.item /\ u.locking = locking
          /\ u.step = step /\ u.product = t.product /\ u.quantity = t.quantity /\ u.price = t.price
      BY ONLY <2>1, <3>2, <3>3 DEF Txn
    <3>5. QED  BY <2>1, <2>2, <3>1, <3>4
  <2>5. [row |-> <<"account">>, mode |-> "update"] \in Wanted(t)  BY <2>1 DEF Wanted, AccountLock
  <2>6. Holds(s, <<"account">>, "update")'  BY <1>2, <2>5, GoesHolds, <1>t
  <2>7. ItemsOf(None) = {} /\ (ActiveCart = None => ActiveCarts = {}) /\ ActiveCarts \subseteq {ActiveCart}
    BY <2>1, CartFacts
  <2>8. Adding(u)  BY <2>2, <2>4, <2>7 DEF Adding
  <2>9. Knows(s, u)  BY <2>1, <2>4, <2>8 DEF Knows
  <2>10. Keeps(s, u)'  BY <2>4, <2>6 DEF Keeps
  <2>11. QED  BY <1>2, <2>4, <2>9, <2>10, GoesStep
<1>3. QED  BY <1>t, <1>u, <1>1, <1>2 DEF AddAccount, Get, Goes

LEMMA AddCartStep == ASSUME IInv, NEW s \in Clients, AddCart(s), shown' = shown PROVE IInv'
<1>t. PICK t : t = txn[s]  OBVIOUS
<1> DEFINE k == IF IsActive(t.locking) THEN t.locking ELSE None
           same == SameProduct(k, t.product)
           item == IF same = {} THEN None ELSE (CHOOSE i \in same : TRUE).id
           step == IF same = {} THEN "commit" ELSE "item"
<1>u. PICK u : u = [t EXCEPT !.cart = k, !.step = step, !.item = item]  OBVIOUS
<1>1. CASE Fail(s)  BY <1>1, FailStep
<1>2. CASE Goes(s, u)
  <2>1. t \in Txn /\ Knows(s, t) /\ Keeps(s, t) /\ t.op = "add" /\ t.step = "cart" /\ CartsOK /\ s \notin Admins
    BY <1>t, OfTxn DEF AddCart, At
  <2>2. Adding(t) /\ ActiveCarts \subseteq {t.locking}  BY <2>1 DEF Knows, Adding
  <2>3. Holds(s, <<"account">>, "update")'  BY <1>2, <2>1, GoesHolds, <1>t DEF Keeps
  <2>4. (k = None => ActiveCarts = {}) /\ (k # None => k \in DOMAIN carts)
    BY <2>1, <2>2, CartFacts DEF IsActive
  <2>5. k \in Nat \cup {None} /\ ItemsOf(k) \subseteq Item /\ ItemsOf(None) = {} /\ (k # None => ItemsOf(k) = carts[k].items)
    BY <2>1, <2>4, CartFacts
  <2>6. same = {i \in ItemsOf(k) : i.product = t.product}  BY DEF SameProduct
  <2>7. step = (IF same = {} THEN "commit" ELSE "item")  OBVIOUS
  <2>8. same # {} => \E i \in same : item = i.id  OBVIOUS
  <2>9. same = {} => item = None  OBVIOUS
  <2> HIDE DEF k, same, item, step
  <2>10. item \in Nat \cup {None}  BY <2>5, <2>6, <2>8, <2>9 DEF Item
  <2>11. same # {} => item # None
    <3>1. \A i \in Item : i.id \in Nat  BY DEF Item
    <3>2. QED  BY <2>5, <2>6, <2>8, <3>1, BoundsAssumption
  <2>12. k # None => KeysOK(carts[k].items)  BY <2>1, <2>4 DEF CartsOK
  <2>13. \A i, j \in ItemsOf(k) : i.product = j.product => i = j  BY <2>5, <2>12 DEF KeysOK
  <2>14. same # {} => \A i \in ItemsOf(k) : i.product = t.product => i.id = item  BY <2>6, <2>8, <2>13
  <2>15. same = {} => \A i \in ItemsOf(k) : i.product # t.product  BY <2>6
  <2>16. k = None => same = {}  BY <2>5, <2>6
  <2>17. /\ u \in Txn /\ u.op = "add" /\ u.cart = k /\ u.item = item /\ u.step = step
         /\ u.product = t.product /\ u.quantity = t.quantity /\ u.price = t.price
    <3>1. step \in {"commit", "item"}  BY <2>7
    <3>2. t \in Txn /\ t.op = "add"  BY <2>1
    <3>3. k \in Nat \cup {None}  BY <2>5
    <3>4. QED  BY <1>u, <2>10, <3>1, <3>2, <3>3 DEF Txn
  <2>18. Adding(u)  BY <2>2, <2>4, <2>7, <2>9, <2>11, <2>14, <2>15, <2>16, <2>17 DEF Adding
  <2>19. Knows(s, u)  BY <2>1, <2>17, <2>18 DEF Knows
  <2>20. Keeps(s, u)'  BY <2>3, <2>7, <2>9, <2>17 DEF Keeps
  <2>21. QED  BY <1>2, <2>17, <2>19, <2>20, GoesStep
<1>3. QED  BY <1>t, <1>u, <1>1, <1>2 DEF AddCart, Get, Goes

LEMMA AddItemStep == ASSUME IInv, NEW s \in Clients, AddItem(s), shown' = shown PROVE IInv'
<1>t. PICK t : t = txn[s]  OBVIOUS
<1> DEFINE now == {i \in ItemsOf(t.cart) : i.id = t.item}
<1>u. PICK u : u = [t EXCEPT !.step = "commit", !.item = IF now = {} THEN None ELSE @]  OBVIOUS
<1>1. CASE Fail(s)  BY <1>1, FailStep
<1>2. CASE Goes(s, u) /\ \A i \in now : i.quantity + t.quantity <= MaxQuantity
  <2>1. t \in Txn /\ Knows(s, t) /\ Keeps(s, t) /\ t.op = "add" /\ t.step = "item" /\ CartsOK /\ s \notin Admins
    BY <1>t, OfTxn DEF AddItem, At
  <2>2. Adding(t) /\ t.item # None /\ t.cart # None /\ t.cart \in DOMAIN carts  BY <2>1 DEF Knows, Adding
  <2>3. \A i \in ItemsOf(t.cart) : i.product = t.product => i.id = t.item  BY <2>1, <2>2 DEF Adding
  <2>4. [row |-> <<"item", t.item>>, mode |-> "update"] \in Wanted(t)  BY <2>1 DEF Wanted, ItemLock
  <2>5. Holds(s, <<"account">>, "update")'  BY <1>2, <2>1, GoesHolds, <1>t DEF Keeps
  <2>6. Holds(s, <<"item", t.item>>, "update")'  BY <1>2, <2>4, GoesHolds, <1>t
  <2>7. \A i \in ItemsOf(t.cart) : i.id = t.item => i.quantity + t.quantity <= MaxQuantity  BY <1>2
  <2>8. now = {} => \A i \in ItemsOf(t.cart) : i.id # t.item  OBVIOUS
  <2> HIDE DEF now
  <2>9. /\ u \in Txn /\ u.op = "add" /\ u.cart = t.cart /\ u.step = "commit"
        /\ u.item = (IF now = {} THEN None ELSE t.item)
        /\ u.product = t.product /\ u.quantity = t.quantity /\ u.price = t.price
    BY <1>u, <2>1 DEF Txn
  <2>10. Adding(u)  BY <2>2, <2>3, <2>7, <2>8, <2>9 DEF Adding
  <2>11. Knows(s, u)  BY <2>1, <2>9, <2>10 DEF Knows
  <2>12. Keeps(s, u)'  BY <2>5, <2>6, <2>9 DEF Keeps
  <2>13. QED  BY <1>2, <2>9, <2>11, <2>12, GoesStep
<1>3. QED  BY <1>t, <1>u, <1>1, <1>2 DEF AddItem, Get, Goes
LEMMA ChangeItemStep ==
    ASSUME IInv, NEW s \in Clients, NEW op \in {"update", "delete"}, ChangeItem(s, op), shown' = shown
    PROVE  IInv'
<1>t. PICK t : t = txn[s]  OBVIOUS
<1>k. PICK k : k = IF op = "update" THEN t.cart ELSE ActiveCart  OBVIOUS
<1>u. PICK u : u = [t EXCEPT !.locking = k, !.step = IF k = None THEN "commit" ELSE "cart"]  OBVIOUS
<1>1. CASE Fail(s)  BY <1>1, FailStep
<1>2. CASE Goes(s, u)
  <2>1. t \in Txn /\ Knows(s, t) /\ t.op = op /\ t.step = "item" /\ CartsOK /\ s \notin Admins
    BY <1>t, OfTxn DEF ChangeItem, At
  <2>2. t.cart \in DOMAIN carts /\ (op = "update" => t.quantity \in 1..MaxQuantity)  BY <2>1 DEF Knows, Deleting
  <2>3. k \in Nat \cup {None} /\ t.cart # None /\ ActiveCarts \subseteq {ActiveCart}  BY <1>k, <2>1, <2>2, CartFacts
  <2>4. /\ u \in Txn /\ u.op = op /\ u.cart = t.cart /\ u.item = t.item /\ u.locking = k
        /\ u.step = (IF k = None THEN "commit" ELSE "cart") /\ u.quantity = t.quantity
    <3>1. PICK step : step = IF k = None THEN "commit" ELSE "cart"  OBVIOUS
    <3>2. step \in {"commit", "cart"} /\ k \in Nat \cup {None}  BY <2>3, <3>1
    <3>3. u = [t EXCEPT !.locking = k, !.step = step]  BY <1>u, <3>1
    <3>4. /\ u \in Txn /\ u.op = t.op /\ u.cart = t.cart /\ u.item = t.item /\ u.locking = k /\ u.step = step
          /\ u.quantity = t.quantity
      BY ONLY <2>1, <3>2, <3>3 DEF Txn
    <3>5. QED  BY <2>1, <3>1, <3>4
  <2>5. [row |-> <<"item", t.item>>, mode |-> ItemLock(op)] \in Wanted(t)  BY <2>1 DEF Wanted
  <2>6. op = "update" => Holds(s, <<"item", t.item>>, "write")'  BY <1>t, <1>2, <2>5, GoesHolds DEF ItemLock
  <2>7. op = "delete" => Deleting(u)  BY <1>k, <2>2, <2>3, <2>4 DEF Deleting, IsActive
  <2>8. Knows(s, u)  BY <2>1, <2>2, <2>4, <2>7 DEF Knows
  <2>9. Keeps(s, u)'  BY <2>4, <2>6 DEF Keeps
  <2>10. QED  BY <1>2, <2>4, <2>8, <2>9, GoesStep
<1>3. QED  BY <1>t, <1>k, <1>u, <1>1, <1>2 DEF ChangeItem, Get, Goes

LEMMA ChangeCartStep ==
    ASSUME IInv, NEW s \in Clients, NEW op \in {"update", "delete"}, ChangeCart(s, op), shown' = shown
    PROVE  IInv'
<1>t. PICK t : t = txn[s]  OBVIOUS
<1>k. PICK k : k = IF IsActive(t.locking) THEN t.locking ELSE None  OBVIOUS
<1>u. PICK u : u = [t EXCEPT !.step = "commit", !.locking = k]  OBVIOUS
<1>1. CASE Fail(s)  BY <1>1, FailStep
<1>2. CASE Goes(s, u)
  <2>1. t \in Txn /\ Knows(s, t) /\ Keeps(s, t) /\ t.op = op /\ t.step = "cart" /\ CartsOK /\ s \notin Admins
    BY <1>t, OfTxn DEF ChangeCart, At
  <2>2. t.cart \in DOMAIN carts /\ (op = "update" => t.quantity \in 1..MaxQuantity)  BY <2>1 DEF Knows, Deleting
  <2>3. k \in Nat \cup {None}  BY <1>k, <2>1 DEF Txn
  <2>4. u \in Txn /\ u.op = op /\ u.cart = t.cart /\ u.item = t.item /\ u.locking = k /\ u.step = "commit" /\ u.quantity = t.quantity
    BY <1>u, <2>1, <2>3 DEF Txn
  <2>5. op = "update" => Holds(s, <<"item", t.item>>, "write")'  BY <1>2, <2>1, GoesHolds DEF Keeps
  <2>6. op = "delete" => Deleting(u)  BY <1>k, <2>1, <2>2, <2>4 DEF Knows, Deleting
  <2>7. Knows(s, u)  BY <2>1, <2>2, <2>4, <2>6 DEF Knows
  <2>8. Keeps(s, u)'  BY <2>4, <2>5 DEF Keeps
  <2>9. QED  BY <1>2, <2>4, <2>7, <2>8, GoesStep
<1>3. QED
  <2>1. [t EXCEPT !.step = "commit", !.locking = IF IsActive(@) THEN @ ELSE None] = [t EXCEPT !.step = "commit", !.locking = k]
    <3>1. t \in Txn  BY <1>t, OfTxn
    <3>2. QED  BY <1>k, <3>1 DEF Txn
  <2>2. u = [t EXCEPT !.step = "commit", !.locking = IF IsActive(@) THEN @ ELSE None]  BY <1>u, <2>1
  <2>3. QED  BY <1>t, <1>1, <1>2, <2>2 DEF ChangeCart, Get, Goes

LEMMA CheckoutCartStep == ASSUME IInv, NEW s \in Clients, CheckoutCart(s), shown' = shown PROVE IInv'
<1>t. PICK t : t = txn[s]  OBVIOUS
<1>u. PICK u : u = [t EXCEPT !.step = "items", !.items = ItemsOf(t.cart)]  OBVIOUS
<1>1. CASE Fail(s)  BY <1>1, FailStep
<1>2. CASE Goes(s, u) /\ IsActive(t.cart) /\ carts[t.cart].version = t.version /\ ItemsOf(t.cart) # {}
  <2>1. t \in Txn /\ Knows(s, t) /\ t.op = "checkout" /\ t.step = "cart" /\ CartsOK /\ s \notin Admins
    BY <1>t, OfTxn DEF CheckoutCart, At
  <2>2. Checking(s, t)  BY <2>1 DEF Knows
  <2>3. s \in Sessions /\ t.cart \in DOMAIN carts /\ t.address \in Addresses /\ t.version = shown[s].version
    BY <2>2 DEF Checking
  <2>4. ItemsOf(t.cart) \subseteq Item /\ ItemsOf(t.cart) = carts[t.cart].items  BY <2>1, <2>3, CartFacts
  <2>5. t.cart # None  BY <2>1, <2>3, CartFacts
  <2>6. shown[s].cart = t.cart => Current(shown[s].cart, shown[s].version, shown[s].items)
    BY <2>3, <2>5 DEF IInv, PagesOK
  <2>7. shown[s].cart = t.cart => ItemsOf(t.cart) = shown[s].items  BY <1>2, <2>3, <2>4, <2>6 DEF Current
  <2>8. /\ u \in Txn /\ u.op = "checkout" /\ u.step = "items" /\ u.cart = t.cart /\ u.items = ItemsOf(t.cart)
        /\ u.address = t.address /\ u.version = t.version
    BY <1>u, <2>1, <2>4 DEF Txn
  <2>9. Knows(s, u)  BY <1>2, <2>1, <2>3, <2>7, <2>8 DEF Knows, Checking
  <2>10. Keeps(s, u)'  BY <2>8 DEF Keeps
  <2>11. QED  BY <1>2, <2>8, <2>9, <2>10, GoesStep
<1>3. QED  BY <1>t, <1>u, <1>1, <1>2 DEF CheckoutCart, Get, Goes

LEMMA CheckoutItemsStep == ASSUME IInv, NEW s \in Clients, CheckoutItems(s), shown' = shown PROVE IInv'
<1>t. PICK t : t = txn[s]  OBVIOUS
<1>p. PICK products : products = {i.product : i \in t.items}  OBVIOUS
<1>u. PICK u : u = [t EXCEPT !.step = "catalog", !.products = products]  OBVIOUS
<1>1. CASE Fail(s)  BY <1>1, FailStep
<1>2. CASE Goes(s, u)
  <2>1. t \in Txn /\ Knows(s, t) /\ t.op = "checkout" /\ t.step = "items" /\ s \notin Admins
    BY <1>t, OfTxn DEF CheckoutItems, At
  <2>2. Checking(s, t)  BY <2>1 DEF Knows
  <2>3. t.items \subseteq Item  BY <2>1 DEF Txn
  <2>4. products \subseteq Products  BY <1>p, <2>3 DEF Item
  <2>5. /\ u \in Txn /\ u.op = "checkout" /\ u.step = "catalog" /\ u.cart = t.cart /\ u.items = t.items
        /\ u.address = t.address /\ u.version = t.version /\ u.products = products
    BY <1>u, <2>1, <2>4 DEF Txn
  <2>6. Knows(s, u)  BY <1>p, <2>1, <2>2, <2>5 DEF Knows, Checking
  <2>7. Keeps(s, u)'  BY <2>5 DEF Keeps
  <2>8. QED  BY <1>2, <2>5, <2>6, <2>7, GoesStep
<1>3. QED  BY <1>t, <1>p, <1>u, <1>1, <1>2 DEF CheckoutItems, Get, Goes

LEMMA CheckoutCatalogStep == ASSUME IInv, NEW s \in Clients, CheckoutCatalog(s), shown' = shown PROVE IInv'
<1>t. PICK t : t = txn[s]  OBVIOUS
<1>u. PICK u : u = [t EXCEPT !.step = "address"]  OBVIOUS
<1>1. CASE Fail(s)  BY <1>1, FailStep
<1>2. CASE Goes(s, u) /\ \A i \in t.items : catalog[i.product].available /\ catalog[i.product].price = i.price
  <2>1. t \in Txn /\ Knows(s, t) /\ t.op = "checkout" /\ t.step = "catalog" /\ s \notin Admins
    BY <1>t, OfTxn DEF CheckoutCatalog, At
  <2>2. Checking(s, t)  BY <2>1 DEF Knows
  <2>3. \A p \in t.products : [row |-> <<"catalog", p>>, mode |-> "share"] \in Wanted(t)  BY <2>1 DEF Wanted, CatalogLock
  <2>4. \A p \in t.products : Holds(s, <<"catalog", p>>, "share")'
    <3>1. \A w \in Wanted(t) : Holds(s, w.row, w.mode)'  BY <1>t, <1>2, GoesHolds
    <3>2. TAKE p \in t.products
    <3>3. QED  BY <2>3, <3>1
  <2>5. /\ u \in Txn /\ u.op = "checkout" /\ u.step = "address" /\ u.cart = t.cart /\ u.items = t.items
        /\ u.address = t.address /\ u.version = t.version /\ u.products = t.products
    BY <1>u, <2>1 DEF Txn
  <2>6. Knows(s, u)  BY <1>2, <2>1, <2>2, <2>5 DEF Knows, Checking
  <2>7. Keeps(s, u)'  BY <2>4, <2>5 DEF Keeps
  <2>8. QED  BY <1>2, <2>5, <2>6, <2>7, GoesStep
<1>3. QED  BY <1>t, <1>u, <1>1, <1>2 DEF CheckoutCatalog, Get, Goes

LEMMA CheckoutAddressStep == ASSUME IInv, NEW s \in Clients, CheckoutAddress(s), shown' = shown PROVE IInv'
<1>t. PICK t : t = txn[s]  OBVIOUS
<1>u. PICK u : u = [t EXCEPT !.step = "account"]  OBVIOUS
<1>1. CASE Fail(s)  BY <1>1, FailStep
<1>2. CASE Goes(s, u) /\ t.address \in active
  <2>1. t \in Txn /\ Knows(s, t) /\ Keeps(s, t) /\ t.op = "checkout" /\ t.step = "address" /\ s \notin Admins
    BY <1>t, OfTxn DEF CheckoutAddress, At
  <2>2. Checking(s, t)  BY <2>1 DEF Knows
  <2>3. [row |-> <<"address", t.address>>, mode |-> "share"] \in Wanted(t)  BY <2>1 DEF Wanted, AddressLock
  <2>4. Holds(s, <<"address", t.address>>, "share")'  BY <1>t, <1>2, <2>3, GoesHolds
  <2>5. \A p \in t.products : Holds(s, <<"catalog", p>>, "share")'  BY <1>2, <2>1, GoesHolds DEF Keeps
  <2>6. /\ u \in Txn /\ u.op = "checkout" /\ u.step = "account" /\ u.cart = t.cart /\ u.items = t.items
        /\ u.address = t.address /\ u.version = t.version /\ u.products = t.products
    BY <1>u, <2>1 DEF Txn
  <2>7. Knows(s, u)  BY <1>2, <2>1, <2>2, <2>6 DEF Knows, Checking
  <2>8. Keeps(s, u)'  BY <2>4, <2>5, <2>6 DEF Keeps
  <2>9. QED  BY <1>2, <2>6, <2>7, <2>8, GoesStep
<1>3. QED  BY <1>t, <1>u, <1>1, <1>2 DEF CheckoutAddress, Get, Goes

LEMMA CheckoutAccountStep == ASSUME IInv, NEW s \in Clients, CheckoutAccount(s), shown' = shown PROVE IInv'
<1>t. PICK t : t = txn[s]  OBVIOUS
<1>u. PICK u : u = [t EXCEPT !.step = "commit"]  OBVIOUS
<1>1. CASE Fail(s)  BY <1>1, FailStep
<1>2. CASE Goes(s, u)
  <2>1. t \in Txn /\ Knows(s, t) /\ Keeps(s, t) /\ t.op = "checkout" /\ t.step = "account" /\ s \notin Admins
    BY <1>t, OfTxn DEF CheckoutAccount, At
  <2>2. Checking(s, t)  BY <2>1 DEF Knows
  <2>3. Keeps(s, t)'  BY <1>2, <2>1, GoesHolds, KeptLocks
  <2>4. /\ u \in Txn /\ u.op = "checkout" /\ u.step = "commit" /\ u.cart = t.cart /\ u.items = t.items
        /\ u.address = t.address /\ u.version = t.version /\ u.products = t.products
    BY <1>u, <2>1 DEF Txn
  <2>5. Knows(s, u)  BY <2>1, <2>2, <2>4 DEF Knows, Checking
  <2>6. Keeps(s, u)'  BY <2>1, <2>3, <2>4 DEF Keeps
  <2>7. QED  BY <1>2, <2>4, <2>5, <2>6, GoesStep
<1>3. QED  BY <1>t, <1>u, <1>1, <1>2 DEF CheckoutAccount, Get, Goes

LEMMA ConfigureStep == ASSUME IInv, NEW c \in Clients, Configure(c), shown' = shown PROVE IInv'
<1>t. PICK t : t = txn[c]  OBVIOUS
<1>u. PICK u : u = [t EXCEPT !.step = "commit"]  OBVIOUS
<1>1. CASE Fail(c)  BY <1>1, FailStep
<1>2. CASE Goes(c, u)
  <2>1. t \in Txn /\ Knows(c, t) /\ t.op = "configure" /\ t.step = "catalog"  BY <1>t, OfTxn DEF Configure, At
  <2>2. t.product \in Products /\ t.products = {t.product} /\ t.price \in Prices  BY <2>1 DEF Knows
  <2>3. [row |-> <<"catalog", t.product>>, mode |-> "write"] \in Wanted(t)  BY <2>1, <2>2 DEF Wanted, CatalogLock
  <2>4. Holds(c, <<"catalog", t.product>>, "write")'  BY <1>t, <1>2, <2>3, GoesHolds
  <2>5. /\ u \in Txn /\ u.op = "configure" /\ u.step = "commit" /\ u.product = t.product
        /\ u.products = t.products /\ u.price = t.price
    BY <1>u, <2>1 DEF Txn
  <2>6. Knows(c, u)  BY <2>2, <2>5 DEF Knows
  <2>7. Keeps(c, u)'  BY <2>4, <2>5 DEF Keeps
  <2>8. QED  BY <1>2, <2>5, <2>6, <2>7, GoesStep
<1>3. QED  BY <1>t, <1>u, <1>1, <1>2 DEF Configure, Get, Goes

LEMMA DeactivateAccountStep == ASSUME IInv, NEW s \in Clients, DeactivateAccount(s), shown' = shown PROVE IInv'
<1>t. PICK t : t = txn[s]  OBVIOUS
<1>u. PICK u : u = [t EXCEPT !.step = "address"]  OBVIOUS
<1>1. CASE Fail(s)  BY <1>1, FailStep
<1>2. CASE Goes(s, u)
  <2>1. t \in Txn /\ Knows(s, t) /\ t.op = "deactivate" /\ t.step = "account" /\ s \notin Admins
    BY <1>t, OfTxn DEF DeactivateAccount, At
  <2>2. u \in Txn /\ u.op = "deactivate" /\ u.step = "address" /\ u.address = t.address  BY <1>u, <2>1 DEF Txn
  <2>3. Knows(s, u)  BY <2>1, <2>2 DEF Knows
  <2>4. Keeps(s, u)'  BY <2>2 DEF Keeps
  <2>5. QED  BY <1>2, <2>2, <2>3, <2>4, GoesStep
<1>3. QED  BY <1>t, <1>u, <1>1, <1>2 DEF DeactivateAccount, Get, Goes

LEMMA DeactivateAddressStep == ASSUME IInv, NEW s \in Clients, DeactivateAddress(s), shown' = shown PROVE IInv'
<1>t. PICK t : t = txn[s]  OBVIOUS
<1>u. PICK u : u = [t EXCEPT !.step = "commit"]  OBVIOUS
<1>1. CASE Fail(s)  BY <1>1, FailStep
<1>2. CASE Goes(s, u)
  <2>1. t \in Txn /\ Knows(s, t) /\ t.op = "deactivate" /\ t.step = "address" /\ s \notin Admins
    BY <1>t, OfTxn DEF DeactivateAddress, At
  <2>2. u \in Txn /\ u.op = "deactivate" /\ u.step = "commit" /\ u.address = t.address  BY <1>u, <2>1 DEF Txn
  <2>3. [row |-> <<"address", t.address>>, mode |-> "update"] \in Wanted(t)  BY <2>1 DEF Wanted, AddressLock
  <2>4. Holds(s, <<"address", t.address>>, "update")'  BY <1>t, <1>2, <2>3, GoesHolds
  <2>5. Knows(s, u)  BY <2>1, <2>2 DEF Knows
  <2>6. Keeps(s, u)'  BY <2>2, <2>4 DEF Keeps
  <2>7. QED  BY <1>2, <2>2, <2>5, <2>6, GoesStep
<1>3. QED  BY <1>t, <1>u, <1>1, <1>2 DEF DeactivateAddress, Get, Goes
\* The second statement of a look at the cart: only this session's page changes.
LEMMA LookStep ==
    ASSUME IInv, NEW s \in Sessions, At(s, "look", "items"), Fail(s),
           shown' = [shown EXCEPT ![s] = [cart |-> txn[s].cart, version |-> txn[s].version, items |-> ItemsOf(ActiveCart)]]
    PROVE  IInv'
<1>t. PICK t : t = txn[s]  OBVIOUS
<1>p. PICK page : page = [cart |-> t.cart, version |-> t.version, items |-> ItemsOf(ActiveCart)]  OBVIOUS
<1>1. s \in Clients  BY DEF Clients
<1>2. t \in Txn /\ Knows(s, t) /\ t.op = "look" /\ CartsOK  BY <1>t, <1>1, OfTxn DEF At
<1>3. t.cart \in DOMAIN carts /\ (IsActive(t.cart) => t.version <= carts[t.cart].version)  BY <1>2 DEF Knows
<1>4. ActiveCart \in DOMAIN carts \cup {None} /\ ItemsOf(ActiveCart) \subseteq Item  BY <1>2, CartFacts
<1>5. t.cart \in Nat \ {0} /\ (IsActive(t.cart) => ItemsOf(ActiveCart) = carts[t.cart].items)
  BY <1>2, <1>3, CartFacts DEF IsActive
<1>6. page.cart = t.cart /\ page.version = t.version /\ page.items = ItemsOf(ActiveCart)  BY <1>p
<1>7. page \in Page  BY <1>p, <1>2, <1>4, <1>5 DEF Page, Txn
<1>8. Current(page.cart, page.version, page.items)  BY <1>3, <1>5, <1>6 DEF Current
<1>9. shown' = [shown EXCEPT ![s] = page] /\ shown \in [Sessions -> Page]  BY <1>t, <1>p DEF IInv, PagesOK
<1>10. /\ txn' = [txn EXCEPT ![s] = Blank] /\ locks' = {l \in locks : l.by # s} /\ UNCHANGED rows
  BY DEF Fail, Release
<1>11. CartsOK' /\ OrdersOK' /\ CatalogOK'
  BY <1>10 DEF IInv, rows, CartsOK, KeysOK, ActiveCarts, OrdersOK, CatalogOK
<1>12. PagesOK'
  <2>1. ASSUME NEW r \in Sessions, NEW q, q = shown'[r], q.cart # None PROVE Current(q.cart, q.version, q.items)'
    <3>1. Current(q.cart, q.version, q.items)
      <4>1. CASE r = s  BY <1>8, <1>9, <2>1, <4>1
      <4>2. CASE r # s  BY <1>9, <2>1, <4>2 DEF IInv, PagesOK
      <4>3. QED  BY <4>1, <4>2
    <3>2. QED  BY <1>10, <3>1 DEF rows, Current, IsActive, ActiveCarts
  <2>2. shown' \in [Sessions -> Page]  BY <1>7, <1>9
  <2>3. QED  BY <2>1, <2>2 DEF PagesOK, Current
<1>13. txn \in [Clients -> Txn]  BY DEF IInv
<1>14. txn' \in [Clients -> Txn]  BY <1>10, <1>13, BlankFacts
<1>15. LocksOK' /\ \A d, row, mode : d # s /\ Holds(d, row, mode) => Holds(d, row, mode)'  BY <1>10, Released DEF IInv
<1>16. ASSUME NEW d \in Clients, NEW x, x = txn'[d] PROVE Knows(d, x)' /\ Keeps(d, x)'
  <2>1. CASE d = s
    <3>1. x = Blank  BY <1>10, <1>13, <1>16, <2>1
    <3>2. x.op = "idle"  BY <3>1, BlankFacts
    <3>3. QED  BY <3>2 DEF Knows, Keeps
  <2>2. CASE d # s
    <3>1. x = txn[d] /\ (d \in Sessions => shown'[d] = shown[d])  BY <1>9, <1>10, <1>13, <1>16, <2>2
    <3>2. Knows(d, x) /\ Keeps(d, x)  BY <3>1 DEF IInv
    <3>3. Knows(d, x)'
      BY <1>10, <3>1, <3>2 DEF rows, Knows, Adding, Deleting, Checking, IsActive, ActiveCarts, ItemsOf
    <3>4. Keeps(d, x)'  BY <1>15, <2>2, <3>2, KeptLocks
    <3>5. QED  BY <3>3, <3>4
  <2>3. QED  BY <2>1, <2>2
<1>17. \A d \in Clients : Knows(d, txn[d])' /\ Keeps(d, txn[d])'  BY <1>16 DEF Knows, Keeps, Adding, Deleting, Checking
<1>18. QED  BY <1>11, <1>12, <1>14, <1>15, <1>17 DEF IInv

-----------------------------------------------------------------------------
(* A transaction commits: what the others know stays true.                  *)

\* A version stands for its items, and a cart is never active again.
VersionsStand ==
    /\ DOMAIN carts \subseteq DOMAIN carts'
    /\ \A k \in DOMAIN carts :
         /\ carts[k].version <= carts'[k].version
         /\ k \in ActiveCarts' => k \in ActiveCarts
         /\ k \in ActiveCarts' /\ carts'[k].version = carts[k].version => carts'[k].items = carts[k].items

\* What a commit must leave alone for those in flight.
Spares(c) ==
    /\ VersionsStand
    /\ \A d \in Clients \ {c} :
         /\ txn[d].op = "add" /\ txn[d].step # "account" =>
              /\ ActiveCarts' \subseteq ActiveCarts
              /\ \A k \in DOMAIN carts : \A i \in carts'[k].items : \E j \in carts[k].items :
                   /\ i.id = j.id /\ i.product = j.product
                   /\ i.quantity = j.quantity \/ txn[d].step # "commit" \/ j.id # txn[d].item
         /\ txn[d].op = "checkout" /\ txn[d].step \in {"address", "account", "commit"} =>
              \A p \in txn[d].products : catalog'[p] = catalog[p]
         /\ txn[d].op = "checkout" /\ txn[d].step \in {"account", "commit"} /\ txn[d].address \in active =>
              txn[d].address \in active'

LEMMA StillKnows ==
    ASSUME IInv, CartsOK', shown' = shown, NEW c \in Clients, Spares(c), NEW d \in Clients \ {c}, NEW t, t = txn[d]
    PROVE  Knows(d, t)'
<1>1. t \in Txn /\ Knows(d, t) /\ CartsOK  BY OfTxn
<1>2. \A k \in DOMAIN carts : k \in DOMAIN carts' /\ carts[k].version <= carts'[k].version /\ (IsActive(k)' => IsActive(k))
  BY DEF Spares, VersionsStand, IsActive
<1>3. \A k \in DOMAIN carts : k # None /\ ItemsOf(k)' = carts'[k].items /\ ItemsOf(k) = carts[k].items
  BY <1>1, CartFacts DEF ItemsOf
<1>4. \A k \in DOMAIN carts : carts[k].version \in Nat /\ carts'[k].version \in Nat
  <2>1. \A k \in DOMAIN carts : carts[k] \in Cart  BY <1>1, CartFacts
  <2>2. \A k \in DOMAIN carts' : carts'[k] \in Cart  BY DEF CartsOK
  <2>3. QED  BY <1>2, <2>1, <2>2 DEF Cart
<1>5. t.version \in Nat  BY <1>1 DEF Txn
<1>6. CASE t.op = "look"
  <2>1. t.cart \in DOMAIN carts /\ (IsActive(t.cart) => t.version <= carts[t.cart].version)  BY <1>1, <1>6 DEF Knows
  <2>2. carts[t.cart].version <= carts'[t.cart].version /\ (IsActive(t.cart)' => IsActive(t.cart)) /\ t.cart \in DOMAIN carts'
    BY <1>2, <2>1
  <2>3. IsActive(t.cart)' => t.version <= carts'[t.cart].version  BY <1>4, <1>5, <2>1, <2>2
  <2>4. QED  BY <1>1, <1>6, <2>2, <2>3 DEF Knows
<1>7. CASE t.op = "add" /\ t.step = "account"  BY <1>1, <1>7 DEF Knows, Adding
<1>8. CASE t.op = "add" /\ t.step # "account"
  <2>1. Adding(t)  BY <1>1, <1>8 DEF Knows
  <2>2. ActiveCarts' \subseteq ActiveCarts  BY <1>8 DEF Spares, VersionsStand
  <2>3. \A k \in DOMAIN carts : \A i \in carts'[k].items : \E j \in carts[k].items :
          /\ i.id = j.id /\ i.product = j.product
          /\ i.quantity = j.quantity \/ t.step # "commit" \/ j.id # t.item
    BY <1>8 DEF Spares, VersionsStand
  <2>4. ASSUME t.step \in {"item", "commit"}
        PROVE  \A i \in ItemsOf(t.cart)' : \E j \in ItemsOf(t.cart) :
                 /\ i.id = j.id /\ i.product = j.product
                 /\ i.quantity = j.quantity \/ t.step # "commit" \/ j.id # t.item
    <3>1. CASE t.cart = None  BY <3>1 DEF ItemsOf
    <3>2. CASE t.cart # None
      <4>1. t.cart \in DOMAIN carts  BY <2>1, <2>4, <3>2 DEF Adding
      <4>2. QED  BY <1>3, <2>3, <4>1
    <3>3. QED  BY <3>1, <3>2
  <2>5. t.step \in {"item", "commit"} /\ t.cart # None => t.cart \in DOMAIN carts'  BY <1>2, <2>1 DEF Adding
  <2>6. Adding(t)'
    <3>1. t.step = "cart" => ActiveCarts' \subseteq {t.locking}  BY <2>1, <2>2 DEF Adding
    <3>2. t.step \in {"item", "commit"} /\ t.cart = None => t.item = None /\ ActiveCarts' = {}
      BY <2>1, <2>2 DEF Adding
    <3>3. t.step = "item" => /\ t.item # None
                             /\ \A i \in ItemsOf(t.cart)' : i.product = t.product => i.id = t.item
      BY <2>1, <2>4 DEF Adding
    <3>4. t.step = "commit" /\ t.item = None => \A i \in ItemsOf(t.cart)' : i.product # t.product
      BY <2>1, <2>4 DEF Adding
    <3>5. t.step = "commit" /\ t.item # None =>
            \A i \in ItemsOf(t.cart)' : i.id = t.item => i.quantity + t.quantity <= MaxQuantity
      BY <2>1, <2>4 DEF Adding
    <3>6. QED  BY <2>1, <2>5, <3>1, <3>2, <3>3, <3>4, <3>5 DEF Adding
  <2>7. QED  BY <1>1, <1>8, <2>6 DEF Knows
<1>9. CASE t.op = "update"  BY <1>1, <1>2, <1>9 DEF Knows
<1>10. CASE t.op = "delete"  BY <1>1, <1>2, <1>10 DEF Knows, Deleting
<1>11. CASE t.op = "checkout"
  <2>1. Checking(d, t)  BY <1>1, <1>11 DEF Knows
  <2>2. t.items \subseteq Item  BY <1>1 DEF Txn
  <2>3. t.step \in {"address", "account", "commit"} =>
          \A i \in t.items : catalog'[i.product].available /\ catalog'[i.product].price = i.price
    BY <1>11, <2>1 DEF Spares, VersionsStand, Checking
  <2>4. t.step \in {"account", "commit"} => t.address \in active'  BY <1>11, <2>1 DEF Spares, VersionsStand, Checking
  <2>5. Checking(d, t)'  BY <1>2, <2>1, <2>3, <2>4 DEF Checking
  <2>6. QED  BY <1>1, <1>11, <2>5 DEF Knows
<1>12. CASE t.op \in {"idle", "configure", "deactivate"}  BY <1>1, <1>12 DEF Knows
<1>13. QED  BY <1>1, <1>6, <1>7, <1>8, <1>9, <1>10, <1>11, <1>12 DEF Txn

LEMMA CommitStep ==
    ASSUME IInv, NEW c \in Clients, Release(c), shown' = shown, CartsOK', OrdersOK', CatalogOK', Spares(c)
    PROVE  IInv'
<1>1. txn' = [txn EXCEPT ![c] = Blank] /\ locks' = {l \in locks : l.by # c}  BY DEF Release
<1>2. txn \in [Clients -> Txn]  BY DEF IInv
<1>3. txn' \in [Clients -> Txn]  BY <1>1, <1>2, BlankFacts
<1>4. LocksOK' /\ \A d, row, mode : d # c /\ Holds(d, row, mode) => Holds(d, row, mode)'  BY <1>1, Released DEF IInv
<1>5. ASSUME NEW d \in Clients, NEW t, t = txn'[d] PROVE Knows(d, t)' /\ Keeps(d, t)'
  <2>1. CASE d = c
    <3>1. t = Blank  BY <1>1, <1>2, <1>5, <2>1
    <3>2. t.op = "idle"  BY <3>1, BlankFacts
    <3>3. QED  BY <3>2 DEF Knows, Keeps
  <2>2. CASE d # c
    <3>1. t = txn[d]  BY <1>1, <1>2, <1>5, <2>2
    <3>2. Keeps(d, t)  BY <3>1, OfTxn
    <3>3. Keeps(d, t)'  BY <1>4, <2>2, <3>2, KeptLocks
    <3>4. Knows(d, t)'  BY <2>2, <3>1, StillKnows
    <3>5. QED  BY <3>3, <3>4
  <2>3. QED  BY <2>1, <2>2
<1>6. \A d \in Clients : Knows(d, txn[d])' /\ Keeps(d, txn[d])'  BY <1>5 DEF Knows, Keeps, Adding, Deleting, Checking
<1>7. PagesOK'
  <2>1. ASSUME NEW s \in Sessions, NEW q, q = shown[s], q.cart # None PROVE Current(q.cart, q.version, q.items)'
    <3>1. Current(q.cart, q.version, q.items) /\ q \in Page  BY <2>1 DEF IInv, PagesOK
    <3>2. q.cart \in DOMAIN carts /\ q.version \in Nat  BY <3>1 DEF Current, Page
    <3>3. carts[q.cart].version \in Nat /\ carts'[q.cart].version \in Nat /\ q.cart \in DOMAIN carts'
      <4>1. carts[q.cart] \in Cart  BY <3>2, CartFacts DEF IInv
      <4>2. q.cart \in DOMAIN carts'  BY <3>2 DEF Spares, VersionsStand
      <4>3. carts'[q.cart] \in Cart  BY <4>2 DEF CartsOK
      <4>4. QED  BY <4>1, <4>2, <4>3 DEF Cart
    <3>4. carts[q.cart].version <= carts'[q.cart].version /\ (IsActive(q.cart)' => IsActive(q.cart))
      BY <3>2 DEF Spares, VersionsStand, IsActive
    <3>5. IsActive(q.cart)' /\ carts'[q.cart].version = carts[q.cart].version => carts'[q.cart].items = carts[q.cart].items
      BY <3>2 DEF Spares, VersionsStand, IsActive
    <3>6. QED  BY <3>1, <3>2, <3>3, <3>4, <3>5 DEF Current
  <2>2. QED  BY <2>1 DEF PagesOK, IInv, Current
<1>8. QED  BY <1>3, <1>4, <1>6, <1>7 DEF IInv
\* Two transactions cannot both have these locks.
LEMMA Alone ==
    ASSUME IInv, NEW c, NEW d, NEW row, NEW m1, NEW m2, Holds(c, row, m1), Holds(d, row, m2), c # d
    PROVE  ~Conflict(m1, m2)
BY Exclusion DEF IInv

LEMMA KeysLater ==
    ASSUME NEW items \in SUBSET Item, KeysOK(items), serial \in Nat, serial' \in Nat, serial <= serial'
    PROVE  KeysOK(items)'
<1>1. \A i \in items : i.id \in Nat  BY DEF Item
<1>2. QED  BY <1>1 DEF KeysOK

\* One cart is changed, and gets a new version.
LEMMA CartChanged ==
    ASSUME CartsOK, serial' \in Nat, serial <= serial', NEW k \in DOMAIN carts, NEW new \in Cart,
           carts' = [carts EXCEPT ![k] = new], NEW items, items = new.items, KeysOK(items)',
           carts[k].version < new.version, new.status = "active" => carts[k].status = "active"
    PROVE  /\ CartsOK' /\ VersionsStand /\ ActiveCarts' \subseteq ActiveCarts /\ DOMAIN carts' = DOMAIN carts
           /\ \A j \in DOMAIN carts : carts'[j] = IF j = k THEN new ELSE carts[j]
<1>1. carts \in Seq(Cart) /\ DOMAIN carts = 1..Len(carts) /\ Len(carts) \in Nat /\ serial \in Nat
  BY CartFacts DEF CartsOK
<1>2. carts' \in Seq(Cart) /\ Len(carts') = Len(carts) /\ \A j \in 1..Len(carts) : carts'[j] = IF j = k THEN new ELSE carts[j]
  BY <1>1, ExceptSeq
<1>3. DOMAIN carts' = DOMAIN carts  OBVIOUS
<1>4. ActiveCarts' \subseteq ActiveCarts  BY <1>1, <1>2, <1>3 DEF ActiveCarts
<1>5. ASSUME NEW j \in DOMAIN carts', NEW h, h = carts'[j].items PROVE KeysOK(h)'
  <2>1. CASE j = k
    <3>1. h = items  BY <1>1, <1>2, <1>5, <2>1
    <3>2. QED  BY <3>1 DEF KeysOK
  <2>2. CASE j # k
    <3>1. h = carts[j].items  BY <1>1, <1>2, <1>3, <1>5, <2>2
    <3>2. h \in SUBSET Item /\ KeysOK(h)  BY <1>3, <1>5, <3>1, CartFacts DEF CartsOK, Cart
    <3>3. QED  BY <1>1, <3>2, KeysLater
  <2>3. QED  BY <2>1, <2>2
<1>6. \A j, l \in ActiveCarts' : j = l  BY <1>4 DEF CartsOK
<1>7. CartsOK'  BY <1>2, <1>5, <1>6 DEF CartsOK, KeysOK
<1>8. \A j \in DOMAIN carts : carts[j].version \in Nat /\ new.version \in Nat  BY CartFacts DEF Cart
<1>9. VersionsStand  BY <1>1, <1>2, <1>3, <1>4, <1>8 DEF VersionsStand
<1>10. QED  BY <1>1, <1>2, <1>3, <1>4, <1>7, <1>9

\* Orders keep referring to carts.
LEMMA OrdersStay ==
    ASSUME OrdersOK, orders' = orders, DOMAIN carts \subseteq DOMAIN carts' PROVE OrdersOK'
BY DEF OrdersOK

LEMMA AddCommitStep == ASSUME IInv, NEW s \in Clients, AddCommit(s), shown' = shown PROVE IInv'
<1>t. PICK t : t = txn[s]  OBVIOUS
<1>m. PICK more : more = [id |-> serial + 1, product |-> t.product, quantity |-> t.quantity, price |-> t.price, version |-> 1]
  OBVIOUS
<1> DEFINE f == [i \in ItemsOf(t.cart) |->
                   IF i.id = t.item THEN [i EXCEPT !.quantity = @ + t.quantity, !.version = @ + 1] ELSE i]
<1>i. PICK items : items = IF t.item = None THEN ItemsOf(t.cart) \cup {more} ELSE {f[i] : i \in ItemsOf(t.cart)}
  OBVIOUS
<1>1. /\ carts' = IF t.cart = None
                    THEN Append(carts, [status |-> "active", version |-> 2, items |-> items])
                    ELSE [carts EXCEPT ![t.cart].items = items, ![t.cart].version = @ + 1]
      /\ serial' = (IF t.item = None THEN serial + 1 ELSE serial)
      /\ Release(s) /\ UNCHANGED <<catalog, active, orders>> /\ t.op = "add" /\ t.step = "commit"
  <2>1. {f[i] : i \in ItemsOf(t.cart)} =
          {IF i.id = txn[s].item THEN [i EXCEPT !.quantity = @ + txn[s].quantity, !.version = @ + 1] ELSE i :
             i \in ItemsOf(txn[s].cart)}
    BY <1>t
  <2> HIDE DEF f
  <2>2. QED  BY <1>t, <1>m, <1>i, <2>1 DEF AddCommit, At
<1>2. t \in Txn /\ Knows(s, t) /\ Keeps(s, t) /\ CartsOK  BY <1>t, OfTxn
<1>3. Adding(t)  BY <1>1, <1>2 DEF Knows
<1>4. /\ t.product \in Products /\ t.quantity \in 1..MaxQuantity /\ t.price \in Prices
      /\ t.cart # None => t.cart \in DOMAIN carts
      /\ t.cart = None => t.item = None /\ ActiveCarts = {}
  BY <1>1, <1>3 DEF Adding
<1>5. ItemsOf(t.cart) \subseteq Item /\ (t.cart # None => ItemsOf(t.cart) = carts[t.cart].items) /\ ItemsOf(None) = {}
  BY <1>2, <1>4, CartFacts
<1>6. KeysOK(ItemsOf(t.cart))
  <2>1. KeysOK({})  BY DEF KeysOK
  <2>2. t.cart # None => KeysOK(carts[t.cart].items)  BY <1>2, <1>4 DEF CartsOK
  <2>3. QED  BY <1>5, <2>1, <2>2
<1>7. serial \in Nat /\ serial' \in Nat /\ serial <= serial'  BY <1>1, <1>2 DEF CartsOK
<1>8. items \in SUBSET Item /\ KeysOK(items)'
  <2>1. CASE t.item = None
    <3>1. more \in Item  BY <1>m, <1>4, <1>7, BoundsAssumption DEF Item
    <3>2. more.id = serial + 1 /\ more.product = t.product  BY <1>m
    <3>3. \A i \in ItemsOf(t.cart) : i.product # t.product  BY <1>1, <1>3, <2>1 DEF Adding
    <3>4. \A i \in ItemsOf(t.cart) : i.id \in Nat /\ i.id <= serial  BY <1>5, <1>6 DEF KeysOK, Item
    <3>5. items = ItemsOf(t.cart) \cup {more} /\ serial' = serial + 1  BY <1>i, <1>1, <2>1
    <3>6. items \subseteq Item  BY <1>5, <3>1, <3>5
    <3>7. \A i, j \in items : /\ i.id <= serial'
                              /\ i.id = j.id \/ i.product = j.product => i = j
      BY <1>6, <1>7, <3>2, <3>3, <3>4, <3>5 DEF KeysOK
    <3>8. QED  BY <3>6, <3>7 DEF KeysOK
  <2>2. CASE t.item # None
    <3>1. \A i \in ItemsOf(t.cart) : i.id = t.item => i.quantity + t.quantity <= MaxQuantity
      BY <1>1, <1>3, <2>2 DEF Adding
    <3>2. ASSUME NEW i \in ItemsOf(t.cart) PROVE f[i] \in Item /\ f[i].id = i.id /\ f[i].product = i.product
      <4>1. i \in Item  BY <1>5
      <4>2. i.quantity \in 1..MaxQuantity /\ i.version \in Nat \ {0} /\ MaxQuantity \in Nat
        BY <4>1, BoundsAssumption DEF Item
      <4>3. i.version + 1 \in Nat \ {0} /\ (i.id = t.item => i.quantity + t.quantity \in 1..MaxQuantity)
        BY <1>4, <3>1, <4>2
      <4>4. f[i] = IF i.id = t.item THEN [i EXCEPT !.quantity = @ + t.quantity, !.version = @ + 1] ELSE i  OBVIOUS
      <4> HIDE DEF f
      <4>5. QED  BY <4>1, <4>3, <4>4 DEF Item
    <3>3. f \in [ItemsOf(t.cart) -> Item]
      <4>1. f = [i \in ItemsOf(t.cart) |-> f[i]]  OBVIOUS
      <4> HIDE DEF f
      <4>2. QED  BY <3>2, <4>1
    <3>4. items = {f[i] : i \in ItemsOf(t.cart)}  BY <1>i, <2>2
    <3> HIDE DEF f
    <3>5. QED  BY <1>5, <1>6, <1>7, <3>2, <3>3, <3>4, ChangedKeys
  <2>3. QED  BY <2>1, <2>2
<1> HIDE DEF f
<1>9. carts \in Seq(Cart) /\ DOMAIN carts = 1..Len(carts) /\ Len(carts) \in Nat /\ None \notin Nat
  BY <1>2, CartFacts, BoundsAssumption DEF CartsOK
<1>10. \A k \in DOMAIN carts : carts[k] \in Cart /\ \A h : h = carts[k].items => KeysOK(h)'
  <2>1. ASSUME NEW k \in DOMAIN carts, NEW h, h = carts[k].items PROVE KeysOK(h)'
    <3>1. h \in SUBSET Item /\ KeysOK(h)  BY <1>2, <2>1, CartFacts DEF CartsOK, Cart
    <3>2. QED  BY <1>7, <3>1, KeysLater
  <2>2. \A k \in DOMAIN carts : carts[k] \in Cart  BY <1>2, CartFacts
  <2>3. QED  BY <2>1, <2>2 DEF KeysOK
<1>11. ASSUME t.cart = None PROVE CartsOK' /\ VersionsStand
  <2>1. PICK new : new = [status |-> "active", version |-> 2, items |-> items]  OBVIOUS
  <2>2. new \in Cart /\ new.items = items  BY <1>8, <2>1 DEF Cart
  <2>3. carts' = Append(carts, new)  BY <1>1, <1>11, <2>1
  <2>4. carts' \in Seq(Cart) /\ Len(carts') = Len(carts) + 1 /\ carts'[Len(carts) + 1] = new
        /\ \A k \in 1..Len(carts) : carts'[k] = carts[k]
    BY <1>9, <2>2, <2>3, AppendProperties
  <2>5. DOMAIN carts' = 1..(Len(carts) + 1)  BY <2>4, LenProperties
  <2>6. DOMAIN carts \subseteq DOMAIN carts' /\ \A k \in DOMAIN carts' : k \in DOMAIN carts \/ k = Len(carts) + 1
    BY <1>9, <2>5
  <2>7. ActiveCarts' \subseteq {Len(carts) + 1}
    BY <1>4, <1>9, <1>11, <2>4, <2>6 DEF ActiveCarts
  <2>8. CartsOK'
    <3>1. ASSUME NEW k \in DOMAIN carts', NEW h, h = carts'[k].items PROVE KeysOK(h)'
      <4>1. CASE k \in DOMAIN carts
        <5>1. h = carts[k].items  BY <1>9, <2>4, <3>1, <4>1
        <5>2. QED  BY <1>10, <4>1, <5>1 DEF KeysOK
      <4>2. CASE k = Len(carts) + 1  BY <1>8, <2>2, <2>4, <3>1, <4>2 DEF KeysOK
      <4>3. QED  BY <2>6, <4>1, <4>2
    <3>2. QED  BY <1>7, <2>4, <2>7, <3>1 DEF CartsOK, KeysOK
  <2>9. \A k \in DOMAIN carts : carts[k].version <= carts'[k].version /\ carts'[k].items = carts[k].items
    BY <1>9, <1>10, <2>4 DEF Cart
  <2>10. \A k \in DOMAIN carts : k \in ActiveCarts' => k \in ActiveCarts  BY <1>9, <2>7
  <2>11. QED  BY <2>6, <2>8, <2>9, <2>10 DEF VersionsStand
<1>12. ASSUME t.cart # None PROVE CartsOK' /\ VersionsStand
  <2>1. t.cart \in DOMAIN carts  BY <1>4, <1>12
  <2>2. carts' = [carts EXCEPT ![t.cart].items = items, ![t.cart].version = @ + 1]  BY <1>1, <1>12
  <2>3. carts[t.cart] \in Cart  BY <1>10, <2>1
  <2>4. PICK new : new = [carts[t.cart] EXCEPT !.items = items, !.version = carts[t.cart].version + 1]  OBVIOUS
  <2>5. carts[t.cart].version \in Nat  BY <2>3 DEF Cart
  <2>6. /\ new \in Cart /\ new.items = items /\ new.status = carts[t.cart].status
        /\ new.version = carts[t.cart].version + 1
    <3>1. carts[t.cart].version + 1 \in Nat \ {0}  BY <2>5
    <3>2. items \in SUBSET Item  BY <1>8
    <3>3. QED  BY <2>3, <2>4, <3>1, <3>2 DEF Cart
  <2>7. carts' = [carts EXCEPT ![t.cart] = new]  BY <2>1, <2>2, <2>3, <2>4 DEF Cart
  <2>8. carts[t.cart].version < new.version /\ (new.status = "active" => carts[t.cart].status = "active")  BY <2>5, <2>6
  <2>9. QED  BY <1>2, <1>7, <1>8, <2>1, <2>6, <2>7, <2>8, CartChanged
<1>13. CartsOK' /\ VersionsStand  BY <1>11, <1>12
<1>14. OrdersOK' /\ CatalogOK'  BY <1>1, <1>13, OrdersStay DEF IInv, CatalogOK, VersionsStand
<1>15. Spares(s)
  <2>1. ASSUME NEW d \in Clients \ {s}, txn[d].op = "add", txn[d].step # "account" PROVE FALSE
    <3>1. PICK x : x = txn[d]  OBVIOUS
    <3>2. x \in Txn /\ Keeps(d, x) /\ Knows(d, x)  BY <3>1, OfTxn
    <3>3. x.step \in {"cart", "item", "commit"}  BY <2>1, <3>1, <3>2 DEF Knows, Adding
    <3>4. Holds(d, <<"account">>, "update")  BY <2>1, <3>1, <3>2, <3>3 DEF Keeps
    <3>5. Holds(s, <<"account">>, "update")  BY <1>1, <1>2 DEF Keeps
    <3>6. Conflict("update", "update")  BY DEF Conflict
    <3>7. QED  BY <3>4, <3>5, <3>6, Alone
  <2>2. QED  BY <1>1, <1>13, <2>1 DEF Spares
<1>16. QED  BY <1>1, <1>13, <1>14, <1>15, CommitStep
LEMMA UpdateCommitStep == ASSUME IInv, NEW s \in Clients, UpdateCommit(s), shown' = shown PROVE IInv'
<1>t. PICK t : t = txn[s]  OBVIOUS
<1>k. PICK k : k = t.cart  OBVIOUS
<1> DEFINE f == [i \in carts[k].items |-> IF i.id = t.item THEN [i EXCEPT !.quantity = t.quantity, !.version = @ + 1] ELSE i]
<1>i. PICK items : items = {f[i] : i \in carts[k].items}  OBVIOUS
<1>1. t \in Txn /\ Knows(s, t) /\ Keeps(s, t) /\ CartsOK /\ t.op = "update" /\ t.step = "commit"
  BY <1>t, OfTxn DEF UpdateCommit, At
<1>2. t.quantity \in 1..MaxQuantity /\ k \in DOMAIN carts  BY <1>k, <1>1 DEF Knows
<1>3. carts[k] \in Cart /\ carts \in Seq(Cart) /\ KeysOK(carts[k].items)  BY <1>1, <1>2, CartFacts DEF CartsOK
<1>4. carts[k].items \subseteq Item /\ carts[k].version \in Nat  BY <1>3 DEF Cart
<1>5. serial \in Nat /\ serial' = serial /\ Release(s) /\ UNCHANGED <<catalog, active, orders>>
  BY <1>1 DEF UpdateCommit, CartsOK
<1>6. PICK new : new = [carts[k] EXCEPT !.items = items, !.version = carts[k].version + 1]  OBVIOUS
<1>7. carts' = [carts EXCEPT ![k] = new]
  <2>1. items = {IF i.id = txn[s].item THEN [i EXCEPT !.quantity = txn[s].quantity, !.version = @ + 1] ELSE i :
                   i \in carts[txn[s].cart].items}
    BY <1>t, <1>k, <1>i
  <2> HIDE DEF f
  <2>2. carts' = [carts EXCEPT ![txn[s].cart].version = @ + 1,
                               ![txn[s].cart].items =
                    {IF i.id = txn[s].item THEN [i EXCEPT !.quantity = txn[s].quantity, !.version = @ + 1]
                                      ELSE i : i \in @}]
    BY DEF UpdateCommit
  <2>3. PICK bumped : bumped = [carts[k] EXCEPT !.version = @ + 1]  OBVIOUS
  <2>4. bumped.items = carts[k].items  BY <1>3, <2>3 DEF Cart
  <2>5. {IF i.id = txn[s].item THEN [i EXCEPT !.quantity = txn[s].quantity, !.version = @ + 1] ELSE i :
           i \in [carts EXCEPT ![txn[s].cart].version = @ + 1][txn[s].cart].items} = items
    <3>1. [carts EXCEPT ![txn[s].cart].version = @ + 1][txn[s].cart].items = carts[txn[s].cart].items
      BY <1>t, <1>k, <1>2, <2>3, <2>4
    <3>2. QED  BY <2>1, <3>1
  <2>6. new = [bumped EXCEPT !.items = items]  BY <1>3, <1>6, <2>3 DEF Cart
  <2>7. carts' = [carts EXCEPT ![k] = [bumped EXCEPT !.items = items]]
    BY <1>t, <1>k, <1>2, <2>1, <2>2, <2>3, <2>4, <2>5
  <2>8. QED  BY <2>6, <2>7
<1>8. ASSUME NEW i \in carts[k].items
      PROVE  /\ f[i] \in Item /\ f[i].id = i.id /\ f[i].product = i.product
             /\ f[i].quantity = i.quantity \/ i.id = t.item
  <2>1. i \in Item  BY <1>4
  <2>2. i.version + 1 \in Nat \ {0}  BY <2>1 DEF Item
  <2>3. f[i] = IF i.id = t.item THEN [i EXCEPT !.quantity = t.quantity, !.version = @ + 1] ELSE i  OBVIOUS
  <2> HIDE DEF f
  <2>4. QED  BY <1>2, <2>1, <2>2, <2>3 DEF Item
<1>9. f \in [carts[k].items -> Item]
  <2>1. f = [i \in carts[k].items |-> f[i]]  OBVIOUS
  <2> HIDE DEF f
  <2>2. QED  BY <1>8, <2>1
<1> HIDE DEF f
<1>10. items \in SUBSET Item /\ KeysOK(items)'  BY <1>3, <1>4, <1>5, <1>8, <1>9, <1>i, ChangedKeys
<1>11. carts[k].version + 1 \in Nat \ {0}  BY <1>4
<1>12. new \in Cart /\ new.items = items /\ new.status = carts[k].status /\ new.version = carts[k].version + 1
  BY <1>3, <1>6, <1>10, <1>11 DEF Cart
<1>13. carts[k].version < new.version  BY <1>4, <1>12
<1>14. /\ CartsOK' /\ VersionsStand /\ ActiveCarts' \subseteq ActiveCarts /\ DOMAIN carts' = DOMAIN carts
       /\ \A j \in DOMAIN carts : carts'[j] = IF j = k THEN new ELSE carts[j]
  <2>1. serial' \in Nat /\ serial <= serial'  BY <1>5
  <2>2. QED  BY <1>1, <1>2, <1>7, <1>10, <1>12, <1>13, <2>1, CartChanged
<1>15. OrdersOK' /\ CatalogOK'  BY <1>5, <1>14, OrdersStay DEF IInv, CatalogOK
<1>16. ASSUME NEW d \in Clients \ {s}, txn[d].op = "add", txn[d].step # "account",
              NEW h \in DOMAIN carts, NEW i \in carts'[h].items
       PROVE  \E j \in carts[h].items : /\ i.id = j.id /\ i.product = j.product
                                        /\ i.quantity = j.quantity \/ txn[d].step # "commit" \/ j.id # txn[d].item
  <2>1. CASE h # k  BY <1>14, <1>16, <2>1
  <2>2. CASE h = k
    <3>1. PICK j \in carts[k].items : i = f[j]  BY <1>12, <1>14, <1>16, <1>i, <2>2
    <3>2. i.id = j.id /\ i.product = j.product /\ (i.quantity = j.quantity \/ j.id = t.item)  BY <1>8, <3>1
    <3>3. ASSUME txn[d].step = "commit", j.id = txn[d].item, j.id = t.item PROVE FALSE
      <4>1. PICK x : x = txn[d]  OBVIOUS
      <4>2. Keeps(d, x)  BY <4>1, OfTxn
      <4>3. x.item # None  BY <1>4, <3>3, <4>1, BoundsAssumption DEF Item
      <4>4. Holds(d, <<"item", t.item>>, "update")  BY <1>16, <3>3, <4>1, <4>2, <4>3 DEF Keeps
      <4>5. Holds(s, <<"item", t.item>>, "write")  BY <1>1 DEF Keeps
      <4>6. Conflict("write", "update")  BY DEF Conflict
      <4>7. QED  BY <4>4, <4>5, <4>6, Alone
    <3>4. QED  BY <2>2, <3>2, <3>3
  <2>3. QED  BY <2>1, <2>2
<1>17. Spares(s)  BY <1>5, <1>14, <1>16 DEF Spares
<1>18. QED  BY <1>5, <1>14, <1>15, <1>17, CommitStep

LEMMA CheckoutCommitStep == ASSUME IInv, NEW s \in Clients, CheckoutCommit(s), shown' = shown PROVE IInv'
<1>t. PICK t : t = txn[s]  OBVIOUS
<1>k. PICK k : k = t.cart  OBVIOUS
<1>o. PICK order : order = [cart |-> k, lines |-> Lines(t.items), address |-> t.address, by |-> s]  OBVIOUS
<1>1. t \in Txn /\ Knows(s, t) /\ CartsOK /\ t.op = "checkout" /\ t.step = "commit"
  BY <1>t, OfTxn DEF CheckoutCommit, At
<1>2. Checking(s, t)  BY <1>1 DEF Knows
<1>3. k \in DOMAIN carts /\ t.address \in Addresses /\ t.items # {} /\ t.items \subseteq Item
  BY <1>k, <1>1, <1>2 DEF Checking, Txn
<1>4. carts[k] \in Cart /\ k \in Nat \ {0} /\ KeysOK(carts[k].items)  BY <1>1, <1>3, CartFacts DEF CartsOK
<1>5. /\ serial \in Nat /\ serial' = serial /\ Release(s) /\ UNCHANGED <<catalog, active>>
      /\ orders' = Append(orders, order)
      /\ carts' = [carts EXCEPT ![k].status = "converted", ![k].version = @ + 1]
  BY <1>t, <1>k, <1>o, <1>1 DEF CheckoutCommit, CartsOK
<1>6. PICK new : new = [carts[k] EXCEPT !.status = "converted", !.version = carts[k].version + 1]  OBVIOUS
<1>7. carts[k].version \in Nat  BY <1>4 DEF Cart
<1>8. new \in Cart /\ new.items = carts[k].items /\ new.status = "converted" /\ new.version = carts[k].version + 1
  <2>1. carts[k].version + 1 \in Nat \ {0}  BY <1>7
  <2>2. QED  BY <1>4, <1>6, <2>1 DEF Cart
<1>9. carts' = [carts EXCEPT ![k] = new]  BY <1>3, <1>4, <1>5, <1>6 DEF Cart
<1>10. carts[k].version < new.version  BY <1>7, <1>8
<1>11. PICK items : items = new.items  OBVIOUS
<1>12. KeysOK(items)'
  <2>1. items \in SUBSET Item /\ KeysOK(items)  BY <1>4, <1>8, <1>11 DEF Cart
  <2>2. QED  BY <1>5, <2>1 DEF KeysOK
<1>13. /\ CartsOK' /\ VersionsStand /\ ActiveCarts' \subseteq ActiveCarts /\ DOMAIN carts' = DOMAIN carts
       /\ \A j \in DOMAIN carts : carts'[j] = IF j = k THEN new ELSE carts[j]
  <2>1. serial' \in Nat /\ serial <= serial'  BY <1>5
  <2>2. new.status # "active"  BY <1>8
  <2>3. QED  BY <1>1, <1>3, <1>8, <1>9, <1>10, <1>11, <1>12, <2>1, <2>2, CartChanged
<1>14. OrdersOK'
  <2>1. Lines(t.items) # {}  BY <1>3 DEF Lines
  <2>2. Lines(t.items) \subseteq [product : Products, quantity : 1..MaxQuantity, price : Prices]
    BY <1>3 DEF Lines, Item
  <2>3. order \in Order /\ order.lines # {} /\ order.cart \in DOMAIN carts  BY <1>o, <1>3, <1>4, <2>1, <2>2 DEF Order
  <2>4. orders \in Seq(Order) /\ \A n \in DOMAIN orders : orders[n].lines # {} /\ orders[n].cart \in DOMAIN carts
    BY DEF IInv, OrdersOK
  <2>5. orders' \in Seq(Order) /\ Len(orders') = Len(orders) + 1 /\ orders'[Len(orders) + 1] = order
        /\ \A n \in 1..Len(orders) : orders'[n] = orders[n]
    BY <1>5, <2>3, <2>4, AppendProperties
  <2>6. DOMAIN orders' = 1..(Len(orders) + 1) /\ DOMAIN orders = 1..Len(orders) /\ Len(orders) \in Nat
    BY <2>4, <2>5, LenProperties
  <2>7. QED  BY <1>13, <2>3, <2>4, <2>5, <2>6 DEF OrdersOK
<1>15. CatalogOK'  BY <1>5 DEF IInv, CatalogOK
<1>16. \A h \in DOMAIN carts : carts'[h].items = carts[h].items  BY <1>8, <1>13
<1>17. Spares(s)  BY <1>5, <1>13, <1>16 DEF Spares
<1>18. QED  BY <1>5, <1>13, <1>14, <1>15, <1>17, CommitStep

LEMMA ConfigureCommitStep == ASSUME IInv, NEW c \in Clients, ConfigureCommit(c), shown' = shown PROVE IInv'
<1>t. PICK t : t = txn[c]  OBVIOUS
<1>1. t \in Txn /\ Knows(c, t) /\ Keeps(c, t) /\ CartsOK /\ t.op = "configure" /\ t.step = "commit"
  BY <1>t, OfTxn DEF ConfigureCommit, At
<1>2. t.product \in Products /\ t.price \in Prices  BY <1>1 DEF Knows
<1>3. Release(c) /\ UNCHANGED <<carts, serial, active, orders>>  BY DEF ConfigureCommit
<1>4. PICK row : row = [price |-> t.price, available |-> t.available, version |-> t.version + 1]  OBVIOUS
<1>5. catalog' = [catalog EXCEPT ![t.product] = row]  BY <1>t, <1>4 DEF ConfigureCommit
<1>6. row \in [price : Prices, available : BOOLEAN, version : Nat \ {0}]
  <2>1. t.version + 1 \in Nat \ {0} /\ t.available \in BOOLEAN  BY <1>1 DEF Txn
  <2>2. QED  BY <1>2, <1>4, <2>1
<1>7. CartsOK' /\ OrdersOK' /\ VersionsStand /\ ActiveCarts' = ActiveCarts
  <2>1. \A k \in DOMAIN carts : carts[k].version \in Nat  BY <1>1, CartFacts DEF Cart
  <2>2. CartsOK' /\ ActiveCarts' = ActiveCarts  BY <1>1, <1>3 DEF CartsOK, KeysOK, ActiveCarts
  <2>3. OrdersOK'  BY <1>3 DEF IInv, OrdersOK
  <2>4. VersionsStand  BY <1>3, <2>1, <2>2 DEF VersionsStand
  <2>5. QED  BY <2>2, <2>3, <2>4
<1>8. CatalogOK'  BY <1>3, <1>5, <1>6 DEF IInv, CatalogOK
<1>9. ASSUME NEW d \in Clients \ {c}, txn[d].op = "checkout", txn[d].step \in {"address", "account", "commit"},
             NEW p \in txn[d].products
      PROVE  catalog'[p] = catalog[p]
  <2>1. CASE p = t.product
    <3>1. PICK x : x = txn[d]  OBVIOUS
    <3>2. Keeps(d, x)  BY <3>1, OfTxn
    <3>3. Holds(d, <<"catalog", t.product>>, "share")  BY <1>9, <2>1, <3>1, <3>2 DEF Keeps
    <3>4. Holds(c, <<"catalog", t.product>>, "write")  BY <1>1 DEF Keeps
    <3>5. Conflict("write", "share")  BY DEF Conflict
    <3>6. QED  BY <3>3, <3>4, <3>5, Alone
  <2>2. CASE p # t.product
    <3>1. catalog \in [Products -> [price : Prices, available : BOOLEAN, version : Nat \ {0}]]  BY DEF IInv, CatalogOK
    <3>2. p \in Products  BY <1>9, OfTxn DEF Txn
    <3>3. QED  BY <1>5, <2>2, <3>1, <3>2
  <2>3. QED  BY <2>1, <2>2
<1>10. Spares(c)  BY <1>3, <1>7, <1>9 DEF Spares
<1>11. QED  BY <1>3, <1>7, <1>8, <1>10, CommitStep

LEMMA DeactivateCommitStep == ASSUME IInv, NEW s \in Clients, DeactivateCommit(s), shown' = shown PROVE IInv'
<1>t. PICK t : t = txn[s]  OBVIOUS
<1>1. t \in Txn /\ Keeps(s, t) /\ CartsOK /\ t.op = "deactivate" /\ t.step = "commit"
  BY <1>t, OfTxn DEF DeactivateCommit, At
<1>2. Release(s) /\ UNCHANGED <<carts, serial, catalog, orders>> /\ active' = active \ {t.address}
  BY <1>t DEF DeactivateCommit
<1>3. CartsOK' /\ OrdersOK' /\ VersionsStand /\ ActiveCarts' = ActiveCarts
  <2>1. \A k \in DOMAIN carts : carts[k].version \in Nat  BY <1>1, CartFacts DEF Cart
  <2>2. QED  BY <1>1, <1>2, <2>1 DEF CartsOK, KeysOK, ActiveCarts, OrdersOK, IInv, VersionsStand
<1>4. CatalogOK'  BY <1>2 DEF IInv, CatalogOK
<1>5. ASSUME NEW d \in Clients \ {s}, txn[d].op = "checkout", txn[d].step \in {"account", "commit"}
      PROVE  txn[d].address # t.address
  <2>1. PICK x : x = txn[d]  OBVIOUS
  <2>2. Keeps(d, x)  BY <2>1, OfTxn
  <2>3. Holds(d, <<"address", x.address>>, "share")  BY <1>5, <2>1, <2>2 DEF Keeps
  <2>4. Holds(s, <<"address", t.address>>, "update")  BY <1>1 DEF Keeps
  <2>5. Conflict("update", "share")  BY DEF Conflict
  <2>6. x.address # t.address  BY <2>3, <2>4, <2>5, Alone
  <2>7. QED  BY <2>1, <2>6
<1>6. Spares(s)  BY <1>2, <1>3, <1>5 DEF Spares
<1>7. QED  BY <1>2, <1>3, <1>4, <1>6, CommitStep
LEMMA DeleteCommitStep == ASSUME IInv, NEW s \in Clients, DeleteCommit(s), shown' = shown PROVE IInv'
<1>t. PICK t : t = txn[s]  OBVIOUS
<1>1. t \in Txn /\ Knows(s, t) /\ CartsOK /\ t.op = "delete" /\ t.step = "commit"
  BY <1>t, OfTxn DEF DeleteCommit, At
<1>2. t.cart \in DOMAIN carts /\ (IsActive(t.cart) => t.locking = t.cart)  BY <1>1 DEF Knows, Deleting
<1>3. serial \in Nat /\ serial' = serial /\ Release(s) /\ UNCHANGED <<catalog, active, orders>>
  BY <1>1 DEF DeleteCommit, CartsOK
<1>4. carts' = [k \in DOMAIN carts |->
                  [carts[k] EXCEPT !.items = IF k = t.cart THEN {i \in @ : i.id # t.item} ELSE @,
                                   !.version = IF k = t.locking THEN @ + 1 ELSE @]]
  BY <1>t DEF DeleteCommit
<1>5. DOMAIN carts' = DOMAIN carts  BY <1>4
<1>6. ASSUME NEW k \in DOMAIN carts
      PROVE  /\ carts'[k] \in Cart /\ carts'[k].items \subseteq carts[k].items
             /\ carts'[k].status = carts[k].status
             /\ carts[k].version \in Nat
             /\ carts'[k].version = (IF k = t.locking THEN carts[k].version + 1 ELSE carts[k].version)
             /\ k # t.cart => carts'[k].items = carts[k].items
  <2>1. carts[k] \in Cart  BY <1>1, CartFacts
  <2>2. PICK old : old = carts[k]  OBVIOUS
  <2>3. old \in Cart /\ old.version \in Nat  BY <2>1, <2>2 DEF Cart
  <2>4. PICK left : left = IF k = t.cart THEN {i \in old.items : i.id # t.item} ELSE old.items  OBVIOUS
  <2>5. PICK version : version = IF k = t.locking THEN old.version + 1 ELSE old.version  OBVIOUS
  <2>6. left \subseteq old.items /\ (k # t.cart => left = old.items)  BY <2>4
  <2>7. version \in Nat \ {0}  BY <2>3, <2>5 DEF Cart
  <2>8. carts'[k] = [old EXCEPT !.items = left, !.version = version]
    <3>1. [old EXCEPT !.items = IF k = t.cart THEN {i \in @ : i.id # t.item} ELSE @,
                      !.version = IF k = t.locking THEN @ + 1 ELSE @] = [old EXCEPT !.items = left, !.version = version]
      BY <2>3, <2>4, <2>5 DEF Cart
    <3>2. QED  BY <1>4, <2>2, <3>1
  <2>9. /\ carts'[k] \in Cart /\ carts'[k].items = left /\ carts'[k].status = old.status /\ carts'[k].version = version
    <3>1. left \in SUBSET Item  BY <2>3, <2>6 DEF Cart
    <3>2. QED  BY <2>3, <2>7, <2>8, <3>1 DEF Cart
  <2>10. QED  BY <2>2, <2>3, <2>5, <2>6, <2>9
<1>7. carts' \in Seq(Cart)
  <2>1. DOMAIN carts = 1..Len(carts) /\ Len(carts) \in Nat  BY <1>1, CartFacts
  <2>2. carts' = [k \in 1..Len(carts) |-> carts'[k]]  BY <1>4, <2>1
  <2>3. QED  BY <1>6, <2>1, <2>2
<1>8. ActiveCarts' = ActiveCarts  BY <1>5, <1>6 DEF ActiveCarts
<1>9. CartsOK'
  <2>1. ASSUME NEW k \in DOMAIN carts', NEW h, h = carts'[k].items PROVE KeysOK(h)'
    <3>1. k \in DOMAIN carts /\ h \subseteq carts[k].items  BY <1>5, <1>6, <2>1
    <3>2. KeysOK(carts[k].items)  BY <1>1, <3>1 DEF CartsOK
    <3>3. QED  BY <1>3, <3>1, <3>2 DEF KeysOK
  <2>2. \A j, k \in ActiveCarts' : j = k  BY <1>1, <1>8 DEF CartsOK
  <2>3. QED  BY <1>3, <1>7, <2>1, <2>2 DEF CartsOK, KeysOK
<1>10. VersionsStand
  <2>1. ASSUME NEW k \in DOMAIN carts, k \in ActiveCarts', carts'[k].version = carts[k].version
        PROVE  carts'[k].items = carts[k].items
    <3>1. k # t.locking  BY <1>6, <2>1
    <3>2. IsActive(k)  BY <1>1, <1>8, <2>1, CartFacts DEF IsActive
    <3>3. k # t.cart  BY <1>2, <3>1, <3>2
    <3>4. QED  BY <1>6, <3>3
  <2>2. QED  BY <1>5, <1>6, <1>8, <2>1 DEF VersionsStand
<1>11. OrdersOK' /\ CatalogOK'  BY <1>3, <1>5, OrdersStay DEF IInv, CatalogOK
<1>12. \A h \in DOMAIN carts : \A i \in carts'[h].items : i \in carts[h].items  BY <1>6
<1>13. Spares(s)  BY <1>3, <1>8, <1>10, <1>12 DEF Spares
<1>14. QED  BY <1>3, <1>9, <1>10, <1>11, <1>13, CommitStep

-----------------------------------------------------------------------------
(* The invariant.                                                           *)

LEMMA InitHolds == Init => IInv
<1> SUFFICES ASSUME Init PROVE IInv  OBVIOUS
<1>1. carts = <<>> /\ orders = <<>> /\ serial = 0 /\ locks = {} /\ active = Addresses  BY DEF Init
<1>2. DOMAIN carts = {} /\ DOMAIN orders = {}  BY <1>1
<1>3. CartsOK /\ OrdersOK  BY <1>1, <1>2 DEF CartsOK, OrdersOK, ActiveCarts
<1>4. CatalogOK
  <2>1. [price : Prices, available : {TRUE}, version : {1}] \subseteq [price : Prices, available : BOOLEAN, version : Nat \ {0}]
    <3>1. {TRUE} \subseteq BOOLEAN  BY Zenon
    <3>2. {1} \subseteq Nat \ {0}  OBVIOUS
    <3>3. \A A, B, C, D, E : A \subseteq B /\ C \subseteq D =>
            [price : E, available : A, version : C] \subseteq [price : E, available : B, version : D]  BY SMT
    <3>4. QED  BY <3>1, <3>2, <3>3
  <2>2. catalog \in [Products -> [price : Prices, available : {TRUE}, version : {1}]]  BY DEF Init
  <2>3. catalog \in [Products -> [price : Prices, available : BOOLEAN, version : Nat \ {0}]]  BY <2>1, <2>2
  <2>4. QED  BY <1>1, <2>3 DEF CatalogOK
<1>5. shown = [s \in Sessions |-> NothingShown] /\ NothingShown.cart = None /\ NothingShown \in Page
  BY DEF Init, NothingShown, Page
<1>6. PagesOK  BY <1>5 DEF PagesOK
<1>7. txn = [c \in Clients |-> Blank]  BY DEF Init
<1>8. txn \in [Clients -> Txn] /\ \A c \in Clients : txn[c] = Blank  BY <1>7, BlankFacts
<1>9. \A c \in Clients : Knows(c, txn[c]) /\ Keeps(c, txn[c])  BY <1>8, BlankFacts
<1>10. LocksOK  BY <1>1 DEF LocksOK
<1>11. QED  BY <1>3, <1>4, <1>6, <1>8, <1>9, <1>10 DEF IInv

LEMMA StutterStep == IInv /\ UNCHANGED vars => IInv'
<1> SUFFICES ASSUME IInv, UNCHANGED vars PROVE IInv'  OBVIOUS
<1>1. UNCHANGED <<rows, shown, txn, locks>>  BY DEF vars
<1>2. CartsOK' /\ OrdersOK' /\ CatalogOK' /\ PagesOK' /\ LocksOK'
  BY <1>1 DEF IInv, rows, CartsOK, KeysOK, ActiveCarts, OrdersOK, CatalogOK, PagesOK, Current, IsActive, LocksOK
<1>3. ASSUME NEW d \in Clients, NEW t, t = txn[d] PROVE Knows(d, t)' /\ Keeps(d, t)'
  <2>1. Knows(d, t) /\ Keeps(d, t)  BY <1>3 DEF IInv
  <2>2. \A row, mode : Holds(d, row, mode) => Holds(d, row, mode)'  BY <1>1 DEF Holds
  <2>3. QED  BY <1>1, <2>1, <2>2, SameKnowledge, KeptLocks
<1>4. \A d \in Clients : Knows(d, txn[d])' /\ Keeps(d, txn[d])'  BY <1>1, <1>3 DEF Knows, Keeps, Adding, Deleting, Checking
<1>5. QED  BY <1>1, <1>2, <1>4 DEF IInv

LEMMA NextPreserves == IInv /\ Next => IInv'
<1> SUFFICES ASSUME IInv, Next PROVE IInv'  OBVIOUS
<1>1. ASSUME NEW s \in Sessions, Look(s) PROVE IInv'  BY <1>1, BeginLook, LookStep DEF Look
<1>2. ASSUME NEW s \in Sessions, Submit(s), UNCHANGED shown PROVE IInv'
  BY <1>2, BeginAddStep, BeginChangeStep, BeginCheckoutStep, BeginDeactivateStep DEF Submit
<1>3. ASSUME NEW c \in Admins, BeginConfigure(c), UNCHANGED shown PROVE IInv'  BY <1>3, BeginConfigureStep
<1>4. ASSUME NEW c \in Clients, Serve(c) PROVE IInv'
  <2>1. UNCHANGED shown  BY <1>4 DEF Serve
  <2>2. CASE Add(c)  BY <2>1, <2>2, AddAccountStep, AddCartStep, AddItemStep, AddCommitStep DEF Add
  <2>3. CASE Change(c)
    BY <2>1, <2>3, ChangeItemStep, ChangeCartStep, UpdateCommitStep, DeleteCommitStep DEF Change
  <2>4. CASE Checkout(c)
    BY <2>1, <2>4, CheckoutCartStep, CheckoutItemsStep, CheckoutCatalogStep, CheckoutAddressStep,
       CheckoutAccountStep, CheckoutCommitStep DEF Checkout
  <2>5. CASE Deactivate(c)
    BY <2>1, <2>5, DeactivateAccountStep, DeactivateAddressStep, DeactivateCommitStep DEF Deactivate
  <2>6. CASE Configure(c)  BY <2>1, <2>6, ConfigureStep
  <2>7. CASE ConfigureCommit(c)  BY <2>1, <2>7, ConfigureCommitStep
  <2>8. CASE Abort(c)  BY <2>1, <2>8, FailStep DEF Abort
  <2>9. QED  BY <1>4, <2>2, <2>3, <2>4, <2>5, <2>6, <2>7, <2>8 DEF Serve
<1>5. QED  BY <1>1, <1>2, <1>3, <1>4 DEF Next

LEMMA Inductive == Spec => []IInv
<1>1. Init => IInv  BY InitHolds
<1>2. IInv /\ [Next]_vars => IInv'  BY NextPreserves, StutterStep
<1>3. QED  BY <1>1, <1>2, PTL DEF Spec

-----------------------------------------------------------------------------
(* What a transaction is like after a statement, whichever it is.           *)

After(t, u) ==
    /\ u.op = t.op /\ u.version = t.version
    /\ \/ t.op = "add" /\ t.step = "account" /\ u.step \in {"cart", "commit"} /\ u.cart = None
       \/ t.op = "add" /\ t.step = "cart" /\ u.step \in {"item", "commit"} /\ u.cart \in {None, t.locking}
       \/ t.op = "add" /\ t.step = "item" /\ u.step = "commit" /\ u.cart = t.cart
       \/ t.op = "update" /\ t.step = "item" /\ u.step = "cart" /\ u.cart = t.cart /\ u.locking = t.cart
       \/ t.op = "update" /\ t.step = "cart" /\ u.step = "commit" /\ u.cart = t.cart
       \/ t.op = "delete" /\ t.step = "item" /\ (u.step = "commit" => u.locking = None) /\ u.step \in {"cart", "commit"}
       \/ t.op = "delete" /\ t.step = "cart" /\ u.step = "commit" /\ u.locking \in {None, t.locking}
       \/ /\ t.op = "checkout" /\ t.step = "cart" /\ u.step = "items" /\ u.cart = t.cart /\ u.locking = t.locking
          /\ IsActive(t.cart) /\ carts[t.cart].version = t.version
       \/ /\ t.op = "checkout" /\ u.cart = t.cart /\ u.locking = t.locking
          /\ \/ t.step = "items" /\ u.step = "catalog"
             \/ t.step = "catalog" /\ u.step = "address"
             \/ t.step = "address" /\ u.step = "account"
             \/ t.step = "account" /\ u.step = "commit"
       \/ t.op = "configure" /\ t.step = "catalog" /\ u.step = "commit"
       \/ t.op = "deactivate" /\ t.step = "account" /\ u.step = "address"
       \/ t.op = "deactivate" /\ t.step = "address" /\ u.step = "commit"

Advances(c) == Fail(c) \/ \E u : Goes(c, u) /\ After(txn[c], u)

Commits(c) ==
    \/ AddCommit(c) \/ UpdateCommit(c) \/ DeleteCommit(c) \/ CheckoutCommit(c)
    \/ ConfigureCommit(c) \/ DeactivateCommit(c)

LEMMA Gets ==
    ASSUME NEW c, NEW inOrder, NEW u, Get(c, inOrder, u), inOrder => After(txn[c], u)
    PROVE  Advances(c)
BY DEF Get, Goes, Advances

LEMMA AddAdvances ==
    ASSUME IInv, NEW s \in Clients, AddAccount(s) \/ AddCart(s) \/ AddItem(s)
    PROVE  Advances(s)
<1>t. PICK t : t = txn[s]  OBVIOUS
<1>0. t \in Txn /\ Knows(s, t)  BY <1>t, OfTxn
<1>1. CASE AddAccount(s)
  <2>1. PICK step : step = IF ActiveCart = None THEN "commit" ELSE "cart"  OBVIOUS
  <2>2. PICK u : u = [t EXCEPT !.step = step, !.locking = ActiveCart]  OBVIOUS
  <2>3. t.op = "add" /\ t.step = "account" /\ Get(s, TRUE, u)  BY <1>t, <1>1, <2>1, <2>2 DEF AddAccount, At
  <2>4. t.cart = None  BY <1>0, <2>3 DEF Knows, Adding
  <2>5. u.op = t.op /\ u.version = t.version /\ u.step = step /\ u.cart = t.cart  BY <1>0, <2>2 DEF Txn
  <2>6. step \in {"cart", "commit"}  BY <2>1
  <2>7. After(t, u)  BY <2>3, <2>4, <2>5, <2>6 DEF After
  <2>8. QED  BY <1>t, <2>3, <2>7, Gets
<1>2. CASE AddCart(s)
  <2>1. PICK k : k = IF IsActive(t.locking) THEN t.locking ELSE None  OBVIOUS
  <2>2. PICK same : same = SameProduct(k, t.product)  OBVIOUS
  <2>3. PICK step : step = IF same = {} THEN "commit" ELSE "item"  OBVIOUS
  <2>4. PICK item : item = IF same = {} THEN None ELSE (CHOOSE i \in same : TRUE).id  OBVIOUS
  <2>5. PICK u : u = [t EXCEPT !.cart = k, !.step = step, !.item = item]  OBVIOUS
  <2>6. t.op = "add" /\ t.step = "cart" /\ Get(s, TRUE, u)
    BY <1>t, <1>2, <2>1, <2>2, <2>3, <2>4, <2>5 DEF AddCart, At
  <2>7. u.op = t.op /\ u.version = t.version /\ u.step = step /\ u.cart = k  BY <1>0, <2>5 DEF Txn
  <2>8. step \in {"item", "commit"} /\ k \in {None, t.locking}  BY <2>1, <2>3
  <2>9. After(t, u)  BY <2>6, <2>7, <2>8 DEF After
  <2>10. QED  BY <1>t, <2>6, <2>9, Gets
<1>3. CASE AddItem(s)
  <2>1. PICK now : now = {i \in ItemsOf(t.cart) : i.id = t.item}  OBVIOUS
  <2>2. PICK u : u = [t EXCEPT !.step = "commit", !.item = IF now = {} THEN None ELSE @]  OBVIOUS
  <2>3. t.op = "add" /\ t.step = "item" /\ \E inOrder : Get(s, inOrder, u)
    BY <1>t, <1>3, <2>1, <2>2 DEF AddItem, At
  <2>4. u.op = t.op /\ u.version = t.version /\ u.step = "commit" /\ u.cart = t.cart  BY <1>0, <2>2 DEF Txn
  <2>5. After(t, u)  BY <2>3, <2>4 DEF After
  <2>6. QED  BY <1>t, <2>3, <2>5, Gets
<1>4. QED  BY <1>1, <1>2, <1>3

LEMMA ChangeAdvances ==
    ASSUME IInv, NEW s \in Clients, NEW op \in {"update", "delete"}, ChangeItem(s, op) \/ ChangeCart(s, op)
    PROVE  Advances(s)
<1>t. PICK t : t = txn[s]  OBVIOUS
<1>0. t \in Txn /\ Knows(s, t) /\ CartsOK  BY <1>t, OfTxn
<1>1. CASE ChangeItem(s, op)
  <2>1. PICK k : k = IF op = "update" THEN t.cart ELSE ActiveCart  OBVIOUS
  <2>2. PICK step : step = IF k = None THEN "commit" ELSE "cart"  OBVIOUS
  <2>3. PICK u : u = [t EXCEPT !.locking = k, !.step = step]  OBVIOUS
  <2>4. t.op = op /\ t.step = "item" /\ \E inOrder : Get(s, inOrder, u)
    BY <1>t, <1>1, <2>1, <2>2, <2>3 DEF ChangeItem, At
  <2>5. u.op = t.op /\ u.version = t.version /\ u.step = step /\ u.locking = k /\ u.cart = t.cart
    BY <1>0, <2>3 DEF Txn
  <2>6. op = "update" => t.cart # None
    <3>1. op = "update" => t.cart \in DOMAIN carts  BY <1>0, <2>4 DEF Knows
    <3>2. QED  BY <1>0, <3>1, CartFacts
  <2>7. After(t, u)
    <3>1. CASE op = "update"
      <4>1. k = t.cart /\ step = "cart"  BY <2>1, <2>2, <2>6, <3>1
      <4>2. QED  BY <2>4, <2>5, <3>1, <4>1 DEF After
    <3>2. CASE op = "delete"
      <4>1. step \in {"cart", "commit"} /\ (step = "commit" => k = None)  BY <2>2
      <4>2. QED  BY <2>4, <2>5, <3>2, <4>1 DEF After
    <3>3. QED  BY <3>1, <3>2
  <2>8. QED  BY <1>t, <2>4, <2>7, Gets
<1>2. CASE ChangeCart(s, op)
  <2>1. PICK k : k = IF IsActive(t.locking) THEN t.locking ELSE None  OBVIOUS
  <2>2. PICK u : u = [t EXCEPT !.step = "commit", !.locking = k]  OBVIOUS
  <2>3. [t EXCEPT !.step = "commit", !.locking = IF IsActive(@) THEN @ ELSE None] = u
    BY <1>0, <2>1, <2>2 DEF Txn
  <2>4. t.op = op /\ t.step = "cart" /\ \E inOrder : Get(s, inOrder, u)
    BY <1>t, <1>2, <2>3 DEF ChangeCart, At
  <2>5. u.op = t.op /\ u.version = t.version /\ u.step = "commit" /\ u.locking = k /\ u.cart = t.cart
    BY <1>0, <2>2 DEF Txn
  <2>6. After(t, u)  BY <2>1, <2>4, <2>5 DEF After
  <2>7. QED  BY <1>t, <2>4, <2>6, Gets
<1>3. QED  BY <1>1, <1>2

LEMMA CheckoutAdvances ==
    ASSUME IInv, NEW s \in Clients,
           CheckoutCart(s) \/ CheckoutItems(s) \/ CheckoutCatalog(s) \/ CheckoutAddress(s) \/ CheckoutAccount(s)
    PROVE  Advances(s)
<1>t. PICK t : t = txn[s]  OBVIOUS
<1>0. t \in Txn  BY <1>t, OfTxn
<1>1. CASE CheckoutCart(s)
  <2>1. PICK u : u = [t EXCEPT !.step = "items", !.items = ItemsOf(t.cart)]  OBVIOUS
  <2>2. t.op = "checkout" /\ t.step = "cart"
        /\ Get(s, IsActive(t.cart) /\ carts[t.cart].version = t.version /\ ItemsOf(t.cart) # {}, u)
    BY <1>t, <1>1, <2>1 DEF CheckoutCart, At
  <2>3. u.op = t.op /\ u.version = t.version /\ u.step = "items" /\ u.locking = t.locking /\ u.cart = t.cart
    BY <1>0, <2>1 DEF Txn
  <2>4. IsActive(t.cart) /\ carts[t.cart].version = t.version => After(t, u)  BY <2>2, <2>3 DEF After
  <2>5. QED  BY <1>t, <2>2, <2>4, Gets
<1>2. ASSUME NEW u, NEW step, NEW products, u = [t EXCEPT !.step = step, !.products = products],
             t.op = "checkout", \E inOrder : Get(s, inOrder, u),
             \/ t.step = "items" /\ step = "catalog"
             \/ t.step = "catalog" /\ step = "address"
             \/ t.step = "address" /\ step = "account"
             \/ t.step = "account" /\ step = "commit"
      PROVE  Advances(s)
  <2>1. u.op = t.op /\ u.version = t.version /\ u.step = step /\ u.locking = t.locking /\ u.cart = t.cart
    BY <1>0, <1>2 DEF Txn
  <2>2. After(t, u)  BY <1>2, <2>1 DEF After
  <2>3. QED  BY <1>t, <1>2, <2>2, Gets
<1>3. \A step : [t EXCEPT !.step = step] = [t EXCEPT !.step = step, !.products = t.products]  BY <1>0 DEF Txn
<1>4. CASE CheckoutItems(s)
  <2>1. PICK products : products = {i.product : i \in t.items}  OBVIOUS
  <2>2. PICK u : u = [t EXCEPT !.step = "catalog", !.products = products]  OBVIOUS
  <2>3. t.op = "checkout" /\ t.step = "items" /\ Get(s, TRUE, u)
    BY <1>t, <1>4, <2>1, <2>2 DEF CheckoutItems, At
  <2>4. QED  BY <1>2, <2>2, <2>3
<1>5. CASE CheckoutCatalog(s)
  <2>1. PICK u : u = [t EXCEPT !.step = "address"]  OBVIOUS
  <2>2. t.op = "checkout" /\ t.step = "catalog" /\ \E inOrder : Get(s, inOrder, u)
    BY <1>t, <1>5, <2>1 DEF CheckoutCatalog, At
  <2>3. u = [t EXCEPT !.step = "address", !.products = t.products]  BY <1>3, <2>1
  <2>4. QED  BY <1>2, <2>2, <2>3
<1>6. CASE CheckoutAddress(s)
  <2>1. PICK u : u = [t EXCEPT !.step = "account"]  OBVIOUS
  <2>2. t.op = "checkout" /\ t.step = "address" /\ \E inOrder : Get(s, inOrder, u)
    BY <1>t, <1>6, <2>1 DEF CheckoutAddress, At
  <2>3. u = [t EXCEPT !.step = "account", !.products = t.products]  BY <1>3, <2>1
  <2>4. QED  BY <1>2, <2>2, <2>3
<1>7. CASE CheckoutAccount(s)
  <2>1. PICK u : u = [t EXCEPT !.step = "commit"]  OBVIOUS
  <2>2. t.op = "checkout" /\ t.step = "account" /\ \E inOrder : Get(s, inOrder, u)
    BY <1>t, <1>7, <2>1 DEF CheckoutAccount, At
  <2>3. u = [t EXCEPT !.step = "commit", !.products = t.products]  BY <1>3, <2>1
  <2>4. QED  BY <1>2, <2>2, <2>3
<1>8. QED  BY <1>1, <1>4, <1>5, <1>6, <1>7

LEMMA OtherAdvances ==
    ASSUME IInv, NEW s \in Clients, Configure(s) \/ DeactivateAccount(s) \/ DeactivateAddress(s)
    PROVE  Advances(s)
<1>t. PICK t : t = txn[s]  OBVIOUS
<1>0. t \in Txn  BY <1>t, OfTxn
<1>1. \A step, u : u = [t EXCEPT !.step = step] => u.op = t.op /\ u.version = t.version /\ u.step = step
  BY <1>0 DEF Txn
<1>2. PICK step : /\ \E inOrder : Get(s, inOrder, [t EXCEPT !.step = step])
                  /\ \/ t.op = "configure" /\ t.step = "catalog" /\ step = "commit"
                     \/ t.op = "deactivate" /\ t.step = "account" /\ step = "address"
                     \/ t.op = "deactivate" /\ t.step = "address" /\ step = "commit"
  <2>1. CASE Configure(s)  BY <1>t, <2>1 DEF Configure, At
  <2>2. CASE DeactivateAccount(s)  BY <1>t, <2>2 DEF DeactivateAccount, At
  <2>3. CASE DeactivateAddress(s)  BY <1>t, <2>3 DEF DeactivateAddress, At
  <2>4. QED  BY <2>1, <2>2, <2>3
<1>3. PICK u : u = [t EXCEPT !.step = step]  OBVIOUS
<1>4. After(t, u)  BY <1>1, <1>2, <1>3 DEF After
<1>5. QED  BY <1>t, <1>2, <1>3, <1>4, Gets

\* Whoever is served gets on, fails or commits.
LEMMA Served == ASSUME IInv, NEW c \in Clients, Serve(c) PROVE (Advances(c) \/ Commits(c)) /\ shown' = shown
<1>0. shown' = shown  BY DEF Serve
<1>1. CASE Add(c)  BY <1>0, <1>1, AddAdvances DEF Add, Commits
<1>2. CASE Change(c)  BY <1>0, <1>2, ChangeAdvances DEF Change, Commits
<1>3. CASE Checkout(c)  BY <1>0, <1>3, CheckoutAdvances DEF Checkout, Commits
<1>4. CASE Deactivate(c)  BY <1>0, <1>4, OtherAdvances DEF Deactivate, Commits
<1>5. CASE Configure(c) \/ ConfigureCommit(c)  BY <1>0, <1>5, OtherAdvances DEF Commits
<1>6. CASE Abort(c)  BY <1>0, <1>6 DEF Abort, Advances
<1>7. QED  BY <1>1, <1>2, <1>3, <1>4, <1>5, <1>6 DEF Serve

-----------------------------------------------------------------------------
(* A cart keeps its version while a checkout has it locked, and is          *)
(* converted once.                                                          *)

CartKept(c, t) ==
    /\ t.op = "add" /\ t.step \in {"item", "commit"} /\ t.cart # None => Holds(c, <<"cart", t.cart>>, "update")
    /\ t.op = "update" /\ t.step = "cart" => t.locking = t.cart
    /\ t.op = "update" /\ t.step = "commit" => Holds(c, <<"cart", t.cart>>, "write")
    /\ t.op = "delete" /\ t.step = "commit" /\ t.locking # None => Holds(c, <<"cart", t.locking>>, "write")
    /\ t.op = "checkout" => t.locking = t.cart
    /\ t.op = "checkout" /\ t.step # "cart" =>
         Holds(c, <<"cart", t.cart>>, "update") /\ IsActive(t.cart) /\ carts[t.cart].version = t.version

OInv ==
    /\ \A c \in Clients : CartKept(c, txn[c])
    /\ \A n \in DOMAIN orders : carts[orders[n].cart].status = "converted"
    /\ \A s \in Sessions : shown[s].cart = None => shown[s].version = 0

LEMMA KeptMoves ==
    ASSUME IInv, OInv, NEW c \in Clients, NEW u, txn' = [txn EXCEPT ![c] = u], UNCHANGED <<rows, shown>>,
           \A d, row, mode : d # c /\ Holds(d, row, mode) => Holds(d, row, mode)', CartKept(c, u)'
    PROVE  OInv'
<1>1. UNCHANGED <<carts, orders, shown>>  BY DEF rows
<1>2. txn \in [Clients -> Txn]  BY DEF IInv
<1>3. ASSUME NEW d \in Clients, NEW t, t = txn'[d] PROVE CartKept(d, t)'
  <2>1. CASE d = c  BY <1>2, <1>3, <2>1
  <2>2. CASE d # c
    <3>1. t = txn[d]  BY <1>2, <1>3, <2>2
    <3>2. CartKept(d, t)  BY <3>1 DEF OInv
    <3>3. QED  BY <1>1, <2>2, <3>2 DEF CartKept, IsActive, ActiveCarts
  <2>3. QED  BY <2>1, <2>2
<1>4. \A d \in Clients : CartKept(d, txn[d])'  BY <1>3 DEF CartKept
<1>5. QED  BY <1>1, <1>4 DEF OInv

LEMMA KeptFail == ASSUME IInv, OInv, NEW c \in Clients, Fail(c), shown' = shown PROVE OInv'
<1>1. txn' = [txn EXCEPT ![c] = Blank] /\ locks' = {l \in locks : l.by # c} /\ UNCHANGED <<rows, shown>>
  BY DEF Fail, Release
<1>2. \A d, row, mode : d # c /\ Holds(d, row, mode) => Holds(d, row, mode)'  BY <1>1, Released DEF IInv
<1>3. CartKept(c, Blank)'  BY BlankFacts DEF CartKept
<1>4. QED  BY <1>1, <1>2, <1>3, KeptMoves

LEMMA KeptBegin ==
    ASSUME IInv, OInv, NEW c \in Clients, NEW u, Begin(c, u), shown' = shown,
           \/ u.op = "checkout" /\ u.step = "cart" /\ u.locking = u.cart
           \/ u.op \in {"add", "update", "delete"} /\ u.step \in {"account", "item"} /\ u.cart = None
           \/ u.op \in {"update", "delete"} /\ u.step = "item"
           \/ u.op \in {"look", "configure", "deactivate"}
    PROVE  OInv'
<1>1. txn' = [txn EXCEPT ![c] = u] /\ UNCHANGED <<rows, shown>> /\ locks' = locks  BY DEF Begin
<1>2. \A d, row, mode : Holds(d, row, mode) => Holds(d, row, mode)'  BY <1>1 DEF Holds
<1>3. CartKept(c, u)'  BY DEF CartKept
<1>4. QED  BY <1>1, <1>2, <1>3, KeptMoves

LEMMA KeptSubmit == ASSUME IInv, OInv, NEW s \in Sessions, Submit(s), shown' = shown PROVE OInv'
<1>0. s \in Clients  BY DEF Clients
<1>1. CASE BeginAdd(s)
  <2>1. PICK p \in Products, q \in 1..MaxQuantity :
          Begin(s, [Blank EXCEPT !.op = "add", !.step = "account", !.product = p, !.quantity = q, !.price = catalog[p].price])
    BY <1>1 DEF BeginAdd
  <2>2. PICK u : u = [Blank EXCEPT !.op = "add", !.step = "account", !.product = p, !.quantity = q, !.price = catalog[p].price]
    OBVIOUS
  <2>3. u.op = "add" /\ u.step = "account" /\ u.cart = None  BY <2>2 DEF Blank
  <2>4. QED  BY <1>0, <2>1, <2>2, <2>3, KeptBegin
<1>2. ASSUME NEW op \in {"update", "delete"}, BeginChange(s, op) PROVE OInv'
  <2>1. PICK i \in shown[s].items, q \in 1..MaxQuantity :
          Begin(s, [Blank EXCEPT !.op = op, !.step = "item", !.item = i.id, !.cart = ActiveCart,
                                 !.version = i.version, !.quantity = q])
    BY <1>2 DEF BeginChange
  <2>2. PICK u : u = [Blank EXCEPT !.op = op, !.step = "item", !.item = i.id, !.cart = ActiveCart,
                                   !.version = i.version, !.quantity = q]
    OBVIOUS
  <2>3. u.op = op /\ u.step = "item"  BY <2>2 DEF Blank
  <2>4. QED  BY <1>0, <2>1, <2>2, <2>3, KeptBegin
<1>3. CASE BeginCheckout(s)
  <2>1. PICK a \in Addresses :
          Begin(s, [Blank EXCEPT !.op = "checkout", !.step = "cart", !.locking = ActiveCart,
                                 !.cart = ActiveCart, !.version = shown[s].version, !.address = a])
    BY <1>3 DEF BeginCheckout
  <2>2. PICK u : u = [Blank EXCEPT !.op = "checkout", !.step = "cart", !.locking = ActiveCart,
                                   !.cart = ActiveCart, !.version = shown[s].version, !.address = a]
    OBVIOUS
  <2>3. u.op = "checkout" /\ u.step = "cart" /\ u.locking = u.cart  BY <2>2 DEF Blank
  <2>4. QED  BY <1>0, <2>1, <2>2, <2>3, KeptBegin
<1>4. CASE BeginDeactivate(s)
  <2>1. PICK a \in active : Begin(s, [Blank EXCEPT !.op = "deactivate", !.step = "account", !.address = a])
    BY <1>4 DEF BeginDeactivate
  <2>2. PICK u : u = [Blank EXCEPT !.op = "deactivate", !.step = "account", !.address = a]  OBVIOUS
  <2>3. u.op = "deactivate"  BY <2>2 DEF Blank
  <2>4. QED  BY <1>0, <2>1, <2>2, <2>3, KeptBegin
<1>5. QED  BY <1>1, <1>2, <1>3, <1>4 DEF Submit

LEMMA KeptLook == ASSUME IInv, OInv, NEW s \in Sessions, Look(s) PROVE OInv'
<1>0. s \in Clients  BY DEF Clients
<1>1. CASE shown' = shown /\ \E u : u.op = "look" /\ Begin(s, u)  BY <1>0, <1>1, KeptBegin
<1>2. CASE /\ At(s, "look", "items") /\ Fail(s)
           /\ shown' = [shown EXCEPT ![s] = [cart |-> txn[s].cart, version |-> txn[s].version, items |-> ItemsOf(ActiveCart)]]
  <2>1. txn[s].cart # None
    <3>1. txn[s].cart \in DOMAIN carts /\ CartsOK  BY <1>0, <1>2, OfTxn DEF At, Knows
    <3>2. QED  BY <3>1, CartFacts
  <2>2. \A r \in Sessions : shown'[r].cart = None => shown'[r].version = 0
    <3>1. shown \in [Sessions -> Page]  BY DEF IInv, PagesOK
    <3>2. QED  BY <1>2, <2>1, <3>1 DEF OInv
  <2>3. PICK before : before = shown  OBVIOUS
  <2>4. txn' = [txn EXCEPT ![s] = Blank] /\ locks' = {l \in locks : l.by # s} /\ UNCHANGED <<carts, orders>>
    BY <1>2 DEF Fail, Release, rows
  <2>5. \A d, row, mode : d # s /\ Holds(d, row, mode) => Holds(d, row, mode)'  BY <2>4, Released DEF IInv
  <2>6. ASSUME NEW d \in Clients, NEW t, t = txn'[d] PROVE CartKept(d, t)'
    <3>0. txn \in [Clients -> Txn]  BY DEF IInv
    <3>1. CASE d = s
      <4>1. t = Blank  BY <2>4, <2>6, <3>0, <3>1
      <4>2. t.op = "idle"  BY <4>1, BlankFacts
      <4>3. QED  BY <4>2 DEF CartKept
    <3>2. CASE d # s
      <4>1. t = txn[d]  BY <2>4, <2>6, <3>0, <3>2
      <4>2. CartKept(d, t)  BY <4>1 DEF OInv
      <4>3. QED  BY <2>4, <2>5, <3>2, <4>2 DEF CartKept, IsActive, ActiveCarts
    <3>3. QED  BY <3>1, <3>2
  <2>7. \A d \in Clients : CartKept(d, txn[d])'  BY <2>6 DEF CartKept
  <2>8. QED  BY <2>2, <2>4, <2>7 DEF OInv
<1>3. ASSUME Begin(s, [Blank EXCEPT !.op = "look", !.step = "items", !.cart = ActiveCart,
                                    !.version = carts[ActiveCart].version])
      PROVE  \E u : u.op = "look" /\ Begin(s, u)
  <2>1. PICK u : u = [Blank EXCEPT !.op = "look", !.step = "items", !.cart = ActiveCart,
                                   !.version = carts[ActiveCart].version]
    OBVIOUS
  <2>2. u.op = "look"  BY <2>1 DEF Blank
  <2>3. QED  BY <1>3, <2>1, <2>2
<1>4. QED  BY <1>1, <1>2, <1>3 DEF Look

LEMMA KeptAdvance == ASSUME IInv, OInv, NEW c \in Clients, Advances(c), shown' = shown PROVE OInv'
<1>t. PICK t : t = txn[c]  OBVIOUS
<1>1. CASE Fail(c)  BY <1>1, KeptFail
<1>2. ASSUME NEW u, Goes(c, u), After(t, u) PROVE OInv'
  <2>0. UNCHANGED <<rows, shown>> /\ txn' = [txn EXCEPT ![c] = u] /\ CartKept(c, t)
    BY <1>t, <1>2 DEF Goes, OInv
  <2>1. \A d, row, mode : Holds(d, row, mode) => Holds(d, row, mode)'  BY <1>2, GoesHolds
  <2>2. t.step = "cart" => Holds(c, <<"cart", t.locking>>, CartLock(t.op))'
    <3>1. t.step = "cart" => [row |-> <<"cart", t.locking>>, mode |-> CartLock(t.op)] \in Wanted(t)  BY DEF Wanted
    <3>2. QED  BY <1>t, <1>2, <3>1, GoesHolds
  <2>3. UNCHANGED <<carts>>  BY <2>0 DEF rows
  <2>4. CartKept(c, u)'
    <3>1. CASE t.op = "add"  BY <1>2, <2>0, <2>1, <2>2, <3>1 DEF After, CartKept, CartLock
    <3>2. CASE t.op = "update"  BY <1>2, <2>0, <2>1, <2>2, <3>2 DEF After, CartKept, CartLock
    <3>3. CASE t.op = "delete"  BY <1>2, <2>0, <2>1, <2>2, <3>3 DEF After, CartKept, CartLock
    <3>4. CASE t.op = "checkout"
      <4>1. IsActive(t.cart)' <=> IsActive(t.cart)  BY <2>3 DEF IsActive, ActiveCarts
      <4>2. u.op = "checkout" /\ u.locking = u.cart /\ u.cart = t.cart /\ u.version = t.version
        BY <1>2, <2>0, <3>4 DEF After, CartKept
      <4>3. IsActive(t.cart) /\ carts[t.cart].version = t.version
        BY <1>2, <2>0, <3>4 DEF After, CartKept
      <4>4. Holds(c, <<"cart", t.cart>>, "update")'
        BY <1>2, <2>0, <2>1, <2>2, <3>4 DEF After, CartKept, CartLock
      <4>5. QED  BY <2>3, <4>1, <4>2, <4>3, <4>4 DEF CartKept
    <3>5. CASE t.op \in {"configure", "deactivate"}  BY <1>2, <3>5 DEF After, CartKept
    <3>6. QED  BY <1>2, <3>1, <3>2, <3>3, <3>4, <3>5 DEF After
  <2>5. QED  BY <2>0, <2>1, <2>4, KeptMoves
<1>3. QED  BY <1>t, <1>1, <1>2 DEF Advances

\* A commit changes version and status of those carts only that it has locked.
LEMMA KeptCommit ==
    ASSUME IInv, OInv, NEW c \in Clients, Release(c), shown' = shown, DOMAIN carts \subseteq DOMAIN carts',
           \A k \in DOMAIN carts :
              \/ carts'[k].status = carts[k].status /\ carts'[k].version = carts[k].version
              \/ Holds(c, <<"cart", k>>, "update") \/ Holds(c, <<"cart", k>>, "write"),
           \A k \in DOMAIN carts : carts[k].status = "converted" => carts'[k].status = "converted",
           \A n \in DOMAIN orders' :
              \/ n \in DOMAIN orders /\ orders'[n] = orders[n]
              \/ carts'[orders'[n].cart].status = "converted"
    PROVE  OInv'
<1>1. txn' = [txn EXCEPT ![c] = Blank] /\ locks' = {l \in locks : l.by # c} /\ txn \in [Clients -> Txn]
  BY DEF Release, IInv
<1>2. \A d, row, mode : d # c /\ Holds(d, row, mode) => Holds(d, row, mode)'
  <2>1. LocksOK  BY DEF IInv
  <2>2. QED  BY <1>1, <2>1, Released
<1>3. ASSUME NEW d \in Clients, NEW t, t = txn'[d] PROVE CartKept(d, t)'
  <2>1. CASE d = c
    <3>1. t = Blank  BY <1>1, <1>3, <2>1
    <3>2. t.op = "idle"  BY <3>1, BlankFacts
    <3>3. QED  BY <3>2 DEF CartKept
  <2>2. CASE d # c
    <3>1. t = txn[d]  BY <1>1, <1>3, <2>2
    <3>2. CartKept(d, t)  BY <3>1 DEF OInv
    <3>3. ASSUME t.op = "checkout", t.step # "cart"
          PROVE  IsActive(t.cart)' /\ carts'[t.cart].version = t.version
      <4>1. Holds(d, <<"cart", t.cart>>, "update") /\ IsActive(t.cart) /\ carts[t.cart].version = t.version
        BY <3>2, <3>3 DEF CartKept
      <4>2. t.cart \in DOMAIN carts /\ carts[t.cart].status = "active"  BY <4>1 DEF IsActive, ActiveCarts
      <4>3. Conflict("update", "update") /\ Conflict("update", "write")  BY DEF Conflict
      <4>4. ~Holds(c, <<"cart", t.cart>>, "update") /\ ~Holds(c, <<"cart", t.cart>>, "write")
        BY <2>2, <4>1, <4>3, Alone
      <4>5. carts'[t.cart].status = "active" /\ carts'[t.cart].version = t.version  BY <4>1, <4>2, <4>4
      <4>6. QED  BY <4>1, <4>2, <4>5 DEF IsActive, ActiveCarts
    <3>4. QED  BY <1>2, <2>2, <3>2, <3>3 DEF CartKept
  <2>3. QED  BY <2>1, <2>2
<1>4. \A d \in Clients : CartKept(d, txn[d])'  BY <1>3 DEF CartKept
<1>5. ASSUME NEW n \in DOMAIN orders' PROVE carts'[orders'[n].cart].status = "converted"
  <2>1. CASE n \in DOMAIN orders /\ orders'[n] = orders[n]
    <3>1. orders[n].cart \in DOMAIN carts  BY <2>1 DEF IInv, OrdersOK
    <3>2. carts[orders[n].cart].status = "converted"  BY <2>1 DEF OInv
    <3>3. QED  BY <2>1, <3>1, <3>2
  <2>2. QED  BY <2>1
<1>6. \A s \in Sessions : shown'[s].cart = None => shown'[s].version = 0  BY DEF OInv
<1>7. QED  BY <1>4, <1>5, <1>6 DEF OInv

LEMMA KeptCommits == ASSUME IInv, OInv, NEW c \in Clients, Commits(c), shown' = shown PROVE OInv'
<1>t. PICK t : t = txn[c]  OBVIOUS
<1>0. /\ t \in Txn /\ Knows(c, t) /\ CartsOK /\ CartKept(c, t)
      /\ carts \in Seq(Cart) /\ DOMAIN carts = 1..Len(carts) /\ Len(carts) \in Nat
      /\ \A k \in DOMAIN carts : carts[k] \in Cart /\ k # None
  BY <1>t, OfTxn, CartFacts DEF OInv, CartsOK
<1>1. CASE AddCommit(c)
  <2>1. t.op = "add" /\ t.step = "commit" /\ Release(c) /\ orders' = orders  BY <1>t, <1>1 DEF AddCommit, At
  <2>2. CASE t.cart = None
    <3>1. PICK new : carts' = Append(carts, new)  BY <1>t, <1>1, <2>2 DEF AddCommit
    <3>2. DOMAIN carts' = 1..(Len(carts) + 1) /\ \A k \in 1..Len(carts) : carts'[k] = carts[k]
      BY <1>0, <3>1
    <3>3. DOMAIN carts \subseteq DOMAIN carts' /\ \A k \in DOMAIN carts : carts'[k] = carts[k]  BY <1>0, <3>2
    <3>4. QED  BY <2>1, <3>3, KeptCommit
  <2>3. CASE t.cart # None
    <3>1. PICK items : carts' = [carts EXCEPT ![t.cart].items = items, ![t.cart].version = @ + 1]
      BY <1>t, <1>1, <2>3 DEF AddCommit
    <3>2. DOMAIN carts' = DOMAIN carts /\ \A k \in DOMAIN carts : carts'[k].status = carts[k].status
      BY <1>0, <3>1 DEF Cart
    <3>3. \A k \in DOMAIN carts : k # t.cart => carts'[k] = carts[k]  BY <1>0, <3>1
    <3>4. Holds(c, <<"cart", t.cart>>, "update")  BY <1>0, <2>1, <2>3 DEF CartKept
    <3>5. QED  BY <2>1, <3>2, <3>3, <3>4, KeptCommit
  <2>4. QED  BY <2>2, <2>3
<1>2. CASE UpdateCommit(c)
  <2>1. t.op = "update" /\ t.step = "commit" /\ Release(c) /\ orders' = orders  BY <1>t, <1>2 DEF UpdateCommit, At
  <2>2. Holds(c, <<"cart", t.cart>>, "write")  BY <1>0, <2>1 DEF CartKept
  <2>3. PICK items : carts' = [carts EXCEPT ![t.cart].version = @ + 1, ![t.cart].items = items]
    <3>1. carts' = [carts EXCEPT ![t.cart].version = @ + 1,
                                 ![t.cart].items =
                      {IF i.id = t.item THEN [i EXCEPT !.quantity = t.quantity, !.version = @ + 1]
                                        ELSE i : i \in @}]
      BY <1>t, <1>2 DEF UpdateCommit
    <3>2. QED  BY <3>1
  <2>4. DOMAIN carts' = DOMAIN carts /\ \A k \in DOMAIN carts : carts'[k].status = carts[k].status
    BY <1>0, <2>3 DEF Cart
  <2>5. \A k \in DOMAIN carts : k # t.cart => carts'[k] = carts[k]  BY <1>0, <2>3
  <2>6. QED  BY <2>1, <2>2, <2>4, <2>5, KeptCommit
<1>3. CASE DeleteCommit(c)
  <2>1. t.op = "delete" /\ t.step = "commit" /\ Release(c) /\ orders' = orders  BY <1>t, <1>3 DEF DeleteCommit, At
  <2>2. carts' = [k \in DOMAIN carts |->
                    [carts[k] EXCEPT !.items = IF k = t.cart THEN {i \in @ : i.id # t.item} ELSE @,
                                     !.version = IF k = t.locking THEN @ + 1 ELSE @]]
    BY <1>t, <1>3 DEF DeleteCommit
  <2>3. DOMAIN carts' = DOMAIN carts  BY <2>2
  <2>4. ASSUME NEW k \in DOMAIN carts
        PROVE  carts'[k].status = carts[k].status /\ (k # t.locking => carts'[k].version = carts[k].version)
    <3>1. PICK old : old = carts[k]  OBVIOUS
    <3>2. carts'[k] = [old EXCEPT !.items = IF k = t.cart THEN {i \in @ : i.id # t.item} ELSE @,
                                  !.version = IF k = t.locking THEN @ + 1 ELSE @]
      BY <2>2, <3>1
    <3>3. QED  BY <1>0, <3>1, <3>2 DEF Cart
  <2>5. t.locking \in DOMAIN carts => Holds(c, <<"cart", t.locking>>, "write")  BY <1>0, <2>1 DEF CartKept
  <2>6. QED  BY <2>1, <2>3, <2>4, <2>5, KeptCommit
<1>4. CASE CheckoutCommit(c)
  <2>1. t.op = "checkout" /\ t.step = "commit" /\ Release(c)  BY <1>t, <1>4 DEF CheckoutCommit, At
  <2>2. Holds(c, <<"cart", t.cart>>, "update") /\ t.cart \in DOMAIN carts
    BY <1>0, <2>1 DEF CartKept, Knows, Checking
  <2>3. carts' = [carts EXCEPT ![t.cart].status = "converted", ![t.cart].version = @ + 1]
    BY <1>t, <1>4 DEF CheckoutCommit
  <2>4. DOMAIN carts' = DOMAIN carts /\ carts'[t.cart].status = "converted"
    BY <1>0, <2>2, <2>3 DEF Cart
  <2>5. \A k \in DOMAIN carts : k # t.cart => carts'[k] = carts[k]  BY <1>0, <2>3
  <2>6. PICK order : /\ order = [cart |-> t.cart, lines |-> Lines(t.items), address |-> t.address, by |-> c]
                     /\ orders' = Append(orders, order)
    BY <1>t, <1>4 DEF CheckoutCommit
  <2>7. \A n \in DOMAIN orders' : (n \in DOMAIN orders /\ orders'[n] = orders[n]) \/ orders'[n] = order
    <3>1. orders \in Seq(Order)  BY DEF IInv, OrdersOK
    <3>2. QED  BY <2>6, <3>1
  <2>8. QED  BY <2>1, <2>2, <2>4, <2>5, <2>6, <2>7, KeptCommit
<1>5. CASE ConfigureCommit(c) \/ DeactivateCommit(c)
  <2>1. Release(c) /\ orders' = orders /\ carts' = carts  BY <1>5 DEF ConfigureCommit, DeactivateCommit
  <2>2. QED  BY <2>1, KeptCommit
<1>6. QED  BY <1>1, <1>2, <1>3, <1>4, <1>5 DEF Commits

LEMMA OrdersOnce == Spec => []OInv
<1>1. Init => OInv
  <2>1. ASSUME Init PROVE OInv
    <3>1. orders = <<>> /\ txn = [c \in Clients |-> Blank] /\ shown = [s \in Sessions |-> NothingShown]
      BY <2>1 DEF Init
    <3>2. \A c \in Clients : txn[c].op = "idle"  BY <3>1, BlankFacts
    <3>3. \A s \in Sessions : shown[s].version = 0  BY <3>1 DEF NothingShown
    <3>4. QED  BY <3>1, <3>2, <3>3 DEF OInv, CartKept
  <2>2. QED  BY <2>1
<1>2. IInv /\ OInv /\ [Next]_vars => OInv'
  <2>1. ASSUME IInv, OInv, Next PROVE OInv'
    <3>1. ASSUME NEW s \in Sessions, Look(s) PROVE OInv'  BY <2>1, <3>1, KeptLook
    <3>2. ASSUME NEW s \in Sessions, Submit(s), UNCHANGED shown PROVE OInv'  BY <2>1, <3>2, KeptSubmit
    <3>3. ASSUME NEW c \in Admins, BeginConfigure(c), UNCHANGED shown PROVE OInv'
      <4>1. PICK u : u.op = "configure" /\ Begin(c, u)
        <5>1. PICK p \in Products, price \in Prices, available \in BOOLEAN :
                Begin(c, [Blank EXCEPT !.op = "configure", !.step = "catalog", !.product = p, !.products = {p},
                                       !.version = catalog[p].version, !.price = price, !.available = available])
          BY <3>3 DEF BeginConfigure
        <5>2. PICK u : u = [Blank EXCEPT !.op = "configure", !.step = "catalog", !.product = p, !.products = {p},
                                         !.version = catalog[p].version, !.price = price, !.available = available]
          OBVIOUS
        <5>3. u.op = "configure"  BY <5>2 DEF Blank
        <5>4. QED  BY <5>1, <5>2, <5>3
      <4>2. QED  BY <2>1, <3>3, <4>1, KeptBegin DEF Clients
    <3>4. ASSUME NEW c \in Clients, Serve(c) PROVE OInv'  BY <2>1, <3>4, Served, KeptAdvance, KeptCommits
    <3>5. QED  BY <2>1, <3>1, <3>2, <3>3, <3>4 DEF Next
  <2>2. ASSUME OInv, UNCHANGED vars PROVE OInv'
    BY <2>2 DEF vars, rows, OInv, CartKept, Holds, IsActive, ActiveCarts
  <2>3. QED  BY <2>1, <2>2
<1>3. QED  BY <1>1, <1>2, Inductive, PTL DEF Spec

-----------------------------------------------------------------------------
(* Which kinds of rows a transaction may have locked at a step: who waits    *)
(* for whom follows from it.                                                *)

Held(op, kind, step) ==
    \/ /\ op = "add"
       /\ \/ kind = "account" /\ step \in {"cart", "item", "commit"}
          \/ kind = "cart" /\ step \in {"item", "commit"}
          \/ kind = "item" /\ step = "commit"
    \/ /\ op \in {"update", "delete"}
       /\ \/ kind = "item" /\ step \in {"cart", "commit"}
          \/ kind = "cart" /\ step = "commit"
    \/ /\ op = "checkout"
       /\ \/ kind = "cart" /\ step \in {"items", "catalog", "address", "account", "commit"}
          \/ kind = "item" /\ step \in {"catalog", "address", "account", "commit"}
          \/ kind = "catalog" /\ step \in {"address", "account", "commit"}
          \/ kind = "address" /\ step \in {"account", "commit"}
          \/ kind = "account" /\ step = "commit"
    \/ op = "configure" /\ kind = "catalog" /\ step = "commit"
    \/ /\ op = "deactivate"
       /\ \/ kind = "account" /\ step \in {"address", "commit"}
          \/ kind = "address" /\ step = "commit"

HeldOK == \A l \in locks : l.by \in Clients /\ Held(txn[l.by].op, l.row[1], txn[l.by].step)

\* The kind of row a step waits for.
Kind(step) == IF step = "items" THEN "item" ELSE step

Waits == {"account", "cart", "item", "items", "catalog", "address"}

LEMMA WantedKind ==
    ASSUME NEW t, NEW w \in Wanted(t)
    PROVE  t.step \in Waits /\ w.row[1] = Kind(t.step)
<1>1. t.step \in Waits  BY DEF Wanted, Waits
<1>2. CASE t.step = "account"  BY <1>2 DEF Wanted, Kind, Waits
<1>3. CASE t.step = "cart"  BY <1>3 DEF Wanted, Kind, Waits
<1>4. CASE t.step = "item"  BY <1>4 DEF Wanted, Kind, Waits
<1>5. CASE t.step = "items"  BY <1>5 DEF Wanted, Kind, Waits
<1>6. CASE t.step = "catalog"  BY <1>6 DEF Wanted, Kind, Waits
<1>7. CASE t.step = "address"  BY <1>7 DEF Wanted, Kind, Waits
<1>8. QED  BY <1>1, <1>2, <1>3, <1>4, <1>5, <1>6, <1>7 DEF Waits

LEMMA HeldRelease == ASSUME IInv, HeldOK, NEW c \in Clients, Release(c) PROVE HeldOK'
<1>1. txn' = [txn EXCEPT ![c] = Blank] /\ locks' = {l \in locks : l.by # c} /\ txn \in [Clients -> Txn]
  BY DEF Release, IInv
<1>2. \A d \in Clients \ {c} : txn'[d] = txn[d]  BY <1>1
<1>3. QED  BY <1>1, <1>2 DEF HeldOK

LEMMA HeldBegin == ASSUME IInv, HeldOK, NEW c \in Clients, NEW u, Begin(c, u) PROVE HeldOK'
<1>1. txn[c] = Blank /\ txn' = [txn EXCEPT ![c] = u] /\ locks' = locks /\ txn \in [Clients -> Txn]  BY DEF Begin, IInv
<1>2. \A l \in locks : l.by # c
  <2>1. txn[c].op = "idle"  BY <1>1, BlankFacts
  <2>2. \A kind, step : ~Held("idle", kind, step)  BY DEF Held
  <2>3. QED  BY <2>1, <2>2 DEF HeldOK
<1>3. QED  BY <1>1, <1>2 DEF HeldOK

LEMMA HeldAdvance == ASSUME IInv, HeldOK, NEW c \in Clients, Advances(c) PROVE HeldOK'
<1>t. PICK t : t = txn[c]  OBVIOUS
<1>1. CASE Fail(c)  BY <1>1, HeldRelease DEF Fail
<1>2. ASSUME NEW u, Goes(c, u), After(t, u) PROVE HeldOK'
  <2>1. /\ txn' = [txn EXCEPT ![c] = u] /\ txn \in [Clients -> Txn]
        /\ locks' = locks \cup {[row |-> w.row, mode |-> w.mode, by |-> c] : w \in Wanted(t)}
    BY <1>t, <1>2 DEF Goes, IInv
  <2>2. txn'[c] = u /\ \A d \in Clients \ {c} : txn'[d] = txn[d]  BY <2>1
  <2>3. ASSUME NEW kind, Held(t.op, kind, t.step) PROVE Held(u.op, kind, u.step)
    BY <1>2, <2>3 DEF After, Held
  <2>4. Held(u.op, Kind(t.step), u.step) \/ t.step \notin Waits  BY <1>2 DEF After, Held, Kind
  <2>5. ASSUME NEW l \in locks' PROVE l.by \in Clients /\ Held(txn'[l.by].op, l.row[1], txn'[l.by].step)
    <3>1. CASE l \in locks
      <4>1. l.by \in Clients /\ Held(txn[l.by].op, l.row[1], txn[l.by].step)  BY <3>1 DEF HeldOK
      <4>2. CASE l.by = c
        <5>1. Held(u.op, l.row[1], u.step)  BY <1>t, <2>3, <4>1, <4>2
        <5>2. QED  BY <2>2, <4>1, <4>2, <5>1
      <4>3. CASE l.by # c  BY <2>2, <4>1, <4>3
      <4>4. QED  BY <4>2, <4>3
    <3>2. CASE l \notin locks
      <4>1. PICK w \in Wanted(t) : l = [row |-> w.row, mode |-> w.mode, by |-> c]  BY <2>1, <3>2
      <4>2. l.by = c /\ l.row[1] = Kind(t.step) /\ t.step \in Waits  BY <4>1, WantedKind
      <4>3. QED  BY <2>2, <2>4, <4>2
    <3>3. QED  BY <3>1, <3>2
  <2>6. QED  BY <2>5 DEF HeldOK
<1>3. QED  BY <1>t, <1>1, <1>2 DEF Advances

LEMMA LocksHeld == Spec => []HeldOK
<1>1. Init => HeldOK  BY DEF Init, HeldOK
<1>2. IInv /\ HeldOK /\ [Next]_vars => HeldOK'
  <2>1. ASSUME IInv, HeldOK, Next PROVE HeldOK'
    <3>1. ASSUME NEW s \in Sessions, Look(s) PROVE HeldOK'
      <4>1. s \in Clients  BY DEF Clients
      <4>2. CASE Fail(s)  BY <2>1, <4>1, <4>2, HeldRelease DEF Fail
      <4>3. CASE \E u : Begin(s, u)  BY <2>1, <4>1, <4>3, HeldBegin
      <4>4. QED  BY <3>1, <4>2, <4>3 DEF Look
    <3>2. ASSUME NEW s \in Sessions, Submit(s) PROVE HeldOK'
      <4>1. s \in Clients  BY DEF Clients
      <4>2. \E u : Begin(s, u)  BY <3>2 DEF Submit, BeginAdd, BeginChange, BeginCheckout, BeginDeactivate
      <4>3. QED  BY <2>1, <4>1, <4>2, HeldBegin
    <3>3. ASSUME NEW c \in Admins, BeginConfigure(c) PROVE HeldOK'
      <4>1. c \in Clients  BY DEF Clients
      <4>2. \E u : Begin(c, u)  BY <3>3 DEF BeginConfigure
      <4>3. QED  BY <2>1, <4>1, <4>2, HeldBegin
    <3>4. ASSUME NEW c \in Clients, Serve(c) PROVE HeldOK'
      <4>1. Commits(c) => Release(c)
        BY DEF Commits, AddCommit, UpdateCommit, DeleteCommit, CheckoutCommit, ConfigureCommit, DeactivateCommit
      <4>2. QED  BY <2>1, <3>4, <4>1, Served, HeldAdvance, HeldRelease
    <3>5. QED  BY <2>1, <3>1, <3>2, <3>3, <3>4 DEF Next
  <2>2. ASSUME HeldOK, UNCHANGED vars PROVE HeldOK'  BY <2>2 DEF vars, HeldOK
  <2>3. QED  BY <2>1, <2>2
<1>3. QED  BY <1>1, <1>2, Inductive, PTL DEF Spec

\* Who waits for a client waits for a kind of row it has locked.
LEMMA WaitsForHeld ==
    ASSUME HeldOK, NEW c \in Clients, NEW d \in WaitsFor(c)
    PROVE  d \in Clients /\ txn[c].step \in Waits /\ Held(txn[d].op, Kind(txn[c].step), txn[d].step)
<1>1. PICK l \in locks : l.by = d /\ \E w \in Wanted(txn[c]) : w.row = l.row  BY DEF WaitsFor, Blocking
<1>2. txn[c].step \in Waits /\ l.row[1] = Kind(txn[c].step)  BY <1>1, WantedKind
<1>3. QED  BY <1>1, <1>2 DEF HeldOK

LEMMA CirclesMixed ==
    ASSUME HeldOK, NEW S \in SUBSET Clients, Circle(S), NEW Ops, Ops = {txn[c].op : c \in S}
    PROVE  \/ "checkout" \in Ops /\ Ops \cap {"add", "update", "delete", "deactivate"} # {}
           \/ "add" \in Ops /\ Ops \cap {"update", "delete"} # {}
<1>1. \A c \in S : txn[c].op \in Ops  OBVIOUS
<1>2. S # {} /\ \A c \in S : \E d \in S : d \in WaitsFor(c)  BY DEF Circle
<1>3. \A c \in S : txn[c].step \in Waits  BY <1>2, WaitsForHeld
<1>4. \A c \in S : \E d \in S : Held(txn[d].op, Kind(txn[c].step), txn[d].step)  BY <1>2, WaitsForHeld
\* Checkouts alone: each waits for one that is further.
<1>5. CASE Ops \cap {"add", "update", "delete", "deactivate"} = {}
  <2>1. ASSUME NEW d \in S, NEW kind, Held(txn[d].op, kind, txn[d].step)
        PROVE  /\ kind = "cart" => txn[d].step \in {"items", "catalog", "address", "account"}
               /\ kind = "item" => txn[d].step \in {"catalog", "address", "account"}
               /\ kind = "catalog" => txn[d].step \in {"address", "account"}
               /\ kind = "address" => txn[d].step = "account"
               /\ kind # "account"
    <3>1. txn[d].op \notin {"add", "update", "delete", "deactivate"} /\ txn[d].step # "commit"
      BY <1>1, <1>3, <1>5 DEF Waits
    <3>2. QED  BY <2>1, <3>1 DEF Held
  <2>2. \A c \in S : txn[c].step # "account"  BY <1>4, <2>1 DEF Kind
  <2>3. \A c \in S : txn[c].step # "address"  BY <1>4, <2>1, <2>2 DEF Kind
  <2>4. \A c \in S : txn[c].step # "catalog"  BY <1>4, <2>1, <2>2, <2>3 DEF Kind
  <2>5. \A c \in S : txn[c].step \notin {"item", "items"}  BY <1>4, <2>1, <2>2, <2>3, <2>4 DEF Kind
  <2>6. \A c \in S : txn[c].step # "cart"  BY <1>4, <2>1, <2>2, <2>3, <2>4, <2>5 DEF Kind
  <2>7. QED  BY <1>2, <1>3, <2>2, <2>3, <2>4, <2>5, <2>6 DEF Waits
\* Without a checkout nobody has an address or a catalog entry for long.
<1>6. ASSUME "checkout" \notin Ops
      PROVE  /\ \A c \in S : txn[c].step \notin {"address", "catalog"}
             /\ \A d \in S : \A kind : Held(txn[d].op, kind, txn[d].step) =>
                  \/ txn[d].op = "add" /\ kind = "account" /\ txn[d].step \in {"cart", "item"}
                  \/ txn[d].op = "add" /\ kind = "cart" /\ txn[d].step = "item"
                  \/ txn[d].op \in {"update", "delete"} /\ kind = "item" /\ txn[d].step = "cart"
  <2>1. ASSUME NEW d \in S, NEW kind, Held(txn[d].op, kind, txn[d].step)
        PROVE  \/ txn[d].op = "add" /\ kind = "account" /\ txn[d].step \in {"cart", "item"}
               \/ txn[d].op = "add" /\ kind = "cart" /\ txn[d].step = "item"
               \/ txn[d].op \in {"update", "delete"} /\ kind = "item" /\ txn[d].step = "cart"
               \/ txn[d].op = "deactivate" /\ kind = "account" /\ txn[d].step = "address"
    <3>1. txn[d].op # "checkout" /\ txn[d].step # "commit"  BY <1>1, <1>3, <1>6 DEF Waits
    <3>2. QED  BY <2>1, <3>1 DEF Held
  <2>2. \A c \in S : txn[c].step \notin {"address", "catalog"}
    <3>1. \A c \in S : \E d \in S : Kind(txn[c].step) \in {"account", "cart", "item"}  BY <1>4, <2>1
    <3>2. QED  BY <3>1 DEF Kind
  <2>3. QED  BY <2>1, <2>2
<1>7. CASE "checkout" \notin Ops /\ "add" \notin Ops
  <2>1. \A c \in S : Kind(txn[c].step) = "item" /\ \E d \in S : txn[d].step = "cart"  BY <1>1, <1>4, <1>6, <1>7
  <2>2. \A c \in S : txn[c].step # "cart"  BY <2>1 DEF Kind
  <2>3. QED  BY <1>2, <2>1, <2>2
<1>8. CASE "checkout" \notin Ops /\ Ops \cap {"update", "delete"} = {}
  <2>1. \A c \in S : \/ Kind(txn[c].step) = "account"
                     \/ Kind(txn[c].step) = "cart" /\ \E d \in S : txn[d].step = "item"
    BY <1>1, <1>4, <1>6, <1>8
  <2>2. \A c \in S : txn[c].step # "item"  BY <2>1 DEF Kind
  <2>3. \A c \in S : txn[c].step = "account"  BY <2>1, <2>2 DEF Kind
  <2>4. \A c \in S : \E d \in S : txn[d].step \in {"cart", "item"}
    <3>1. \A c \in S : \E d \in S : Held(txn[d].op, "account", txn[d].step)  BY <1>4, <2>3 DEF Kind
    <3>2. \A d \in S : Held(txn[d].op, "account", txn[d].step) => txn[d].step \in {"cart", "item"}  BY <1>6, <1>8
    <3>3. QED  BY <3>1, <3>2
  <2>5. QED  BY <1>2, <2>3, <2>4
<1>9. QED  BY <1>5, <1>7, <1>8

-----------------------------------------------------------------------------
(* What is claimed.                                                         *)

\* The rows keep the columns' constraints, a product is once in a cart and a
\* customer has at most one active cart, however many windows add to it: TypeOK,
\* for any number of sessions, products, carts and items.
THEOREM TypeCorrect == Spec => []TypeOK
<1>1. Spec => []IInv  BY Inductive
<1>2. IInv => TypeOK  BY Consequences
<1>3. QED  BY <1>1, <1>2, PTL

\* Only the commit of a checkout makes an order, and it makes one.
LEMMA OrdersAreMade ==
    ASSUME IInv, Next, NEW n \in DOMAIN orders' \ DOMAIN orders
    PROVE  \E s \in Sessions, t \in Txn :
             /\ t = txn[s] /\ Checking(s, t) /\ t.op = "checkout" /\ t.step = "commit" /\ t.items \subseteq Item
             /\ orders'[n] = [cart |-> t.cart, lines |-> Lines(t.items), address |-> t.address, by |-> s]
<1>1. PICK s \in Clients : CheckoutCommit(s)
  <2>1. orders' # orders  OBVIOUS
  <2>2. ASSUME NEW s \in Sessions, Look(s) PROVE FALSE  BY <2>1, <2>2 DEF Look, Begin, Fail, rows
  <2>3. ASSUME NEW s \in Sessions, Submit(s) PROVE FALSE
    BY <2>1, <2>3 DEF Submit, BeginAdd, BeginChange, BeginCheckout, BeginDeactivate, Begin, rows
  <2>4. ASSUME NEW c \in Admins, BeginConfigure(c) PROVE FALSE  BY <2>1, <2>4 DEF BeginConfigure, Begin, rows
  <2>5. ASSUME NEW c \in Clients, Serve(c) PROVE CheckoutCommit(c)
    <3>1. \A u, inOrder : Get(c, inOrder, u) => orders' = orders  BY DEF Get, Fail, rows
    <3>2. CASE Add(c)  BY <2>1, <3>1, <3>2 DEF Add, AddAccount, AddCart, AddItem, AddCommit
    <3>3. CASE Change(c)  BY <2>1, <3>1, <3>3 DEF Change, ChangeItem, ChangeCart, UpdateCommit, DeleteCommit
    <3>4. CASE Checkout(c)
      BY <2>1, <3>1, <3>4 DEF Checkout, CheckoutCart, CheckoutItems, CheckoutCatalog, CheckoutAddress, CheckoutAccount
    <3>5. CASE Deactivate(c)  BY <2>1, <3>1, <3>5 DEF Deactivate, DeactivateAccount, DeactivateAddress, DeactivateCommit
    <3>6. CASE Configure(c) \/ ConfigureCommit(c)  BY <2>1, <3>1, <3>6 DEF Configure, ConfigureCommit
    <3>7. CASE Abort(c)  BY <2>1, <3>7 DEF Abort, Fail, rows
    <3>8. QED  BY <2>5, <3>2, <3>3, <3>4, <3>5, <3>6, <3>7 DEF Serve
  <2>6. QED  BY <2>2, <2>3, <2>4, <2>5 DEF Next
<1>2. PICK t : t = txn[s]  OBVIOUS
<1>3. t \in Txn /\ Knows(s, t) /\ t.op = "checkout" /\ t.step = "commit"  BY <1>1, <1>2, OfTxn DEF CheckoutCommit, At
<1>4. Checking(s, t) /\ s \in Sessions /\ t.items \subseteq Item  BY <1>3 DEF Knows, Checking, Txn
<1>5. PICK order : order = [cart |-> t.cart, lines |-> Lines(t.items), address |-> t.address, by |-> s]  OBVIOUS
<1>6. orders' = Append(orders, order) /\ orders \in Seq(Order)
  BY <1>1, <1>2, <1>5 DEF CheckoutCommit, IInv, OrdersOK
<1>7. DOMAIN orders = 1..Len(orders) /\ DOMAIN orders' = 1..(Len(orders) + 1) /\ orders'[Len(orders) + 1] = order
      /\ Len(orders) \in Nat
  BY <1>6
<1>8. n = Len(orders) + 1  BY <1>7
<1>9. QED  BY <1>2, <1>3, <1>4, <1>5, <1>7, <1>8

\* OrderedAsOffered: whatever the administrators change meanwhile, when an order
\* is made its products are available, the customer is charged what the catalog
\* asks, and the address is active.
THEOREM OrdersAsOffered == Spec => OrderedAsOffered
<1>1. ASSUME IInv, Next, NEW n \in DOMAIN orders' \ DOMAIN orders
      PROVE  /\ orders'[n].address \in active
             /\ \A line \in orders'[n].lines :
                   catalog[line.product].available /\ catalog[line.product].price = line.price
  <2>1. PICK s \in Sessions, t \in Txn :
          /\ t = txn[s] /\ Checking(s, t) /\ t.step = "commit" /\ t.items \subseteq Item
          /\ orders'[n] = [cart |-> t.cart, lines |-> Lines(t.items), address |-> t.address, by |-> s]
    BY <1>1, OrdersAreMade
  <2>2. orders'[n].address = t.address /\ orders'[n].lines = Lines(t.items)  BY <2>1
  <2>3. \A line \in Lines(t.items) : \E i \in t.items : line.product = i.product /\ line.price = i.price  BY DEF Lines
  <2>4. QED  BY <2>1, <2>2, <2>3 DEF Checking
<1>2. IInv /\ [Next]_vars => [\A n \in DOMAIN orders' \ DOMAIN orders :
          /\ orders'[n].address \in active
          /\ \A line \in orders'[n].lines :
                catalog[line.product].available /\ catalog[line.product].price = line.price]_vars
  BY <1>1
<1>3. QED  BY <1>2, Inductive, PTL DEF OrderedAsOffered, Spec

\* ShownIsOrdered: a cart is ordered once, under the row_version the session last
\* read, which stands for the items of the cart it read them in; it can be another
\* cart's only once that one has been checked out.
THEOREM OrdersAsShown == Spec => ShownIsOrdered
<1> DEFINE Made(n) == LET read == shown[orders'[n].by]
                          k    == orders'[n].cart
                      IN  /\ \A m \in DOMAIN orders : orders[m].cart # k
                          /\ read.version = carts[k].version
                          /\ IF read.cart = k THEN Lines(read.items) = orders'[n].lines
                                              ELSE carts[read.cart].status = "converted"
<1>1. ASSUME IInv, OInv, Next, NEW n \in DOMAIN orders' \ DOMAIN orders PROVE Made(n)
  <2>1. PICK s \in Sessions, t \in Txn :
          /\ t = txn[s] /\ Checking(s, t) /\ t.op = "checkout" /\ t.step = "commit" /\ t.items \subseteq Item
          /\ orders'[n] = [cart |-> t.cart, lines |-> Lines(t.items), address |-> t.address, by |-> s]
    BY <1>1, OrdersAreMade
  <2>2. orders'[n].cart = t.cart /\ orders'[n].lines = Lines(t.items) /\ orders'[n].by = s  BY <2>1
  <2>3. (shown[s].cart = t.cart => t.items = shown[s].items) /\ t.version = shown[s].version  BY <2>1 DEF Checking
  <2>4. IsActive(t.cart) /\ carts[t.cart].version = t.version  BY <1>1, <2>1 DEF OInv, CartKept, Clients
  <2>5. t.cart \in DOMAIN carts /\ carts[t.cart].status = "active"  BY <2>4 DEF IsActive, ActiveCarts
  <2>6. \A m \in DOMAIN orders : orders[m].cart # t.cart  BY <1>1, <2>5 DEF OInv
  <2>7. ASSUME shown[s].cart # t.cart PROVE carts[shown[s].cart].status = "converted"
    <3>1. CartsOK /\ PagesOK  BY <1>1 DEF IInv
    <3>2. \A k \in DOMAIN carts : carts[k] \in Cart  BY <3>1, CartFacts
    <3>3. shown[s].cart # None
      <4>1. t.version # 0  BY <2>4, <2>5, <3>2 DEF Cart
      <4>2. QED  BY <1>1, <2>3, <4>1 DEF OInv
    <3>4. shown[s].cart \in DOMAIN carts  BY <3>1, <3>3 DEF PagesOK, Current
    <3>5. shown[s].cart \notin ActiveCarts  BY <2>4, <2>7, <3>1 DEF CartsOK, IsActive
    <3>6. QED  BY <3>2, <3>4, <3>5 DEF ActiveCarts, Cart
  <2>8. QED  BY <2>2, <2>3, <2>4, <2>6, <2>7
<1>2. IInv /\ OInv /\ [Next]_vars => [\A n \in DOMAIN orders' \ DOMAIN orders : Made(n)]_vars
  BY <1>1
<1>3. Spec => [][\A n \in DOMAIN orders' \ DOMAIN orders : Made(n)]_vars
  BY <1>2, Inductive, OrdersOnce, PTL DEF Spec
<1>4. QED  BY <1>3, PTL DEF ShownIsOrdered

\* WaitsEnd: nobody waits for a lock whose request has ended, and requests wait in a
\* circle only if a checkout is among them with another kind of request, or an
\* addition with a change of the cart.
THEOREM WaitsComeToAnEnd == Spec => []WaitsEnd
<1>1. HeldOK => WaitsEnd
  <2>1. ASSUME HeldOK PROVE WaitsEnd
    <3>1. ASSUME NEW c \in Waiting, NEW d \in WaitsFor(c) PROVE txn[d].op \notin {"idle", "look"}
      <4>1. c \in Clients  BY DEF Waiting
      <4>2. Held(txn[d].op, Kind(txn[c].step), txn[d].step)  BY <2>1, <4>1, WaitsForHeld
      <4>3. QED  BY <4>2 DEF Held
    <3>2. \A S \in SUBSET Waiting : S \in SUBSET Clients  BY DEF Waiting
    <3>3. QED  BY <2>1, <3>1, <3>2, CirclesMixed DEF WaitsEnd
  <2>2. QED  BY <2>1
<1>2. QED  BY <1>1, LocksHeld, PTL

=============================================================================
