-------------------------------- MODULE MCStaff --------------------------------
(* Three accounts and two browser sessions; a product, an imported order, a *)
(* staff order with one item, and two rows more.                            *)
EXTENDS Staff, MCStaffAccounts, Sequences

Row(kind, origin, product, order, session, amount) ==
    [kind |-> kind, origin |-> origin, product |-> product, order |-> order, item |-> 0, session |-> session,
     amount |-> amount, version |-> 1]

MCBase == << Row("products", "staff", 0, 0, 0, 0), Row("orders", "imported", 1, 0, 1, 0),
             Row("orders", "staff", 0, 0, 2, 0), Row("order_items", "staff", 1, 3, 0, 2) >>

Data(kind, product, order, item, session, amount) ==
    [kind |-> kind, product |-> product, order |-> order, item |-> item, session |-> session, amount |-> amount]

MCInputs ==
    {Data("products", 0, 0, 0, 0, 0)}
    \cup {Data("orders", 0, 0, 0, visit, 0) : visit \in {2, 3}}
    \cup {Data("order_items", 1, order, 0, 0, price) : order \in {2, 3, 5}, price \in {1, 2}}
    \cup {Data("order_item_refunds", 0, 3, 4, 0, amount) : amount \in {1, 2}}

ASSUME RecordsAssumption == Records!RecordsAssumption

=============================================================================
