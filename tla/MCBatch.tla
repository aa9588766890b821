------------------------------- MODULE MCBatch -------------------------------
(* The log of two page views, one of them with an order, and a refund; a    *)
(* product, an order of one item and its refund as CSV files; three page    *)
(* views of two sessions; three rows that are served, with a column that is *)
(* 0, NULL and 1; stages and tables enough for a beginning and an end.      *)
EXTENDS Batch, MCEventLog

MCFileRows == {<<"products", 1>>, <<"orders", 1>>, <<"order_items", 2>>, <<"order_item_refunds", 1>>}
MCParent(k) == CASE k[1] = "order_items"        -> <<"orders", 1>>
                 [] k[1] = "order_item_refunds" -> <<"order_items", 2>>
                 [] OTHER                       -> None

MCAmounts == {0 - 1, 2}

Column(id, flag) == [id |-> id, flag |-> flag]
MCServedRows == <<Column(1, 0), Column(2, None), Column(4, 1)>>

MCPipelineStages == <<"profile", "join", "baseline">>
MCCopiedTables == <<"products", "orders">>
MCCountedTables == <<"orders", "products">>
MCRefersTo(t) == IF t = "orders" THEN {"products"} ELSE {}
MCStreamStages == <<"Log self-test", "Produce">>

=============================================================================
