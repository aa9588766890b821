------------------------------ MODULE MCCustomers ------------------------------
(* Two browser sessions and up to three addresses; one account, two tabs of *)
(* one browser and a bag of one product.                                    *)
EXTENDS Customers, MCCustomerResources

CONSTANTS c1, t1, t2, p1

ASSUME AccessBounds == Access!BoundsAssumption

=============================================================================
