------------------------ MODULE MCRefundTransactions ------------------------
(* Instances of RefundTransactions for TLC.                                 *)
EXTENDS RefundTransactions, TLC

CONSTANTS o1, i1, i2

OneOrder == [i \in Items |-> o1]
OneCent  == [i \in Items |-> 1]
OneOwner == [o \in Orders |-> CHOOSE c \in Customers : TRUE]

Symmetry == Permutations(Staff) \cup Permutations(Requests) \cup Permutations(Refunds)

=============================================================================
