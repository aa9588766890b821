--------------------------- MODULE MCOrderRefunds ---------------------------
(* Instances of OrderRefunds for TLC.                                       *)
EXTENDS OrderRefunds, TLC, Functions

CONSTANTS o1, o2, i1, i2

\* One order of two items, of two cents and of one.
OneOrder  == [i \in {i1, i2} |-> o1]
TwoPrices == (i1 :> 2) @@ (i2 :> 1)

\* Two orders, of one item each.
TwoOrders == (i1 :> o1) @@ (i2 :> o2)

OneOwner  == [o \in Orders |-> CHOOSE c \in Customers : TRUE]

Symmetry == Permutations(Staff) \cup Permutations(Requests) \cup Permutations(Refunds)

\* Sum is the sum the community modules' fold computes.
ASSUME SumIsFold ==
    \A S \in SUBSET (1..3) : \A f \in [1..3 -> 0..3] : Sum(S, f) = FoldFunctionOnSet(LAMBDA x, y : x + y, 0, f, S)

=============================================================================
