------------------------- MODULE MCCustomerResources -------------------------
(* Three browser sessions and up to three addresses.                       *)
EXTENDS CustomerResources, TLC

CONSTANTS s1, s2, s3, home

Symmetry == Permutations(Sessions)

=============================================================================
