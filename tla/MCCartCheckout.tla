---------------------------- MODULE MCCartCheckout ----------------------------
(* One product at two prices, one address, two browser sessions and an     *)
(* administrator.  Prices are only compared, never added up.               *)
EXTENDS CartCheckout, TLC

CONSTANTS s1, s2, p1, p2

Symmetry == Permutations({s1, s2}) \cup Permutations({p1, p2})

=============================================================================
