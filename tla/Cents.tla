------------------------------- MODULE Cents -------------------------------
(***************************************************************************)
(* Sums of money, as PostgreSQL's SUM(amount) over a set of rows: an       *)
(* amount is a whole number of cents, and a sum counts the cents of every  *)
(* row.  The definition by Cardinality, instead of a fold, is one that the *)
(* finite-set theorems reason about; MCOrderRefunds checks that it agrees  *)
(* with the community modules' fold.                                       *)
(***************************************************************************)
EXTENDS Naturals, FiniteSets

\* The cents of the rows S, where amount[x] is the number of cents of row x.
CentsOf(S, amount) == UNION {{x} \X (1..amount[x]) : x \in S}

Sum(S, amount) == Cardinality(CentsOf(S, amount))

=============================================================================
