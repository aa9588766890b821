---------------------------- MODULE MCStaffAccounts ----------------------------
(* Three accounts and two browser sessions.                                *)
EXTENDS StaffAccounts, TLC

CONSTANTS u1, u2, u3, s1, s2

Symmetry == Permutations(Users) \cup Permutations(Sessions)

=============================================================================
