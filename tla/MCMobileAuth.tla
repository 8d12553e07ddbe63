---------------------------- MODULE MCMobileAuth ----------------------------
(* A bounded instance of MobileAuth: two accounts, three operations.       *)
EXTENDS MobileAuth, TLC

CONSTANTS a, b, o1, o2, o3, c1

Symmetry == Permutations({o1, o2, o3}) \cup Permutations({a, b})
=============================================================================
