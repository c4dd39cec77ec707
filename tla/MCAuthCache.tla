---------------------------- MODULE MCAuthCache ----------------------------
(* Two accounts and a sub-key that either may create.                     *)
EXTENDS AuthCache, TLC
CONSTANTS u1, u2, k1, r1, r2

Symmetry == Permutations(Users) \cup Permutations(SubKeys) \cup Permutations(Requests)
=============================================================================
