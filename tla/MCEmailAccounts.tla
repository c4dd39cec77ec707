-------------------------- MODULE MCEmailAccounts --------------------------
(* Two accounts of a provider and one that may sign up.                    *)
EXTENDS EmailAccounts, TLC
CONSTANTS u1, u2, u3, e1, e2, t1, t2, t3, s1, s2, r1, r2

Symmetry == Permutations(Linked) \cup Permutations(Emails) \cup Permutations(Tokens) \cup Permutations(Sessions) \cup Permutations(Requests)
=============================================================================
