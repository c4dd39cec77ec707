-------------------------- MODULE MCOAuthAccounts --------------------------
(* Two accounts to open over identities of two providers, with one ticket   *)
(* that may be presented as two strings.                                    *)
EXTENDS OAuthAccounts, TLC
CONSTANTS u1, u2, x1, x2, p1, p2, f1, t1, s1, s2, r1, r2

ProviderOfBoth == x1 :> p1 @@ x2 :> p2
OneTicket == s1 :> t1 @@ s2 :> t1
Swap == x1 :> x2 @@ x2 :> x1 @@ p1 :> p2 @@ p2 :> p1
Symmetry == {Swap} \cup Permutations(Users) \cup Permutations(Strings) \cup Permutations(Requests)
=============================================================================
