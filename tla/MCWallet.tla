------------------------------ MODULE MCWallet ------------------------------
(* Instances of Wallet for TLC: alice was invited by bob.                   *)
EXTENDS Wallet, TLC

CONSTANTS alice, bob

MCReferrer == [u \in Users |-> IF u = alice THEN bob ELSE NoOne]

\* only alice tops up; bob needs room for a reward
MCMaxQuota == [u \in Users |-> IF u = alice THEN 2 ELSE 1]
MCMaxTopped == [u \in Users |-> IF u = alice THEN 2 ELSE 0]

\* nothing tells the rows of subscriptions apart
MCSymmetry == Permutations(Plans)

\* one balance of each kind an admin may type
MCSettings == {-1, 1}
=============================================================================
