------------------------------ MODULE MCStore ------------------------------
(* At the start a package, a quota plan and a coupon template may be on sale. *)
EXTENDS Store, TLC
CONSTANTS u1, u2, p1, p2, q1, t1, c1, c2, s1, s2, s3, r1, r2, r3

O(on, public, floor, limit) == [on |-> on, public |-> public, price |-> 2, floor |-> floor, limit |-> limit]
MCStock == {O(TRUE, TRUE, 1, 1)}
MCOffers == {O(TRUE, TRUE, 2, 0), O(FALSE, FALSE, 0, 1)}
MCTemplates == {[on |-> TRUE, value |-> 1, scope |-> {}]}
MCStockPlans == {[on |-> TRUE, unit |-> "tokens", value |-> 1, micro |-> 0]}
MCQuotas == {[on |-> TRUE, unit |-> "usd", value |-> 0]}
Only(field, x) == [[on |-> None, unit |-> None, value |-> None] EXCEPT ![field] = x]
MCChanges == {Only("unit", "usd"), Only("value", 1), Only("on", FALSE)}
Symmetry == Permutations(Users) \cup Permutations(Coupons) \cup Permutations(Subs) \cup Permutations(Requests)
=============================================================================
