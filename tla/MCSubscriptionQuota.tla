-------------------------- MODULE MCSubscriptionQuota --------------------------
(* Two subscriptions that share the plan "day"; the second also has "model", *)
(* which goes on into debt, and its snapshot of "day" allows more.           *)
EXTENDS SubscriptionQuota, TLC

CONSTANTS t1, t2

MCPlansOf == (1 :> {"day"}) @@ (2 :> {"day", "model"})
MCRank == [p \in Plans |-> IF p = "day" THEN 2 ELSE 1]
MCLimit == [s \in Subs |-> [p \in Plans |-> IF p = "day" THEN s ELSE 1]]
MCStrategy == [s \in Subs |-> [p \in Plans |->
    IF p = "model" THEN "overdraft" ELSE IF s = 1 THEN "next_subscription" ELSE "block"]]
MCUse == [t \in Turns |-> [p \in Plans |-> IF t = t1 THEN 2 ELSE 1]]
MCEstimate == [t \in Turns |-> [p \in Plans |-> 1]]
=============================================================================
