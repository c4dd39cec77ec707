---------------------------- MODULE MCUsageSync -----------------------------
(* Instances of UsageSync for TLC: turns t1, t2; the cron's sync c and an   *)
(* admin's, m.                                                              *)
EXTENDS UsageSync, TLC

CONSTANTS t1, t2, c, m, a1

\* t2 uses five tokens; t1 as many, none, or has another key
MCUses == {[t \in Turns |-> IF t = t1 THEN n ELSE 5] : n \in {0, 5, Other}}

\* both in one process, or each in its own
MCPlacements == {[s \in Syncs |-> 1], c :> 1 @@ m :> 2}
=============================================================================
