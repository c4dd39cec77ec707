--------------------------- MODULE MCBillingRules ---------------------------
(* Admins, syncs and pages are interchangeable, but the runs check liveness, *)
(* so no symmetry is used.                                                   *)
EXTENDS BillingRules
CONSTANTS a1, a2, y1, y2, g1
=============================================================================
