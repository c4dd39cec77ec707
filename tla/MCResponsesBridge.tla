------------------------- MODULE MCResponsesBridge --------------------------
(* Instances of ResponsesBridge for TLC: sessions s1, s2 of one user; only *)
(* the first has turns.                                                    *)
EXTENDS ResponsesBridge

CONSTANTS s1, s2, u1, m1, m2

MCOwner == [s \in Sessions |-> u1]
MCMaxTurns == [s \in Sessions |-> IF s = s1 THEN 2 ELSE 0]
=============================================================================
