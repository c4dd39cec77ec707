------------------------------ MODULE MCTopup -------------------------------
(* Instances of Topup for TLC: one order, of either provider.              *)
EXTENDS Topup

\* 2 fen for 3 micro_usd: no partial share is a whole number
MCMoney == [o \in Orders |-> 2]
MCAmount == [o \in Orders |-> 3]
=============================================================================
