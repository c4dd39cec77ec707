---------------------------- MODULE TopupLedger -----------------------------
(***************************************************************************)
(* What the top-up subsystem promises of each order, whatever the gateway, *)
(* the admins and the crashes do: its amount is added to the user's        *)
(* balance at most once; only a credited order is refunded; the fen        *)
(* refunded never exceed the fen paid, and the micro_usd they stand for is *)
(* the prorated share of the amount that was credited.                     *)
(*                                                                         *)
(* Sources of the promise: the comments of finalizePaidTopupTransaction    *)
(* and AdminMarkTopupPaid (a created -> paid transition happens at most    *)
(* once) and of AdminRefundTopup (refunds add up to the locked amount).    *)
(* Topup implements it.                                                    *)
(***************************************************************************)
EXTENDS TopupMoney

CONSTANTS
  Orders,   \* top-up orders (out_trade_no)
  Money,    \* [Orders -> fen paid]           TopupOrder.MoneyRMB
  Amount    \* [Orders -> micro_usd credited] TopupOrder.AmountUSD

VARIABLES
  credited,   \* the orders whose amount is in the user's balance
  refunded,   \* [Orders -> fen refunded so far]
  reclaimed   \* [Orders -> micro_usd those fen stand for]

vars == <<credited, refunded, reclaimed>>

Init ==
  /\ credited = {}
  /\ refunded = [o \in Orders |-> 0]
  /\ reclaimed = [o \in Orders |-> 0]

Credit(o) ==
  /\ o \notin credited
  /\ credited' = credited \cup {o}
  /\ UNCHANGED <<refunded, reclaimed>>

Refund(o, fen) ==
  /\ o \in credited
  /\ refunded[o] + fen =< Money[o]
  /\ refunded' = [refunded EXCEPT ![o] = @ + fen]
  /\ reclaimed' = [reclaimed EXCEPT
                     ![o] = Prorated(Amount[o], Money[o], refunded[o] + fen)]
  /\ UNCHANGED credited

Next == \E o \in Orders :
          \/ Credit(o)
          \/ \E fen \in 1..Money[o] : Refund(o, fen)

Spec == Init /\ [][Next]_vars
=============================================================================
