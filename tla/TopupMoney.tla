----------------------------- MODULE TopupMoney -----------------------------
(***************************************************************************)
(* The integer arithmetic of a top-up (controller/topup_money.go).         *)
(*                                                                         *)
(* A user pays in fen (RMB * 100); the order locks, at checkout, the       *)
(* micro_usd the payment is worth; a refund of some fen takes back the     *)
(* share of that locked amount.  The code works with big.Int, so nothing   *)
(* here wraps.                                                             *)
(***************************************************************************)
EXTENDS Integers

(***************************************************************************)
(* proratedTopupRefundMicro: what must have been taken back, in total,     *)
(* once refundedFen of the moneyFen paid are refunded: the exact share,    *)
(* rounded half up, and the whole amount when all of it is refunded.       *)
(***************************************************************************)
Prorated(amountMicro, moneyFen, refundedFen) ==
  IF refundedFen = moneyFen
    THEN amountMicro
    ELSE (2 * amountMicro * refundedFen + moneyFen) \div (2 * moneyFen)

=============================================================================
