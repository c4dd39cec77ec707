------------------------------- MODULE Topup --------------------------------
(***************************************************************************)
(* The life of a top-up order: checkout (CreateTopup), the gateway's       *)
(* callbacks (ProcessPaymentWebhook, one handler per delivery, cut at its  *)
(* database steps), the admin's manual confirmation and refunds            *)
(* (AdminMarkTopupPaid, AdminRefundTopup) and the expiry sweep             *)
(* (expireStaleTopupOrders).                                               *)
(*                                                                         *)
(* Each database transaction is one step: SQLite has one writer at a time, *)
(* and on PostgreSQL each transaction serialises on the row it updates.    *)
(* Between two steps of a handler anything may happen: another delivery of *)
(* the same payment, an admin, the sweep, a database error, a crash of the *)
(* process (the rows survive, the handlers do not).                        *)
(*                                                                         *)
(* The gateway is external and modelled by how the code uses it: it sends  *)
(* a signed event about an order, and sends it again until it is answered  *)
(* "success".  A forged event never passes ParseAndVerifyWebhook and is    *)
(* left out, and so is a genuine one posted to another provider's route.   *)
(***************************************************************************)
EXTENDS TopupMoney, FiniteSetsExt

CONSTANTS
  Orders,       \* orders that may be placed
  Money,        \* [Orders -> fen]        TopupOrder.MoneyRMB
  Amount,       \* [Orders -> micro_usd]  TopupOrder.AmountUSD
  Stamps,       \* timestamps a yifut event can be signed with
  Refs,         \* external references an admin can type in
  Workers,      \* webhook deliveries handled at the same time
  MaxFaults,    \* bound: database errors met
  MaxCrashes    \* bound: crashes of the process

ASSUME TopupAssumption ==
  /\ Money \in [Orders -> Nat \ {0}]    \* AmountFen =< 0 is refused
  /\ Amount \in [Orders -> Nat \ {0}]   \* usdMicroFromFenAndRate refuses 0
  /\ MaxFaults \in Nat
  /\ MaxCrashes \in Nat

VARIABLES
  \* rows of the database
  status,       \* [Orders -> status], "none" before the row exists
  credits,      \* [Orders -> how many topup entries credited the user]
  refunded,     \* [Orders -> fen]  refunded_amount_rmb
  reclaimed,    \* [Orders -> micro_usd]  running total over topup_refunds
  refunds,      \* rows of topup_refunds
  provider,     \* [Orders -> provider], locked at checkout
  receipts,     \* nonces of accepted payment_webhook_receipts
  manualRefs,   \* accepted_manual receipts
  \* the checkout handler of each order
  checkout,
  \* the gateway
  payment,      \* [Orders -> "none" | "exact" | "off"]: what the payer paid
  acked,        \* [Orders -> the gateway saw "success" for the payment]
  \* the webhook handlers
  handler,      \* [Workers -> Idle, or the step and the event it is at]
  \* how much went wrong so far
  faults, crashes

orderVars == <<status, credits, refunded, reclaimed, refunds, provider>>
receiptVars == <<receipts, manualRefs>>
gatewayVars == <<payment, acked>>
troubleVars == <<faults, crashes>>
vars == <<orderVars, receiptVars, checkout, gatewayVars, handler, troubleVars>>

Statuses == {"none", "created", "paid", "failed", "canceled", "refunded"}
Providers == {"yifut", "epusdt"}
CheckoutSteps == {"none", "calling", "accepted", "failing", "shown", "closed"}
Kinds == {"paid", "non_terminal", "failed"}

Events == [order : Orders, kind : Kinds, stamp : Stamps]

Idle == [step |-> "idle"]
Handling == [step : {"verified", "recorded", "matched"}, event : Events]

\* mutant: one nonce per order, whatever was signed
NonceOfOrder(e) == [order |-> e.order, key |-> <<"trade_id">>]

(***************************************************************************)
(* PaymentWebhookEvent.Nonce: yifut joins out_trade_no with the signature, *)
(* which covers the event's status and timestamp; epusdt joins order_id    *)
(* with trade_id, whatever the event says.                                 *)
(***************************************************************************)
Nonce(e) ==
  [order |-> e.order,
   key   |-> IF provider[e.order] = "yifut" THEN <<e.kind, e.stamp>>
                                            ELSE <<"trade_id">>]

Nonces == [order : Orders, key : (Kinds \X Stamps) \cup {<<"trade_id">>}]
RefundRows == [order : Orders, ref : Refs, fen : Nat, micro : Int,
               reclaim : BOOLEAN]
ManualRefs == [order : Orders, ref : Refs]

\* the handler has stored the nonce and has not yet answered
Crediting(w, o) ==
  handler[w].step \in {"recorded", "matched"} /\ handler[w].event.order = o

-----------------------------------------------------------------------------
Init ==
  /\ status = [o \in Orders |-> "none"]
  /\ credits = [o \in Orders |-> 0]
  /\ refunded = [o \in Orders |-> 0]
  /\ reclaimed = [o \in Orders |-> 0]
  /\ refunds = {}
  /\ provider \in [Orders -> Providers]
  /\ receipts = {}
  /\ manualRefs = {}
  /\ checkout = [o \in Orders |-> "none"]
  /\ payment = [o \in Orders |-> "none"]
  /\ acked = [o \in Orders |-> FALSE]
  /\ handler = [w \in Workers |-> Idle]
  /\ faults = 0
  /\ crashes = 0

-----------------------------------------------------------------------------
(***************************************************************************)
(* Checkout.  The row is committed before the provider is asked, so a      *)
(* callback always finds it.  The writes of "failed" are unconditional:    *)
(* they go through the row the handler read, without "status = created".   *)
(***************************************************************************)
CheckoutStep(o, from, to) ==
  checkout[o] = from /\ checkout' = [checkout EXCEPT ![o] = to]

PlaceOrder(o) ==
  /\ CheckoutStep(o, "none", "calling")
  /\ status' = [status EXCEPT ![o] = "created"]
  /\ UNCHANGED <<credits, refunded, reclaimed, refunds, provider, receiptVars,
                 gatewayVars, handler, troubleVars>>

\* provider.CreateOrder answers; an error (or its 12 s timeout) fails the order
ProviderAccepts(o) ==
  /\ CheckoutStep(o, "calling", "accepted")
  /\ UNCHANGED <<orderVars, receiptVars, gatewayVars, handler, troubleVars>>

ProviderRejects(o) ==
  /\ CheckoutStep(o, "calling", "failing")
  /\ UNCHANGED <<orderVars, receiptVars, gatewayVars, handler, troubleVars>>

\* trade_no and pay_info are stored: the payer can see how to pay
PersistPayInfo(o) ==
  /\ CheckoutStep(o, "accepted", "shown")
  /\ UNCHANGED <<orderVars, receiptVars, gatewayVars, handler, troubleVars>>

PersistFault(o) ==
  /\ faults < MaxFaults
  /\ faults' = faults + 1
  /\ CheckoutStep(o, "accepted", "failing")
  /\ UNCHANGED <<orderVars, receiptVars, gatewayVars, handler, crashes>>

MarkFailed(o) ==
  /\ CheckoutStep(o, "failing", "closed")
  /\ status' = [status EXCEPT ![o] = "failed"]
  /\ UNCHANGED <<credits, refunded, reclaimed, refunds, provider, receiptVars,
                 gatewayVars, handler, troubleVars>>

\* the update that marks the order failed fails too: it is only logged
MarkFailedFault(o) ==
  /\ faults < MaxFaults
  /\ faults' = faults + 1
  /\ CheckoutStep(o, "failing", "closed")
  /\ UNCHANGED <<orderVars, receiptVars, gatewayVars, handler, crashes>>

\* mutant: the sweep skips an order that has no pay_info
ExpirableIfShown(o) == status[o] = "created" /\ checkout[o] = "shown"

(***************************************************************************)
(* The expiry sweep.  Its TTL is at least 5 minutes and a checkout lasts   *)
(* seconds (12 s of gateway call), so an order in checkout is never stale. *)
(***************************************************************************)
Expirable(o) ==
  /\ status[o] = "created"
  /\ checkout[o] \in {"shown", "closed"}

\* one UPDATE for all the orders that are older than the cutoff
ExpireStale ==
  /\ \E stale \in SUBSET {o \in Orders : Expirable(o)} :
       /\ stale # {}
       /\ status' = [o \in Orders |-> IF o \in stale THEN "canceled"
                                                     ELSE status[o]]
  /\ UNCHANGED <<credits, refunded, reclaimed, refunds, provider, receiptVars,
                 checkout, gatewayVars, handler, troubleVars>>

-----------------------------------------------------------------------------
(***************************************************************************)
(* The payer and the gateway (external).  "off" stands for a payment whose *)
(* reported amount is not exactly the order's (a rounding of the sidecar). *)
(***************************************************************************)
Pay(o, paid) ==
  /\ checkout[o] = "shown"
  /\ payment[o] = "none"
  /\ payment' = [payment EXCEPT ![o] = paid]
  /\ UNCHANGED <<orderVars, receiptVars, checkout, acked, handler,
                 troubleVars>>

CanSend(e) ==
  /\ checkout[e.order] = "shown"
  /\ e.kind = "paid" => payment[e.order] # "none"
  /\ e.kind = "failed" => /\ payment[e.order] = "none"
                          /\ provider[e.order] = "epusdt"

\* a signed event, first copy or repetition, passes ParseAndVerifyWebhook
Deliver(w, e) ==
  /\ handler[w] = Idle
  /\ CanSend(e)
  /\ handler' = [handler EXCEPT ![w] = [step |-> "verified", event |-> e]]
  /\ UNCHANGED <<orderVars, receiptVars, checkout, gatewayVars, troubleVars>>

-----------------------------------------------------------------------------
(***************************************************************************)
(* The webhook handler.  Success is the answer "success" that stops the    *)
(* gateway; every other answer makes it send the event again.              *)
(***************************************************************************)
Answer(w) == handler' = [handler EXCEPT ![w] = Idle]

Proceed(w, step) == handler' = [handler EXCEPT ![w].step = step]

Success(w) ==
  /\ Answer(w)
  /\ acked' = IF handler[w].event.kind = "paid"
                THEN [acked EXCEPT ![handler[w].event.order] = TRUE]
                ELSE acked

\* recordWebhookReceiptForEvent finds the nonce: acknowledged and dropped
DropDuplicate(w) ==
  /\ handler[w].step = "verified"
  /\ Nonce(handler[w].event) \in receipts
  /\ Success(w)
  /\ UNCHANGED <<orderVars, receiptVars, checkout, payment, troubleVars>>

\* the receipt is committed on its own; an event that is not Paid ends here
RecordReceipt(w) ==
  /\ handler[w].step = "verified"
  /\ Nonce(handler[w].event) \notin receipts
  /\ receipts' = receipts \cup {Nonce(handler[w].event)}
  /\ IF handler[w].event.kind = "paid"
       THEN Proceed(w, "recorded") /\ UNCHANGED acked
       ELSE Success(w)
  /\ UNCHANGED <<orderVars, manualRefs, checkout, payment, troubleVars>>

\* the order is read and validateWebhookAmount compares the amounts
MatchOrder(w) ==
  /\ handler[w].step = "recorded"
  /\ IF payment[handler[w].event.order] = "exact"
       THEN Proceed(w, "matched")
       ELSE Answer(w)                                  \* 400 money_mismatch
  /\ UNCHANGED <<orderVars, receiptVars, checkout, gatewayVars, troubleVars>>

CreditOrder(o) ==
  /\ status' = [status EXCEPT ![o] = "paid"]
  /\ credits' = [credits EXCEPT ![o] = @ + 1]
  /\ UNCHANGED <<refunded, reclaimed, refunds, provider>>

\* mutant: the update does not ask for "status = created"
FinalizeUnguarded(w) ==
  /\ handler[w].step = "matched"
  /\ CreditOrder(handler[w].event.order)
  /\ Success(w)
  /\ UNCHANGED <<receiptVars, checkout, payment, troubleVars>>

\* finalizePaidTopupTransaction: created -> paid, quota, billing entry
Finalize(w) ==
  /\ handler[w].step = "matched"
  /\ status[handler[w].event.order] = "created"
  /\ CreditOrder(handler[w].event.order)
  /\ Success(w)
  /\ UNCHANGED <<receiptVars, checkout, payment, troubleVars>>

\* the conditional UPDATE hits no row: errTopupDuplicate, acknowledged
FinalizeDuplicate(w) ==
  /\ handler[w].step = "matched"
  /\ status[handler[w].event.order] # "created"
  /\ Success(w)
  /\ UNCHANGED <<orderVars, receiptVars, checkout, payment, troubleVars>>

\* mutant: a database error is acknowledged
WebhookFaultAcked(w) ==
  /\ handler[w] # Idle
  /\ faults < MaxFaults
  /\ faults' = faults + 1
  /\ Success(w)
  /\ UNCHANGED <<orderVars, receiptVars, checkout, payment, crashes>>

\* receipt_failed, order_not_found_retry, tx_failed: the statement or the
\* transaction has no effect and the gateway is asked to retry
WebhookFault(w) ==
  /\ handler[w] # Idle
  /\ faults < MaxFaults
  /\ faults' = faults + 1
  /\ Answer(w)
  /\ UNCHANGED <<orderVars, receiptVars, checkout, gatewayVars, crashes>>

\* the process stops: handlers vanish, an order in checkout stays as it is
Crash ==
  /\ crashes < MaxCrashes
  /\ crashes' = crashes + 1
  /\ handler' = [w \in Workers |-> Idle]
  /\ checkout' = [o \in Orders |->
                    IF checkout[o] \in {"calling", "accepted", "failing"}
                      THEN "closed" ELSE checkout[o]]
  /\ UNCHANGED <<orderVars, receiptVars, gatewayVars, faults>>

-----------------------------------------------------------------------------
(***************************************************************************)
(* The admin.  Both transactions lock the user and re-read the order, so   *)
(* the checks made before them change nothing.                             *)
(***************************************************************************)
AdminMarkTopupPaid(o, ref) ==
  /\ status[o] = "created"                              \* else raced
  /\ \A m \in manualRefs : m.ref # ref                  \* else duplicate
  /\ manualRefs' = manualRefs \cup {[order |-> o, ref |-> ref]}
  /\ CreditOrder(o)
  /\ UNCHANGED <<receipts, checkout, gatewayVars, handler, troubleVars>>

\* what a refund of fen takes back: the difference of two prorated totals
RefundMicro(o, fen) ==
  Prorated(Amount[o], Money[o], refunded[o] + fen)
    - Prorated(Amount[o], Money[o], refunded[o])

\* mutant: an order that was never paid can be refunded
RefundableUnpaid(o, fen, ref) ==
  /\ status[o] \in {"created", "paid"}
  /\ \A row \in refunds : row.ref # ref
  /\ refunded[o] + fen =< Money[o]

Refundable(o, fen, ref) ==
  /\ status[o] = "paid"
  /\ \A row \in refunds : row.ref # ref                 \* else duplicate
  /\ refunded[o] + fen =< Money[o]                      \* else invalid
  /\ RefundMicro(o, fen) >= 0

\* mutant: the row holds the running total
RefundRowOfTotal(o, fen, ref, reclaim) ==
  [order |-> o, ref |-> ref, fen |-> fen,
   micro |-> Prorated(Amount[o], Money[o], refunded[o] + fen),
   reclaim |-> reclaim]

\* the TopupRefund row
RefundRow(o, fen, ref, reclaim) ==
  [order |-> o, ref |-> ref, fen |-> fen, micro |-> RefundMicro(o, fen),
   reclaim |-> reclaim]

AdminRefundTopup(o, fen, ref, reclaim) ==
  /\ Refundable(o, fen, ref)
  /\ refunded' = [refunded EXCEPT ![o] = @ + fen]
  /\ status' = [status EXCEPT ![o] = IF refunded[o] + fen = Money[o]
                                       THEN "refunded" ELSE "paid"]
  /\ reclaimed' = [reclaimed EXCEPT ![o] = @ + RefundMicro(o, fen)]
  /\ refunds' = refunds \cup {RefundRow(o, fen, ref, reclaim)}
  /\ UNCHANGED <<credits, provider, receiptVars, checkout, gatewayVars, handler,
                 troubleVars>>

-----------------------------------------------------------------------------
Checkout(o) ==
  \/ ProviderAccepts(o) \/ ProviderRejects(o)
  \/ PersistPayInfo(o) \/ PersistFault(o)
  \/ MarkFailed(o) \/ MarkFailedFault(o)

Webhook(w) ==
  \/ DropDuplicate(w) \/ RecordReceipt(w) \/ MatchOrder(w)
  \/ Finalize(w) \/ FinalizeDuplicate(w) \/ WebhookFault(w)

Admin(o) ==
  \E ref \in Refs :
    \/ AdminMarkTopupPaid(o, ref)
    \/ \E fen \in 1..Money[o], reclaim \in BOOLEAN :
         AdminRefundTopup(o, fen, ref, reclaim)

Next ==
  \/ \E o \in Orders : \/ PlaceOrder(o) \/ Checkout(o) \/ Admin(o)
                       \/ \E paid \in {"exact", "off"} : Pay(o, paid)
  \/ \E w \in Workers : Webhook(w) \/ \E e \in Events : Deliver(w, e)
  \/ ExpireStale
  \/ Crash

(***************************************************************************)
(* Fairness.  A handler that runs comes to its end (its provider call has  *)
(* a 12 s timeout).  The gateway sends an unacknowledged payment again,    *)
(* and a delivery is not starved: the server starts a handler per request, *)
(* Workers only bounds how many run at once.  The sweep runs on every tick *)
(* of the cron and takes every stale order.                                *)
(***************************************************************************)
ExpireOrder(o) == ExpireStale /\ status'[o] # status[o]

Redeliver(o) ==
  /\ ~acked[o]
  /\ \E w \in Workers, e \in Events :
       e.order = o /\ e.kind = "paid" /\ Deliver(w, e)

HandlerFairness ==
  /\ \A o \in Orders : WF_vars(Checkout(o)) /\ SF_vars(Redeliver(o))
  /\ \A w \in Workers : WF_vars(Webhook(w))

SweepFairness == \A o \in Orders : WF_vars(ExpireOrder(o))

Safety == Init /\ [][Next]_vars

\* the sweep may never run: SweepFairness is a hypothesis where it is needed
Spec == Safety /\ HandlerFairness

-----------------------------------------------------------------------------
(***************************************************************************)
(* What should hold.                                                       *)
(***************************************************************************)
TypeOK ==
  /\ status \in [Orders -> Statuses]
  /\ provider \in [Orders -> Providers]
  /\ credits \in [Orders -> Nat]
  /\ refunded \in [Orders -> Nat]
  /\ reclaimed \in [Orders -> Int]
  /\ refunds \subseteq RefundRows
  /\ receipts \subseteq Nonces
  /\ manualRefs \subseteq ManualRefs
  /\ checkout \in [Orders -> CheckoutSteps]
  /\ payment \in [Orders -> {"none", "exact", "off"}]
  /\ acked \in [Orders -> BOOLEAN]
  /\ handler \in [Workers -> {Idle} \cup Handling]
  /\ faults \in 0..MaxFaults
  /\ crashes \in 0..MaxCrashes

\* An order's amount reaches the balance at most once, whatever deliveries,
\* crashes and manual confirmations do, and an order that reads paid or
\* refunded was credited (finalizePaidTopupTransaction, AdminMarkTopupPaid).
CreditedOnce ==
  \A o \in Orders :
    /\ credits[o] =< 1
    /\ status[o] \in {"paid", "refunded"} => credits[o] = 1

\* No credit without its evidence: a manual receipt of this order, or a
\* payment of exactly the order's amount whose nonce is recorded (the append-
\* only payment_webhook_receipts is what an admin audits a credit with).
CreditHasEvidence ==
  \A o \in Orders : credits[o] > 0 =>
    \/ \E m \in manualRefs : m.order = o
    \/ payment[o] = "exact" /\ \E n \in receipts : n.order = o

RowsOf(o) == {row \in refunds : row.order = o}

\* RefundedAmountRMB, and the micro_usd taken back so far, are the sums of
\* the order's refund rows: no refund is registered twice or half-way
\* (AdminRefundTopup writes the order and its TopupRefund in one transaction).
RefundRowsSum ==
  \A o \in Orders :
    LET fenOf(row) == row.fen
        microOf(row) == row.micro
    IN /\ MapThenSumSet(fenOf, RowsOf(o)) = refunded[o]
       /\ MapThenSumSet(microOf, RowsOf(o)) = reclaimed[o]

\* However a payment is split into refunds, they never exceed it, and what
\* they take back in total is the prorated share of the credited amount: all
\* of it, to the micro, once the order is refunded (proratedTopupRefundMicro
\* is applied to totals, never to one refund).
RefundShareExact ==
  \A o \in Orders :
    /\ refunded[o] =< Money[o]
    /\ reclaimed[o] = Prorated(Amount[o], Money[o], refunded[o])
    /\ status[o] = "refunded" => reclaimed[o] = Amount[o]

Settled(o) ==
  \/ credits[o] = 1
  \/ status[o] \in {"canceled", "failed"}
  \/ \E w \in Workers : Crediting(w, o)

AckedIsSettled(o) ==
  (acked[o] /\ payment[o] = "exact" /\ faults = 0 /\ crashes = 0)
    => Settled(o)

\* Without a database error or a crash, a yifut payment that was answered
\* "success" is credited, being credited, or belongs to an order that had
\* been closed: no interleaving of deliveries loses it.
YifutAckIsSettled ==
  \A o \in Orders : provider[o] = "yifut" => AckedIsSettled(o)

\* A closed order is never credited afterwards, and an order never becomes
\* pending again: a late callback or confirmation meets "status = created".
ClosedStaysClosed ==
  [][\A o \in Orders :
       /\ status[o] \in {"failed", "canceled", "refunded"} =>
            credits'[o] = credits[o] /\ refunded'[o] = refunded[o]
       /\ status[o] # "none" =>
            status'[o] # "none" /\ (status'[o] = "created" =>
                                      status[o] = "created")]_vars

\* While the cron keeps running, the expiry sweep leaves no order pending for
\* ever, not even one whose checkout died half-way.
OrderLeavesCreated ==
  SweepFairness =>
    \A o \in Orders : status[o] = "created" ~> status[o] # "created"

\* The nonce of o is recorded, nobody handles it, and o is still pending.
Burned(o) ==
  /\ status[o] = "created"
  /\ \E n \in receipts : n.order = o
  /\ \A w \in Workers : ~Crediting(w, o)

\* A payment of the right amount is credited by the callbacks alone, even when
\* the sweep never comes, unless its order was closed first, or its nonce was
\* recorded and then lost: by an error or a crash, or, with epusdt, because an
\* earlier event of the payment had the same nonce.
PaymentSettles ==
  \A o \in Orders : payment[o] = "exact" ~>
    \/ credits[o] = 1
    \/ status[o] \in {"canceled", "failed"}
    \/ Burned(o) /\ (faults + crashes > 0 \/ provider[o] = "epusdt")

\* The subsystem keeps the promise of TopupLedger.
Ledger == INSTANCE TopupLedger
            WITH credited <- {o \in Orders : credits[o] > 0}
KeepsLedger == Ledger!Spec

-----------------------------------------------------------------------------
(***************************************************************************)
(* The inductive invariant behind the safety properties.                   *)
(***************************************************************************)
OrderInv ==
  \A o \in Orders :
    /\ status[o] \in {"none", "created"} => credits[o] = 0
    /\ checkout[o] = "none" <=> status[o] = "none"
    /\ payment[o] # "none" => checkout[o] = "shown"
    /\ refunded[o] > 0 => credits[o] = 1
    /\ status[o] = "refunded" => refunded[o] = Money[o]

\* what a handler has established when it reaches a step
HandlerOK(w) ==
  handler[w] # Idle =>
    LET e == handler[w].event
    IN /\ e.kind = "paid" => payment[e.order] # "none"
       /\ handler[w].step \in {"recorded", "matched"} =>
            e.kind = "paid" /\ Nonce(e) \in receipts
       /\ handler[w].step = "matched" => payment[e.order] = "exact"

HandlerInv == \A w \in Workers : HandlerOK(w)

PaidNonce(o) == \E stamp \in Stamps :
                  [order |-> o, key |-> <<"paid", stamp>>] \in receipts

\* a recorded yifut payment is in hand, and only recorded ones are acked
ReceiptInv ==
  \A o \in Orders : provider[o] = "yifut" =>
    /\ acked[o] => PaidNonce(o)
    /\ PaidNonce(o) => payment[o] # "none"
    /\ (PaidNonce(o) /\ payment[o] = "exact" /\ faults = 0 /\ crashes = 0)
         => Settled(o)

IInv ==
  /\ TypeOK
  /\ CreditedOnce
  /\ CreditHasEvidence
  /\ RefundShareExact
  /\ OrderInv
  /\ HandlerInv
  /\ ReceiptInv

-----------------------------------------------------------------------------
(***************************************************************************)
(* What the source says and the code does not do (see README, findings).   *)
(***************************************************************************)

\* payment_webhook.go: "DB errors: 500 (let the gateway retry)", and a retry
\* is safe: so a yifut payment that is finally answered "success" while its
\* order is pending has been credited, or a handler is still working on it.
RetryCredits ==
  \A o \in Orders : provider[o] = "yifut" /\ acked[o] /\ payment[o] = "exact" =>
    ~(status[o] = "created" /\ \A w \in Workers : ~Crediting(w, o))
=============================================================================
