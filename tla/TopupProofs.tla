---------------------------- MODULE TopupProofs -----------------------------
(***************************************************************************)
(* The safety properties of Topup, proved for every set of orders, of      *)
(* handlers and of references and every bound, from the inductive          *)
(* invariant IInv, with sums over the rows of refunds (BookInv), and the   *)
(* refinement of TopupLedger.                                              *)
(***************************************************************************)
EXTENDS Topup, FiniteSetTheorems, TLAPS

USE DEF orderVars, receiptVars, gatewayVars, troubleVars

-----------------------------------------------------------------------------
(* Arithmetic of the refund share.                                         *)

LEMMA ProratedAtZero ==
  ASSUME NEW A \in Nat, NEW M \in Nat \ {0}
  PROVE  Prorated(A, M, 0) = 0
<1>1. 0 # M
  OBVIOUS
<1>2. 2 * A * 0 + M = M
  OBVIOUS
<1>3. M \div (2 * M) = 0
  OBVIOUS
<1> QED
  BY <1>1, <1>2, <1>3 DEF Prorated

LEMMA ProratedType ==
  ASSUME NEW A \in Nat, NEW M \in Nat \ {0}, NEW f \in Nat
  PROVE  Prorated(A, M, f) \in Int
<1>1. 2 * A * f + M \in Int /\ 2 * M \in Nat \ {0}
  OBVIOUS
<1>2. (2 * A * f + M) \div (2 * M) \in Int
  BY <1>1
<1> QED
  BY <1>2 DEF Prorated

-----------------------------------------------------------------------------
(* Types.                                                                  *)

LEMMA NonceType ==
  ASSUME NEW e \in Events
  PROVE  Nonce(e) \in Nonces
  BY DEF Nonce, Nonces, Events

LEMMA InitType == Init => TypeOK
<1> SUFFICES ASSUME Init PROVE TypeOK
  OBVIOUS
<1> QED
  BY TopupAssumption DEF Init, TypeOK, Statuses, CheckoutSteps

LEMMA NextType == TypeOK /\ [Next]_vars => TypeOK'
<1> SUFFICES ASSUME TypeOK, [Next]_vars PROVE TypeOK'
  OBVIOUS
<1> USE DEF TypeOK
<1>1. ASSUME NEW o \in Orders, PlaceOrder(o) PROVE TypeOK'
  BY <1>1 DEF PlaceOrder, CheckoutStep, Statuses, CheckoutSteps
<1>2. ASSUME NEW o \in Orders, Checkout(o) PROVE TypeOK'
  BY <1>2, TopupAssumption
  DEF Checkout, ProviderAccepts, ProviderRejects, PersistPayInfo, PersistFault,
      MarkFailed, MarkFailedFault, CheckoutStep, Statuses, CheckoutSteps
<1>3. ASSUME NEW o \in Orders, NEW paid \in {"exact", "off"}, Pay(o, paid)
      PROVE  TypeOK'
  BY <1>3 DEF Pay
<1>4. ASSUME NEW o \in Orders, NEW ref \in Refs, AdminMarkTopupPaid(o, ref)
      PROVE  TypeOK'
  BY <1>4 DEF AdminMarkTopupPaid, CreditOrder, ManualRefs, Statuses
<1>5. ASSUME NEW o \in Orders, NEW ref \in Refs, NEW fen \in 1..Money[o],
             NEW reclaim \in BOOLEAN, AdminRefundTopup(o, fen, ref, reclaim)
      PROVE  TypeOK'
  <2>1. /\ Money[o] \in Nat \ {0} /\ Amount[o] \in Nat
        /\ refunded[o] \in Nat /\ refunded[o] + fen \in Nat
    BY TopupAssumption
  <2>2. RefundMicro(o, fen) \in Int
    BY <2>1, ProratedType DEF RefundMicro
  <2>3. RefundRow(o, fen, ref, reclaim) \in RefundRows
    BY <2>1, <2>2 DEF RefundRow, RefundRows
  <2>4. /\ refunded' \in [Orders -> Nat] /\ reclaimed' \in [Orders -> Int]
        /\ status' \in [Orders -> Statuses]
    BY <1>5, <2>1, <2>2 DEF AdminRefundTopup, Statuses
  <2> QED
    BY <1>5, <2>3, <2>4 DEF AdminRefundTopup
<1>6. ASSUME NEW w \in Workers, NEW e \in Events, Deliver(w, e) PROVE TypeOK'
  BY <1>6 DEF Deliver, Handling
<1>7. ASSUME NEW w \in Workers, Webhook(w) PROVE TypeOK'
  <2>1. handler[w].step # "idle" => handler[w] \in Handling
    BY DEF Idle
  <2>2. CASE DropDuplicate(w)
    BY <2>1, <2>2 DEF DropDuplicate, Success, Answer, Handling, Events
  <2>3. CASE RecordReceipt(w)
    <3>1. handler[w] \in Handling
      BY <2>1, <2>3 DEF RecordReceipt
    <3>2. Nonce(handler[w].event) \in Nonces
      BY <3>1, NonceType DEF Handling
    <3> QED
      BY <2>3, <3>1, <3>2
      DEF RecordReceipt, Proceed, Success, Answer, Handling, Events
  <2>4. CASE MatchOrder(w)
    BY <2>1, <2>4 DEF MatchOrder, Proceed, Answer, Handling
  <2>5. CASE Finalize(w)
    BY <2>1, <2>5
    DEF Finalize, CreditOrder, Success, Answer, Handling, Events, Statuses
  <2>6. CASE FinalizeDuplicate(w)
    BY <2>1, <2>6 DEF FinalizeDuplicate, Success, Answer, Handling, Events
  <2>7. CASE WebhookFault(w)
    BY <2>7, TopupAssumption DEF WebhookFault, Answer
  <2> QED
    BY <1>7, <2>2, <2>3, <2>4, <2>5, <2>6, <2>7 DEF Webhook
<1>8. CASE ExpireStale
  BY <1>8 DEF ExpireStale, Statuses
<1>9. CASE Crash
  BY <1>9, TopupAssumption DEF Crash, CheckoutSteps
<1>10. CASE UNCHANGED vars
  BY <1>10 DEF vars
<1> QED
  BY <1>1, <1>2, <1>3, <1>4, <1>5, <1>6, <1>7, <1>8, <1>9, <1>10
  DEF Next, Admin

-----------------------------------------------------------------------------
(* The inductive invariant.                                                *)

LEMMA InitInv == Init => IInv
<1> SUFFICES ASSUME Init PROVE IInv
  OBVIOUS
<1>1. TypeOK
  BY InitType
<1>2. \A o \in Orders : Prorated(Amount[o], Money[o], 0) = 0
  BY ProratedAtZero, TopupAssumption
<1>3. CreditedOnce /\ CreditHasEvidence /\ OrderInv
  BY TopupAssumption DEF Init, CreditedOnce, CreditHasEvidence, OrderInv
<1>4. RefundShareExact
  BY <1>2, TopupAssumption DEF Init, RefundShareExact
<1>5. HandlerInv
  BY DEF Init, HandlerInv, HandlerOK
<1>6. ReceiptInv
  BY DEF Init, ReceiptInv, PaidNonce
<1> QED
  BY <1>1, <1>3, <1>4, <1>5, <1>6 DEF IInv

\* A step that credits o writes a paid order that was pending.
LEMMA CreditStep ==
  ASSUME IInv, NEW o \in Orders, status[o] = "created", CreditOrder(o),
         UNCHANGED <<checkout, payment>>
  PROVE  /\ CreditedOnce' /\ RefundShareExact' /\ OrderInv'
         /\ credits'[o] = 1
         /\ \A p \in Orders \ {o} : credits'[p] = credits[p]
<1>1. credits[o] = 0
  BY DEF IInv, OrderInv
<1>2. credits' = [credits EXCEPT ![o] = 1] /\ status' = [status EXCEPT ![o] = "paid"]
  BY <1>1 DEF IInv, TypeOK, CreditOrder
<1> QED
  BY <1>1, <1>2
  DEF IInv, TypeOK, CreditOrder, CreditedOnce, RefundShareExact, OrderInv

\* Steps that touch neither the amounts, the receipts, the handlers nor the
\* gateway, and that at most move orders towards "failed" or "canceled".
LEMMA QuietStep ==
  ASSUME IInv, TypeOK',
         UNCHANGED <<credits, refunded, reclaimed, refunds, provider,
                     receiptVars, gatewayVars, handler>>,
         \A o \in Orders :
           /\ \/ status'[o] \in {status[o], "failed", "canceled"}
              \/ status[o] = "none" /\ status'[o] = "created"
           /\ checkout'[o] = "none" <=> status'[o] = "none"
           /\ checkout[o] = "shown" => checkout'[o] = "shown",
         faults' >= faults, crashes' >= crashes
  PROVE  IInv'
<1>1. CreditedOnce' /\ CreditHasEvidence'
  BY DEF IInv, CreditedOnce, CreditHasEvidence
<1>2. RefundShareExact' /\ OrderInv'
  BY DEF IInv, TypeOK, RefundShareExact, OrderInv
<1>3. HandlerInv'
  BY DEF IInv, HandlerInv, HandlerOK, Nonce
<1>4. ReceiptInv'
  <2>1. \A o \in Orders : Settled(o) => Settled(o)'
    BY DEF Settled, Crediting
  <2>2. faults \in Nat /\ crashes \in Nat /\ faults' \in Nat /\ crashes' \in Nat
    BY TopupAssumption DEF IInv, TypeOK
  <2>3. \A o \in Orders : PaidNonce(o)' = PaidNonce(o)
    BY DEF PaidNonce
  <2>4. faults' = 0 /\ crashes' = 0 => faults = 0 /\ crashes = 0
    BY <2>2
  <2> QED
    BY <2>1, <2>3, <2>4 DEF IInv, ReceiptInv
<1> QED
  BY <1>1, <1>2, <1>3, <1>4 DEF IInv

\* Steps of the gateway and the handlers that leave the orders alone.
LEMMA OrdersAlone ==
  ASSUME IInv, UNCHANGED <<orderVars, manualRefs, checkout>>,
         receipts \subseteq receipts',
         \A o \in Orders :
           /\ payment[o] = "exact" => payment'[o] = "exact"
           /\ payment'[o] # "none" => checkout[o] = "shown"
  PROVE  /\ CreditedOnce' /\ CreditHasEvidence'
         /\ RefundShareExact' /\ OrderInv'
  BY DEF IInv, CreditedOnce, CreditHasEvidence, RefundShareExact, OrderInv

LEMMA CheckoutInv ==
  ASSUME IInv, TypeOK', NEW o \in Orders, PlaceOrder(o) \/ Checkout(o)
  PROVE  IInv'
<1>1. CASE PlaceOrder(o)
  <2>1. \A p \in Orders :
           /\ \/ status'[p] = status[p]
              \/ status[p] = "none" /\ status'[p] = "created"
           /\ checkout'[p] = "none" <=> status'[p] = "none"
           /\ checkout[p] = "shown" => checkout'[p] = "shown"
    BY <1>1 DEF PlaceOrder, CheckoutStep, IInv, OrderInv, TypeOK
  <2> QED
    BY <1>1, <2>1, QuietStep DEF PlaceOrder, IInv, TypeOK
<1>2. CASE Checkout(o)
  <2>1. \A p \in Orders :
           /\ status'[p] \in {status[p], "failed"}
           /\ checkout'[p] = "none" <=> status'[p] = "none"
           /\ checkout[p] = "shown" => checkout'[p] = "shown"
    BY <1>2
    DEF Checkout, ProviderAccepts, ProviderRejects, PersistPayInfo,
        PersistFault, MarkFailed, MarkFailedFault, CheckoutStep, IInv, OrderInv,
        TypeOK
  <2>2. /\ UNCHANGED <<credits, refunded, reclaimed, refunds, provider,
                       receiptVars, gatewayVars, handler, crashes>>
        /\ faults' = faults \/ faults' = faults + 1
    BY <1>2
    DEF Checkout, ProviderAccepts, ProviderRejects, PersistPayInfo,
        PersistFault, MarkFailed, MarkFailedFault
  <2> QED
    BY <2>1, <2>2, QuietStep DEF IInv, TypeOK
<1> QED
  BY <1>1, <1>2

LEMMA PayInv ==
  ASSUME IInv, TypeOK', NEW o \in Orders, NEW paid \in {"exact", "off"},
         Pay(o, paid)
  PROVE  IInv'
<1>1. \A p \in Orders :
        /\ payment[p] # "none" => payment'[p] = payment[p]
        /\ payment'[p] # "none" => checkout[p] = "shown"
  BY DEF Pay, IInv, TypeOK, OrderInv
<1>2. CreditedOnce' /\ CreditHasEvidence' /\ RefundShareExact' /\ OrderInv'
  BY <1>1, OrdersAlone DEF Pay
<1>3. HandlerInv'
  <2> SUFFICES ASSUME NEW w \in Workers, handler[w] # Idle
               PROVE  HandlerOK(w)'
    BY DEF HandlerInv, HandlerOK, Pay
  <2>1. handler[w].event.order \in Orders
    BY DEF IInv, TypeOK, Handling, Events
  <2>2. payment'[o] = paid
    BY DEF Pay, IInv, TypeOK
  <2> QED
    BY <1>1, <2>1, <2>2 DEF IInv, HandlerInv, HandlerOK, Nonce, Pay
<1>4. ReceiptInv'
  <2>1. \A p \in Orders : /\ PaidNonce(p)' = PaidNonce(p)
                          /\ Settled(p)' = Settled(p)
    BY DEF PaidNonce, Settled, Crediting, Pay
  <2> QED
    BY <1>1, <2>1 DEF IInv, ReceiptInv, Pay
<1> QED
  BY <1>2, <1>3, <1>4 DEF IInv

LEMMA DeliverInv ==
  ASSUME IInv, TypeOK', NEW w \in Workers, NEW e \in Events, Deliver(w, e)
  PROVE  IInv'
<1>1. /\ handler[w] = Idle
      /\ handler' = [handler EXCEPT ![w] = [step |-> "verified", event |-> e]]
  BY DEF Deliver
<1>2. CreditedOnce' /\ CreditHasEvidence' /\ RefundShareExact' /\ OrderInv'
  BY OrdersAlone DEF Deliver, IInv, OrderInv
<1>3. HandlerInv'
  <2> SUFFICES ASSUME NEW v \in Workers PROVE HandlerOK(v)'
    BY DEF HandlerInv
  <2>1. CASE v = w
    <3>1. handler'[v] = [step |-> "verified", event |-> e]
      BY <1>1, <2>1 DEF IInv, TypeOK
    <3>2. e.kind = "paid" => payment'[e.order] # "none"
      BY DEF Deliver, CanSend
    <3> QED
      BY <3>1, <3>2 DEF HandlerOK
  <2>2. CASE v # w
    BY <1>1, <2>2 DEF IInv, TypeOK, HandlerInv, HandlerOK, Nonce, Deliver
  <2> QED
    BY <2>1, <2>2
<1>4. ReceiptInv'
  <2>1. \A o \in Orders : Settled(o) => Settled(o)'
    <3>1. \A v \in Workers, o \in Orders : Crediting(v, o) => Crediting(v, o)'
      BY <1>1 DEF IInv, TypeOK, Crediting, Idle
    <3> QED
      BY <3>1 DEF Settled, Deliver
  <2>2. \A o \in Orders : PaidNonce(o)' = PaidNonce(o)
    BY DEF PaidNonce, Deliver
  <2> QED
    BY <2>1, <2>2 DEF IInv, ReceiptInv, Deliver
<1> QED
  BY <1>2, <1>3, <1>4 DEF IInv

\* A handler that stops keeps what the others have established.
LEMMA AnswerKeepsHandlers ==
  ASSUME IInv, NEW w \in Workers, Answer(w), UNCHANGED <<payment, provider>>,
         receipts \subseteq receipts'
  PROVE  HandlerInv'
<1>1. \A v \in Workers : handler'[v] = IF v = w THEN Idle ELSE handler[v]
  BY DEF Answer, IInv, TypeOK
<1> QED
  BY <1>1 DEF IInv, HandlerInv, HandlerOK, Nonce

LEMMA ProceedKeepsHandlers ==
  ASSUME IInv, TypeOK', NEW w \in Workers, NEW step, Proceed(w, step),
         handler[w] # Idle, UNCHANGED <<payment, provider>>,
         receipts \subseteq receipts',
         step \in {"recorded", "matched"},
         handler[w].event.kind = "paid", Nonce(handler[w].event) \in receipts',
         step = "matched" => payment[handler[w].event.order] = "exact"
  PROVE  /\ HandlerInv'
         /\ handler'[w].step = step
         /\ handler'[w].event = handler[w].event
         /\ \A v \in Workers \ {w} : handler'[v] = handler[v]
<1>1. handler[w] \in Handling
  BY DEF IInv, TypeOK
<1>2. /\ handler'[w].step = step
      /\ handler'[w].event = handler[w].event
      /\ \A v \in Workers \ {w} : handler'[v] = handler[v]
  BY <1>1 DEF Proceed, IInv, TypeOK, Handling
<1> QED
  BY <1>2 DEF IInv, HandlerInv, HandlerOK, Nonce

\* A paid yifut event and the receipt it leaves.
LEMMA PaidReceipt ==
  ASSUME NEW e \in Events, e.kind = "paid", provider[e.order] = "yifut",
         Nonce(e) \in receipts
  PROVE  PaidNonce(e.order)
<1>1. Nonce(e) = [order |-> e.order, key |-> <<"paid", e.stamp>>]
  BY DEF Nonce
<1>2. e.stamp \in Stamps
  BY DEF Events
<1> QED
  BY <1>1, <1>2 DEF PaidNonce

LEMMA WebhookInv ==
  ASSUME IInv, TypeOK', NEW w \in Workers, Webhook(w), handler[w] # Idle,
         NEW e \in Events, e = handler[w].event,
         NEW o \in Orders, o = e.order
  PROVE  IInv'
<1>3. HandlerOK(w)
  BY DEF IInv, HandlerInv
<1>4. \A v \in Workers : Answer(w) =>
                            handler'[v] = IF v = w THEN Idle ELSE handler[v]
  BY DEF Answer, IInv, TypeOK
<1>5. Success(w) => \A p \in Orders :
                      acked'[p] = (acked[p] \/ (p = o /\ e.kind = "paid"))
  BY DEF Success, IInv, TypeOK
\* a handler that has not recorded a payment settles nothing
<1>6. ASSUME UNCHANGED orderVars, Answer(w), NEW p \in Orders, Settled(p),
             ~Crediting(w, p)
      PROVE  Settled(p)'
  BY <1>4, <1>6 DEF Settled, Crediting
<1>7. CASE DropDuplicate(w)
  <2>1. CreditedOnce' /\ CreditHasEvidence' /\ RefundShareExact' /\ OrderInv'
    BY <1>7, OrdersAlone DEF DropDuplicate, IInv, OrderInv
  <2>2. HandlerInv'
    BY <1>7, AnswerKeepsHandlers DEF DropDuplicate, Success
  <2>3. ReceiptInv'
    <3>1. \A p \in Orders : Settled(p) => Settled(p)'
      BY <1>7, <1>6 DEF DropDuplicate, Success, Crediting
    <3>2. \A p \in Orders : PaidNonce(p)' = PaidNonce(p)
      BY <1>7 DEF PaidNonce, DropDuplicate
    <3>3. provider[o] = "yifut" /\ e.kind = "paid" => PaidNonce(o)
      BY <1>7, PaidReceipt DEF DropDuplicate
    <3> QED
      BY <1>7, <1>5, <3>1, <3>2, <3>3
      DEF IInv, ReceiptInv, DropDuplicate
  <2> QED
    BY <2>1, <2>2, <2>3 DEF IInv
<1>8. CASE RecordReceipt(w)
  <2>1. CreditedOnce' /\ CreditHasEvidence' /\ RefundShareExact' /\ OrderInv'
    BY <1>8, OrdersAlone DEF RecordReceipt, IInv, OrderInv
  <2>2. CASE e.kind = "paid"
    <3>1. Proceed(w, "recorded") /\ UNCHANGED <<acked, payment>>
      BY <1>8, <2>2 DEF RecordReceipt
    <3>2. Nonce(e) \in receipts'
      BY <1>8 DEF RecordReceipt
    <3>3. /\ HandlerInv'
          /\ handler'[w].step = "recorded"
          /\ handler'[w].event = e
          /\ \A v \in Workers \ {w} : handler'[v] = handler[v]
      BY <1>8, <2>2, <3>1, <3>2, ProceedKeepsHandlers
      DEF RecordReceipt
    <3>4. Settled(o)'
      BY <3>3 DEF Settled, Crediting
    <3>5. \A p \in Orders : Settled(p) => Settled(p)'
      BY <1>8, <3>3 DEF Settled, Crediting, RecordReceipt
    <3>6. \A p \in Orders \ {o} : PaidNonce(p)' = PaidNonce(p)
      BY <1>8 DEF PaidNonce, RecordReceipt, Nonce
    <3>7. PaidNonce(o) => PaidNonce(o)'
      BY <1>8 DEF PaidNonce, RecordReceipt
    <3>8. payment[o] # "none"
      BY <1>3, <2>2 DEF HandlerOK
    <3>9. ReceiptInv'
      BY <1>8, <3>1, <3>4, <3>5, <3>6, <3>7, <3>8
      DEF IInv, ReceiptInv, RecordReceipt
    <3> QED
      BY <2>1, <3>3, <3>9 DEF IInv
  <2>3. CASE e.kind # "paid"
    <3>1. Success(w)
      BY <1>8, <2>3 DEF RecordReceipt
    <3>2. HandlerInv'
      BY <1>8, <3>1, AnswerKeepsHandlers DEF RecordReceipt, Success
    <3>3. \A p \in Orders : Settled(p) => Settled(p)'
      BY <1>8, <1>6, <3>1 DEF RecordReceipt, Success, Crediting
    <3>4. \A p \in Orders : provider[p] = "yifut" =>
                              PaidNonce(p)' = PaidNonce(p)
      BY <1>8, <2>3 DEF PaidNonce, RecordReceipt, Nonce
    <3>5. ReceiptInv'
      BY <1>5, <1>8, <2>3, <3>1, <3>3, <3>4
      DEF IInv, ReceiptInv, RecordReceipt
    <3> QED
      BY <2>1, <3>2, <3>5 DEF IInv
  <2> QED
    BY <2>2, <2>3
<1>9. CASE MatchOrder(w)
  <2>1. CreditedOnce' /\ CreditHasEvidence' /\ RefundShareExact' /\ OrderInv'
    BY <1>9, OrdersAlone DEF MatchOrder, IInv, OrderInv
  <2>2. \A p \in Orders : PaidNonce(p)' = PaidNonce(p)
    BY <1>9 DEF PaidNonce, MatchOrder
  <2>3. CASE payment[o] = "exact"
    <3>1. Proceed(w, "matched")
      BY <1>9, <2>3 DEF MatchOrder
    <3>2. e.kind = "paid" /\ Nonce(e) \in receipts
      BY <1>3, <1>9 DEF HandlerOK, MatchOrder
    <3>3. /\ HandlerInv'
          /\ handler'[w].step = "matched"
          /\ handler'[w].event = e
          /\ \A v \in Workers \ {w} : handler'[v] = handler[v]
      BY <1>9, <2>3, <3>1, <3>2, ProceedKeepsHandlers
      DEF MatchOrder
    <3>4. \A p \in Orders : Settled(p) => Settled(p)'
      BY <1>9, <3>3 DEF Settled, Crediting, MatchOrder
    <3>5. ReceiptInv'
      BY <1>9, <2>2, <3>4 DEF IInv, ReceiptInv, MatchOrder
    <3> QED
      BY <2>1, <3>3, <3>5 DEF IInv
  <2>4. CASE payment[o] # "exact"
    <3>1. Answer(w)
      BY <1>9, <2>4 DEF MatchOrder
    <3>2. HandlerInv'
      BY <1>9, <3>1, AnswerKeepsHandlers DEF MatchOrder
    <3>3. \A p \in Orders \ {o} : Settled(p) => Settled(p)'
      BY <1>9, <1>6, <3>1 DEF MatchOrder, Crediting
    <3>4. ReceiptInv'
      BY <1>9, <2>2, <2>4, <3>3 DEF IInv, ReceiptInv, MatchOrder
    <3> QED
      BY <2>1, <3>2, <3>4 DEF IInv
  <2> QED
    BY <2>3, <2>4
<1>10. CASE Finalize(w)
  <2>1. /\ status[o] = "created" /\ CreditOrder(o) /\ Success(w)
        /\ UNCHANGED <<receiptVars, checkout, payment, troubleVars>>
    BY <1>10 DEF Finalize
  <2>2. /\ CreditedOnce' /\ RefundShareExact' /\ OrderInv'
        /\ credits'[o] = 1
        /\ \A p \in Orders \ {o} : credits'[p] = credits[p]
    BY <2>1, CreditStep
  <2>3. /\ payment[o] = "exact" /\ Nonce(e) \in receipts /\ Nonce(e).order = o
        /\ e.kind = "paid"
    BY <1>3, <1>10 DEF HandlerOK, Finalize, Nonce
  <2>4. CreditHasEvidence'
    BY <2>1, <2>2, <2>3 DEF IInv, CreditHasEvidence
  <2>5. HandlerInv'
    BY <2>1, AnswerKeepsHandlers DEF Success, CreditOrder
  <2>6. \A p \in Orders : Settled(p) => Settled(p)'
    <3>1. \A p \in Orders \ {o} : status'[p] = status[p]
      BY <2>1 DEF CreditOrder, IInv, TypeOK
    <3>2. \A p \in Orders \ {o}, v \in Workers : Crediting(v, p) => v # w
      BY DEF Crediting
    <3>3. \A p \in Orders \ {o}, v \in Workers :
            Crediting(v, p) => Crediting(v, p)'
      BY <1>4, <2>1, <3>2 DEF Crediting, Success
    <3>4. \A p \in Orders \ {o} : Settled(p) => Settled(p)'
      BY <2>2, <3>1, <3>3 DEF Settled
    <3> QED
      BY <2>2, <3>4 DEF Settled
  <2>7. \A p \in Orders : PaidNonce(p)' = PaidNonce(p)
    BY <2>1 DEF PaidNonce
  <2>8. provider[o] = "yifut" => PaidNonce(o)
    BY <2>3, PaidReceipt
  <2>9. ReceiptInv'
    BY <1>5, <2>1, <2>6, <2>7, <2>8 DEF IInv, ReceiptInv, CreditOrder
  <2> QED
    BY <2>2, <2>4, <2>5, <2>9 DEF IInv
<1>11. CASE FinalizeDuplicate(w)
  <2>1. CreditedOnce' /\ CreditHasEvidence' /\ RefundShareExact' /\ OrderInv'
    BY <1>11, OrdersAlone DEF FinalizeDuplicate, IInv, OrderInv
  <2>2. HandlerInv'
    BY <1>11, AnswerKeepsHandlers DEF FinalizeDuplicate, Success
  <2>3. /\ payment[o] = "exact" /\ Nonce(e) \in receipts /\ e.kind = "paid"
    BY <1>3, <1>11 DEF HandlerOK, FinalizeDuplicate
  <2>4. Settled(o)'
    <3>1. status[o] \in Statuses \ {"none", "created"}
      BY <1>11, <2>3 DEF FinalizeDuplicate, IInv, OrderInv, TypeOK
    <3>2. status[o] \in {"canceled", "failed"} \/ credits[o] = 1
      BY <3>1 DEF IInv, CreditedOnce, Statuses
    <3> QED
      BY <1>11, <3>2 DEF Settled, FinalizeDuplicate
  <2>5. \A p \in Orders : Settled(p) => Settled(p)'
    <3>1. \A p \in Orders \ {o} : ~Crediting(w, p)
      BY DEF Crediting
    <3> QED
      BY <1>6, <1>11, <2>4, <3>1 DEF FinalizeDuplicate, Success
  <2>6. \A p \in Orders : PaidNonce(p)' = PaidNonce(p)
    BY <1>11 DEF PaidNonce, FinalizeDuplicate
  <2>7. provider[o] = "yifut" => PaidNonce(o)
    BY <2>3, PaidReceipt
  <2>8. ReceiptInv'
    BY <1>5, <1>11, <2>5, <2>6, <2>7 DEF IInv, ReceiptInv, FinalizeDuplicate
  <2> QED
    BY <2>1, <2>2, <2>8 DEF IInv
<1>12. CASE WebhookFault(w)
  <2>1. CreditedOnce' /\ CreditHasEvidence' /\ RefundShareExact' /\ OrderInv'
    BY <1>12, OrdersAlone DEF WebhookFault, IInv, OrderInv
  <2>2. HandlerInv'
    BY <1>12, AnswerKeepsHandlers DEF WebhookFault
  <2>3. faults' # 0
    BY <1>12, TopupAssumption DEF WebhookFault, IInv, TypeOK
  <2>4. \A p \in Orders : PaidNonce(p)' = PaidNonce(p)
    BY <1>12 DEF PaidNonce, WebhookFault
  <2>5. ReceiptInv'
    BY <1>12, <2>3, <2>4 DEF IInv, ReceiptInv, WebhookFault
  <2> QED
    BY <2>1, <2>2, <2>5 DEF IInv
<1> QED
  BY <1>7, <1>8, <1>9, <1>10, <1>11, <1>12 DEF Webhook

LEMMA MarkPaidInv ==
  ASSUME IInv, TypeOK', NEW o \in Orders, NEW ref \in Refs,
         AdminMarkTopupPaid(o, ref)
  PROVE  IInv'
<1>1. /\ status[o] = "created" /\ CreditOrder(o)
      /\ manualRefs' = manualRefs \cup {[order |-> o, ref |-> ref]}
      /\ UNCHANGED <<receipts, checkout, gatewayVars, handler, troubleVars>>
  BY DEF AdminMarkTopupPaid
<1>2. /\ CreditedOnce' /\ RefundShareExact' /\ OrderInv'
      /\ credits'[o] = 1
      /\ \A p \in Orders \ {o} : credits'[p] = credits[p]
  BY <1>1, CreditStep
<1>3. CreditHasEvidence'
  <2>1. [order |-> o, ref |-> ref] \in manualRefs'
    BY <1>1
  <2>2. ASSUME NEW p \in Orders, credits'[p] > 0
        PROVE  \/ \E m \in manualRefs' : m.order = p
               \/ payment'[p] = "exact" /\ \E n \in receipts' : n.order = p
    <3>1. CASE p = o
      BY <2>1, <3>1
    <3>2. CASE p # o
      BY <1>1, <1>2, <2>2, <3>2 DEF IInv, CreditHasEvidence
    <3> QED
      BY <3>1, <3>2
  <2> QED
    BY <2>2 DEF CreditHasEvidence
<1>4. HandlerInv'
  BY <1>1 DEF IInv, HandlerInv, HandlerOK, Nonce, CreditOrder
<1>5. ReceiptInv'
  <2>1. \A p \in Orders \ {o} : status'[p] = status[p]
    BY <1>1 DEF CreditOrder, IInv, TypeOK
  <2>2. \A p \in Orders : Settled(p) => Settled(p)'
    BY <1>1, <1>2, <2>1 DEF Settled, Crediting
  <2>3. \A p \in Orders : PaidNonce(p)' = PaidNonce(p)
    BY <1>1 DEF PaidNonce
  <2> QED
    BY <1>1, <2>2, <2>3 DEF IInv, ReceiptInv, CreditOrder
<1> QED
  BY <1>2, <1>3, <1>4, <1>5 DEF IInv

\* The steps of a refund telescope: after each one the running total is the
\* prorated share of the new total of fen.
LEMMA RefundInv ==
  ASSUME IInv, TypeOK', NEW o \in Orders, NEW ref \in Refs,
         NEW fen \in 1..Money[o], NEW reclaim \in BOOLEAN,
         AdminRefundTopup(o, fen, ref, reclaim)
  PROVE  IInv'
<1> DEFINE newMicro == Prorated(Amount[o], Money[o], refunded[o] + fen)
           oldMicro == Prorated(Amount[o], Money[o], refunded[o])
<1>1. /\ Money[o] \in Nat \ {0} /\ Amount[o] \in Nat
      /\ refunded[o] \in Nat /\ fen \in Nat \ {0} /\ refunded[o] + fen \in Nat
  BY TopupAssumption DEF IInv, TypeOK
<1>2. newMicro \in Int /\ oldMicro \in Int
  BY <1>1, ProratedType
<1> HIDE DEF newMicro, oldMicro
<1>3. /\ status[o] = "paid" /\ refunded[o] + fen =< Money[o]
      /\ refunded' = [refunded EXCEPT ![o] = refunded[o] + fen]
      /\ status' = [status EXCEPT
                      ![o] = IF refunded[o] + fen = Money[o] THEN "refunded"
                                                             ELSE "paid"]
      /\ reclaimed' = [reclaimed EXCEPT ![o] = @ + (newMicro - oldMicro)]
      /\ UNCHANGED <<credits, provider, receiptVars, checkout, gatewayVars,
                     handler, troubleVars>>
  BY DEF AdminRefundTopup, Refundable, RefundMicro, newMicro, oldMicro
<1>4. credits[o] = 1
  BY <1>3 DEF IInv, CreditedOnce
<1>5. CreditedOnce' /\ CreditHasEvidence' /\ OrderInv'
  BY <1>1, <1>3, <1>4
  DEF IInv, TypeOK, CreditedOnce, CreditHasEvidence, OrderInv
<1>6. RefundShareExact'
  <2> SUFFICES ASSUME NEW p \in Orders
               PROVE  /\ refunded'[p] =< Money[p]
                      /\ reclaimed'[p] = Prorated(Amount[p], Money[p], refunded'[p])
                      /\ status'[p] = "refunded" => reclaimed'[p] = Amount[p]
    BY DEF RefundShareExact
  <2>1. CASE p = o
    <3>1. reclaimed[o] = oldMicro
      BY DEF IInv, RefundShareExact, oldMicro
    <3>2. reclaimed'[o] = newMicro
      BY <1>2, <1>3, <3>1 DEF IInv, TypeOK
    <3>3. refunded'[o] = refunded[o] + fen
      BY <1>3 DEF IInv, TypeOK
    <3>4. status'[o] = "refunded" => refunded[o] + fen = Money[o]
      BY <1>3 DEF IInv, TypeOK
    <3>5. status'[o] = "refunded" => newMicro = Amount[o]
      BY <3>4 DEF newMicro, Prorated
    <3>6. newMicro = Prorated(Amount[o], Money[o], refunded'[o])
      BY <3>3 DEF newMicro
    <3> QED
      BY <1>3, <2>1, <3>2, <3>3, <3>5, <3>6
  <2>2. CASE p # o
    BY <1>3, <2>2 DEF IInv, TypeOK, RefundShareExact
  <2> QED
    BY <2>1, <2>2
<1>7. HandlerInv'
  BY <1>3 DEF IInv, HandlerInv, HandlerOK, Nonce
<1>8. ReceiptInv'
  <2>1. \A p \in Orders \ {o} : status'[p] = status[p]
    BY <1>3 DEF IInv, TypeOK
  <2>2. \A p \in Orders : Settled(p) => Settled(p)'
    BY <1>3, <1>4, <2>1 DEF Settled, Crediting
  <2>3. \A p \in Orders : PaidNonce(p)' = PaidNonce(p)
    BY <1>3 DEF PaidNonce
  <2> QED
    BY <1>3, <2>2, <2>3 DEF IInv, ReceiptInv
<1> QED
  BY <1>5, <1>6, <1>7, <1>8 DEF IInv

LEMMA ExpireInv ==
  ASSUME IInv, TypeOK', ExpireStale
  PROVE  IInv'
<1>1. \A o \in Orders :
        /\ status'[o] \in {status[o], "canceled"}
        /\ checkout'[o] = "none" <=> status'[o] = "none"
        /\ checkout[o] = "shown" => checkout'[o] = "shown"
  BY DEF ExpireStale, Expirable, IInv, OrderInv, TypeOK
<1> QED
  BY <1>1, QuietStep, TopupAssumption DEF ExpireStale, IInv, TypeOK

LEMMA CrashInv ==
  ASSUME IInv, TypeOK', Crash
  PROVE  IInv'
<1>1. /\ \A w \in Workers : handler'[w] = Idle
      /\ \A o \in Orders : /\ checkout'[o] = "none" <=> checkout[o] = "none"
                           /\ checkout[o] = "shown" => checkout'[o] = "shown"
      /\ crashes' # 0
      /\ UNCHANGED <<orderVars, receiptVars, gatewayVars, faults>>
  BY TopupAssumption DEF Crash, IInv, TypeOK
<1>2. CreditedOnce' /\ CreditHasEvidence' /\ RefundShareExact' /\ OrderInv'
  BY <1>1
  DEF IInv, CreditedOnce, CreditHasEvidence, RefundShareExact, OrderInv
<1>3. HandlerInv'
  BY <1>1 DEF HandlerInv, HandlerOK
<1>4. \A o \in Orders : PaidNonce(o)' = PaidNonce(o)
  BY <1>1 DEF PaidNonce
<1>5. ReceiptInv'
  BY <1>1, <1>4 DEF IInv, ReceiptInv
<1> QED
  BY <1>2, <1>3, <1>5 DEF IInv

LEMMA NextInv == IInv /\ [Next]_vars => IInv'
<1> SUFFICES ASSUME IInv, [Next]_vars PROVE IInv'
  OBVIOUS
<1>1. TypeOK'
  BY NextType DEF IInv
<1>2. ASSUME NEW o \in Orders, PlaceOrder(o) \/ Checkout(o) PROVE IInv'
  BY <1>1, <1>2, CheckoutInv
<1>3. ASSUME NEW o \in Orders, Admin(o) PROVE IInv'
  BY <1>1, <1>3, MarkPaidInv, RefundInv DEF Admin
<1>4. ASSUME NEW o \in Orders, NEW paid \in {"exact", "off"}, Pay(o, paid)
      PROVE  IInv'
  BY <1>1, <1>4, PayInv
<1>5. ASSUME NEW w \in Workers, Webhook(w) PROVE IInv'
  <2>1. handler[w] # Idle
    BY <1>5 DEF Webhook, DropDuplicate, RecordReceipt, MatchOrder, Finalize,
                FinalizeDuplicate, WebhookFault, Idle
  <2>2. handler[w].event \in Events /\ handler[w].event.order \in Orders
    BY <2>1 DEF IInv, TypeOK, Handling, Events
  <2> QED
    BY <1>1, <1>5, <2>1, <2>2, WebhookInv
<1>6. ASSUME NEW w \in Workers, NEW e \in Events, Deliver(w, e) PROVE IInv'
  BY <1>1, <1>6, DeliverInv
<1>7. CASE ExpireStale
  BY <1>1, <1>7, ExpireInv
<1>8. CASE Crash
  BY <1>1, <1>8, CrashInv
<1>9. CASE UNCHANGED vars
  <2>1. \A o \in Orders :
           /\ status'[o] = status[o]
           /\ checkout'[o] = "none" <=> status'[o] = "none"
           /\ checkout[o] = "shown" => checkout'[o] = "shown"
    BY <1>9 DEF vars, IInv, OrderInv
  <2> QED
    BY <1>1, <1>9, <2>1, QuietStep, TopupAssumption DEF vars, IInv, TypeOK
<1> QED
  BY <1>2, <1>3, <1>4, <1>5, <1>6, <1>7, <1>8, <1>9 DEF Next

LEMMA Invariance == Spec => []IInv
<1> QED
  BY InitInv, NextInv, PTL DEF Spec, Safety

-----------------------------------------------------------------------------
(* The results.                                                            *)

\* Every variable keeps its type, in every behaviour of the subsystem.
THEOREM TypeCorrect == Spec => []TypeOK
<1>1. IInv => TypeOK
  BY DEF IInv
<1> QED
  BY <1>1, Invariance, PTL

\* No order's amount is added twice, and a paid or refunded order was credited
\* (finalizePaidTopupTransaction, AdminMarkTopupPaid, AdminRefundTopup).
THEOREM CreditedOnceHolds == Spec => []CreditedOnce
<1>1. IInv => CreditedOnce
  BY DEF IInv
<1> QED
  BY <1>1, Invariance, PTL

\* Every credit is backed by a manual receipt, or by an exact payment whose
\* nonce is recorded.
THEOREM CreditHasEvidenceHolds == Spec => []CreditHasEvidence
<1>1. IInv => CreditHasEvidence
  BY DEF IInv
<1> QED
  BY <1>1, Invariance, PTL

\* Refunds take back exactly the prorated share, the whole amount at the end.
THEOREM RefundShareExactHolds == Spec => []RefundShareExact
<1>1. IInv => RefundShareExact
  BY DEF IInv
<1> QED
  BY <1>1, Invariance, PTL

\* Without database errors and crashes, no interleaving loses an acknowledged
\* yifut payment.
THEOREM YifutAckIsSettledHolds == Spec => []YifutAckIsSettled
<1>1. IInv => YifutAckIsSettled
  BY DEF IInv, ReceiptInv, YifutAckIsSettled, AckedIsSettled
<1> QED
  BY <1>1, Invariance, PTL

\* A closed order is neither credited nor refunded again, and no order goes
\* back to pending: late callbacks and confirmations change nothing.
THEOREM ClosedStaysClosedHolds == Spec => ClosedStaysClosed
<1> DEFINE Closed(o) ==
             /\ status[o] \in {"failed", "canceled", "refunded"} =>
                  credits'[o] = credits[o] /\ refunded'[o] = refunded[o]
             /\ status[o] # "none" =>
                  status'[o] # "none" /\ (status'[o] = "created" =>
                                            status[o] = "created")
<1>1. ASSUME IInv, [Next]_vars, NEW o \in Orders
      PROVE  Closed(o)
  <2> USE <1>1 DEF IInv, TypeOK
  <2>1. ASSUME NEW p \in Orders, PlaceOrder(p) PROVE Closed(o)
    BY <2>1 DEF PlaceOrder, CheckoutStep, OrderInv
  <2>2. ASSUME NEW p \in Orders, Checkout(p) PROVE Closed(o)
    BY <2>2
    DEF Checkout, ProviderAccepts, ProviderRejects, PersistPayInfo,
        PersistFault, MarkFailed, MarkFailedFault, CheckoutStep
  <2>3. ASSUME NEW p \in Orders, Admin(p) PROVE Closed(o)
    BY <2>3 DEF Admin, AdminMarkTopupPaid, AdminRefundTopup, Refundable, CreditOrder
  <2>4. ASSUME NEW w \in Workers, Webhook(w) PROVE Closed(o)
    BY <2>4 DEF Webhook, DropDuplicate, RecordReceipt, MatchOrder, Finalize,
                FinalizeDuplicate, WebhookFault, CreditOrder
  <2>5. ASSUME UNCHANGED orderVars PROVE Closed(o)
    BY <2>5
  <2>6. CASE ExpireStale
    BY <2>6 DEF ExpireStale, Expirable
  <2> QED
    BY <2>1, <2>2, <2>3, <2>4, <2>5, <2>6
    DEF Next, Pay, Deliver, Crash, vars
<1>2. IInv /\ [Next]_vars => [\A o \in Orders : Closed(o)]_vars
  BY <1>1
<1> QED
  BY <1>2, Invariance, PTL DEF Spec, Safety, ClosedStaysClosed

-----------------------------------------------------------------------------
(***************************************************************************)
(* Sums over finite sets.  MapThenSumSet is a recursive function; what it  *)
(* computes is found by counting: a weight n stands for n units, and the   *)
(* number of units satisfies the recursion, whose solution on the subsets  *)
(* of a finite set is unique, as two solutions would differ on a smallest  *)
(* subset.                                                                 *)
(***************************************************************************)
Taken(s) == CHOOSE x \in s : TRUE

\* one step of the recursion, with the weights of the function w
SumStep(w, g, S) ==
  [s \in SUBSET S |-> IF s = {} THEN 0 ELSE w[Taken(s)] + g[s \ {Taken(s)}]]

Units(w, s) == UNION {{x} \X (1 .. w[x]) : x \in s}

\* the units of a finite set can be counted
LEMMA UnitsFinite ==
  ASSUME NEW s, IsFiniteSet(s), NEW w, \A x \in s : w[x] \in Nat
  PROVE  IsFiniteSet(Units(w, s)) /\ Cardinality(Units(w, s)) \in Nat
<1> DEFINE blocks == {{x} \X (1 .. w[x]) : x \in s}
           block == [x \in s |-> {x} \X (1 .. w[x])]
<1>1. block \in Surjection(s, blocks)
  BY DEF Surjection
<1>2. IsFiniteSet(blocks)
  BY <1>1, FS_Surjection
<1>3. ASSUME NEW x \in s
      PROVE  IsFiniteSet({x} \X (1 .. w[x]))
  <2>1. IsFiniteSet({x})
    BY FS_Singleton
  <2>2. IsFiniteSet(1 .. w[x])
    <3>1. w[x] \in Int
      OBVIOUS
    <3> QED
      BY <3>1, FS_Interval
  <2> QED
    BY <2>1, <2>2, FS_Product
<1>4. IsFiniteSet(UNION blocks)
  BY <1>2, <1>3, FS_UNION
<1> QED
  BY <1>4, FS_CardinalityType DEF Units

\* one element's weight is what its units add
LEMMA UnitsTake ==
  ASSUME NEW s, IsFiniteSet(s), NEW w, \A x \in s : w[x] \in Nat, NEW x \in s
  PROVE  Cardinality(Units(w, s)) = w[x] + Cardinality(Units(w, s \ {x}))
<1> DEFINE own == {x} \X (1 .. w[x])
           others == Units(w, s \ {x})
<1>1. IsFiniteSet({x}) /\ Cardinality({x}) = 1
  BY FS_Singleton
<1>2. IsFiniteSet(1 .. w[x]) /\ Cardinality(1 .. w[x]) = w[x]
  BY FS_Interval
<1>3. IsFiniteSet(own) /\ Cardinality(own) = w[x]
  BY <1>1, <1>2, FS_Product
<1>4. IsFiniteSet(s \ {x})
  BY FS_RemoveElement
<1>5. IsFiniteSet(others) /\ Cardinality(others) \in Nat
  BY <1>4, UnitsFinite
<1>6. Units(w, s) = own \cup others
  BY DEF Units
<1>7. own \cap others = {}
  BY DEF Units
<1> HIDE DEF own, others
<1>8. Cardinality(own \cup others)
        = Cardinality(own) + Cardinality(others) - Cardinality(own \cap others)
  BY <1>3, <1>5, FS_Union
<1>9. Cardinality(own \cap others) = 0
  BY <1>7, FS_EmptySet
<1> QED
  BY <1>3, <1>5, <1>6, <1>8, <1>9 DEF others

\* counting satisfies the recursion
LEMMA CountIsASum ==
  ASSUME NEW S, IsFiniteSet(S), NEW w, \A x \in S : w[x] \in Nat
  PROVE  LET count == [s \in SUBSET S |-> Cardinality(Units(w, s))]
         IN  count = SumStep(w, count, S)
<1> DEFINE count == [s \in SUBSET S |-> Cardinality(Units(w, s))]
<1>1. ASSUME NEW s \in SUBSET S, s # {}
      PROVE  count[s] = w[Taken(s)] + count[s \ {Taken(s)}]
  <2>1. Taken(s) \in s
    BY <1>1 DEF Taken
  <2>2. IsFiniteSet(s)
    BY FS_Subset
  <2>3. Cardinality(Units(w, s)) = w[Taken(s)] + Cardinality(Units(w, s \ {Taken(s)}))
    BY <2>1, <2>2, UnitsTake
  <2> QED
    BY <2>3
<1>2. count[{}] = 0
  BY FS_EmptySet DEF Units
<1>3. \A s \in SUBSET S :
        count[s] = IF s = {} THEN 0 ELSE w[Taken(s)] + count[s \ {Taken(s)}]
  BY <1>1, <1>2
<1> QED
  BY <1>3 DEF SumStep

LEMMA SumIsUnique ==
  ASSUME NEW S, IsFiniteSet(S), NEW w, NEW g, NEW h,
         g = SumStep(w, g, S), h = SumStep(w, h, S)
  PROVE  g = h
<1> DEFINE wrong == {s \in SUBSET S : g[s] # h[s]}
<1>1. CASE wrong # {}
  <2>1. wrong \subseteq FiniteSubsetsOf(S)
    BY FS_FiniteSubsetsOfFinite
  <2>2. PICK s \in wrong : \A t \in wrong : <<t, s>> \notin StrictSubsetOrdering(S)
    BY <1>1, <2>1, FS_StrictSubsetOrderingWellFounded, WFMin
  <2>3. s # {}
    BY DEF SumStep
  <2>4. Taken(s) \in s
    BY <2>3 DEF Taken
  <2>5. s \ {Taken(s)} \notin wrong
    <3> DEFINE t == s \ {Taken(s)}
    <3>1. t \subseteq s /\ t # s /\ s \in SUBSET S /\ t \in SUBSET S
      BY <2>4
    <3> HIDE DEF t
    <3>2. <<t, s>> \in StrictSubsetOrdering(S)
      BY <3>1 DEF StrictSubsetOrdering
    <3>3. t \notin wrong
      BY <2>2, <3>2
    <3> QED
      BY <3>3 DEF t
  <2>6. g[s \ {Taken(s)}] = h[s \ {Taken(s)}]
    BY <2>5
  <2> QED
    BY <2>3, <2>6 DEF SumStep
<1>2. CASE wrong = {}
  BY <1>2 DEF SumStep
<1> QED
  BY <1>1, <1>2

\* so the recursion's solution counts the units
LEMMA SumCounts ==
  ASSUME NEW S, IsFiniteSet(S), NEW w, \A x \in S : w[x] \in Nat
  PROVE  (CHOOSE g : g = SumStep(w, g, S))[S] = Cardinality(Units(w, S))
<1> DEFINE count == [s \in SUBSET S |-> Cardinality(Units(w, s))]
           sum == CHOOSE g : g = SumStep(w, g, S)
<1>1. count = SumStep(w, count, S)
  BY CountIsASum
<1> HIDE DEF count
<1>2. sum = SumStep(w, sum, S)
  BY <1>1
<1> HIDE DEF sum
<1>3. sum = count
  BY <1>1, <1>2, SumIsUnique
<1> QED
  BY <1>3 DEF sum, count

-----------------------------------------------------------------------------
(* The rows of refunds and what they sum up to.                            *)

\* the weights of a row
Fen == [row \in RefundRows |-> row.fen]
Micro == [row \in {r \in RefundRows : r.micro \in Nat} |-> row.micro]

LEMMA FenCounts ==
  ASSUME NEW S, IsFiniteSet(S), S \subseteq RefundRows
  PROVE  MapThenSumSet(LAMBDA row : row.fen, S) = Cardinality(Units(Fen, S))
<1> DEFINE fenStep(g) ==
             [s \in SUBSET S |-> IF s = {} THEN 0
                                ELSE Taken(s).fen + g[s \ {Taken(s)}]]
<1>1. MapThenSumSet(LAMBDA row : row.fen, S) = (CHOOSE g : g = fenStep(g))[S]
  BY DEF MapThenSumSet, MapThenFoldSet, Taken
<1>2. ASSUME NEW s \in SUBSET S, s # {}
      PROVE  Taken(s).fen = Fen[Taken(s)]
  <2>1. Taken(s) \in s
    BY <1>2 DEF Taken
  <2> QED
    BY <2>1 DEF Fen
<1>3. ASSUME NEW g
      PROVE  fenStep(g) = SumStep(Fen, g, S)
  BY <1>2 DEF SumStep
<1> HIDE DEF fenStep
<1>4. (CHOOSE g : g = fenStep(g)) = (CHOOSE g : g = SumStep(Fen, g, S))
  BY <1>3
<1>5. \A row \in S : Fen[row] \in Nat
  BY DEF Fen, RefundRows
<1> QED
  BY <1>1, <1>4, <1>5, SumCounts

LEMMA MicroCounts ==
  ASSUME NEW S, IsFiniteSet(S), S \subseteq DOMAIN Micro
  PROVE  MapThenSumSet(LAMBDA row : row.micro, S) = Cardinality(Units(Micro, S))
<1> DEFINE microStep(g) ==
             [s \in SUBSET S |-> IF s = {} THEN 0
                                ELSE Taken(s).micro + g[s \ {Taken(s)}]]
<1>1. MapThenSumSet(LAMBDA row : row.micro, S) = (CHOOSE g : g = microStep(g))[S]
  BY DEF MapThenSumSet, MapThenFoldSet, Taken
<1>2. ASSUME NEW s \in SUBSET S, s # {}
      PROVE  Taken(s).micro = Micro[Taken(s)]
  <2>1. Taken(s) \in s
    BY <1>2 DEF Taken
  <2> QED
    BY <2>1 DEF Micro
<1>3. ASSUME NEW g
      PROVE  microStep(g) = SumStep(Micro, g, S)
  BY <1>2 DEF SumStep
<1> HIDE DEF microStep
<1>4. (CHOOSE g : g = microStep(g)) = (CHOOSE g : g = SumStep(Micro, g, S))
  BY <1>3
<1>5. \A row \in S : Micro[row] \in Nat
  BY DEF Micro
<1> QED
  BY <1>1, <1>4, <1>5, SumCounts

\* The rows are finitely many, none takes back less than nothing, and they
\* count up to what the order says.
BookInv ==
  /\ IsFiniteSet(refunds) /\ refunds \subseteq DOMAIN Micro
  /\ \A o \in Orders : /\ Cardinality(Units(Fen, RowsOf(o))) = refunded[o]
                       /\ Cardinality(Units(Micro, RowsOf(o))) = reclaimed[o]

LEMMA BookSums == IInv /\ BookInv => RefundRowsSum
<1> SUFFICES ASSUME IInv, BookInv, NEW o \in Orders
             PROVE  /\ MapThenSumSet(LAMBDA row : row.fen, RowsOf(o)) = refunded[o]
                    /\ MapThenSumSet(LAMBDA row : row.micro, RowsOf(o)) = reclaimed[o]
  BY DEF RefundRowsSum
<1>1. /\ RowsOf(o) \subseteq refunds /\ RowsOf(o) \subseteq DOMAIN Micro
      /\ RowsOf(o) \subseteq RefundRows
  BY DEF BookInv, RowsOf, IInv, TypeOK
<1>2. IsFiniteSet(RowsOf(o))
  BY <1>1, FS_Subset DEF BookInv
<1> QED
  BY <1>1, <1>2, FenCounts, MicroCounts DEF BookInv

LEMMA InitBook == Init => BookInv
<1> SUFFICES ASSUME Init PROVE BookInv
  OBVIOUS
<1>1. ASSUME NEW o \in Orders, NEW w
      PROVE  Cardinality(Units(w, RowsOf(o))) = 0
  <2>1. Units(w, RowsOf(o)) = {}
    BY DEF Units, RowsOf, Init
  <2> QED
    BY <2>1, FS_EmptySet
<1>2. IsFiniteSet(refunds) /\ refunds \subseteq DOMAIN Micro
  BY FS_EmptySet DEF Init
<1> QED
  BY <1>1, <1>2 DEF BookInv, Init

\* one more row counts for what it says
LEMMA OneMoreRow ==
  ASSUME NEW rows, IsFiniteSet(rows), NEW row, row \notin rows,
         NEW w, \A r \in rows \cup {row} : w[r] \in Nat
  PROVE  Cardinality(Units(w, rows \cup {row})) = Cardinality(Units(w, rows)) + w[row]
<1>1. IsFiniteSet(rows \cup {row}) /\ (rows \cup {row}) \ {row} = rows
  BY FS_AddElement
<1>2. Cardinality(Units(w, rows \cup {row})) = w[row] + Cardinality(Units(w, rows))
  BY <1>1, UnitsTake
<1>3. Cardinality(Units(w, rows)) \in Nat /\ w[row] \in Nat
  BY UnitsFinite
<1> QED
  BY <1>2, <1>3

LEMMA RefundBook ==
  ASSUME IInv, BookInv, NEW o \in Orders, NEW ref \in Refs,
         NEW fen \in 1 .. Money[o], NEW reclaim \in BOOLEAN,
         AdminRefundTopup(o, fen, ref, reclaim)
  PROVE  BookInv'
<1> DEFINE row == RefundRow(o, fen, ref, reclaim)
           micro == RefundMicro(o, fen)
<1>1. /\ Money[o] \in Nat \ {0} /\ fen \in Nat
      /\ refunded \in [Orders -> Nat] /\ reclaimed \in [Orders -> Int]
      /\ refunds \subseteq RefundRows
  BY TopupAssumption DEF IInv, TypeOK
<1>2. micro \in Nat
  <2>1. /\ Prorated(Amount[o], Money[o], refunded[o] + fen) \in Int
        /\ Prorated(Amount[o], Money[o], refunded[o]) \in Int
    BY <1>1, ProratedType, TopupAssumption
  <2>2. micro >= 0
    BY DEF AdminRefundTopup, Refundable
  <2> QED
    BY <2>1, <2>2 DEF RefundMicro
<1>3. /\ refunds' = refunds \cup {row}
      /\ refunded' = [refunded EXCEPT ![o] = @ + fen]
      /\ reclaimed' = [reclaimed EXCEPT ![o] = @ + micro]
      /\ \A r \in refunds : r.ref # ref
  BY DEF AdminRefundTopup, Refundable
<1> HIDE DEF micro
<1>4. /\ row \in RefundRows /\ row.order = o /\ row.ref = ref
      /\ row.fen = fen /\ row.micro = micro
  BY <1>1, <1>2 DEF RefundRow, RefundRows, micro
<1> HIDE DEF row
<1>5. /\ row \in DOMAIN Micro /\ Micro[row] = micro /\ Fen[row] = fen
      /\ row \notin refunds
  BY <1>2, <1>3, <1>4 DEF Micro, Fen
<1>6. IsFiniteSet(refunds') /\ refunds' \subseteq DOMAIN Micro
  BY <1>3, <1>5, FS_AddElement DEF BookInv
<1>7. ASSUME NEW p \in Orders
      PROVE  /\ Cardinality(Units(Fen, RowsOf(p)))' = refunded'[p]
             /\ Cardinality(Units(Micro, RowsOf(p)))' = reclaimed'[p]
  <2>1. Units(Fen, RowsOf(p))' = Units(Fen, RowsOf(p)')
    BY DEF Units, Fen, RefundRows
  <2>2. Units(Micro, RowsOf(p))' = Units(Micro, RowsOf(p)')
    BY DEF Units, Micro, RefundRows
  <2>3. CASE p = o
    <3>1. RowsOf(o)' = RowsOf(o) \cup {row}
      BY <1>3, <1>4 DEF RowsOf
    <3>2. IsFiniteSet(RowsOf(o))
      BY FS_Subset DEF BookInv, RowsOf
    <3>3. row \notin RowsOf(o)
      BY <1>5 DEF RowsOf
    <3>4. \A r \in RowsOf(o) \cup {row} : Fen[r] \in Nat /\ Micro[r] \in Nat
      BY <1>5, <1>6, <1>3 DEF RowsOf, Micro, Fen, RefundRows
    <3>5. /\ Cardinality(Units(Fen, RowsOf(o) \cup {row}))
               = Cardinality(Units(Fen, RowsOf(o))) + Fen[row]
          /\ Cardinality(Units(Micro, RowsOf(o) \cup {row}))
               = Cardinality(Units(Micro, RowsOf(o))) + Micro[row]
      BY <3>2, <3>3, <3>4, OneMoreRow
    <3>6. /\ Cardinality(Units(Fen, RowsOf(o)')) = refunded[o] + fen
          /\ Cardinality(Units(Micro, RowsOf(o)')) = reclaimed[o] + micro
      BY <1>5, <3>1, <3>5 DEF BookInv
    <3> QED
      BY <1>1, <1>3, <2>1, <2>2, <2>3, <3>6
  <2>4. CASE p # o
    <3>1. RowsOf(p)' = RowsOf(p)
      BY <1>3, <1>4, <2>4 DEF RowsOf
    <3> QED
      BY <1>1, <1>3, <2>1, <2>2, <2>4, <3>1 DEF BookInv
  <2> QED
    BY <2>3, <2>4
<1> QED
  BY <1>6, <1>7 DEF BookInv, Micro, RefundRows

\* no other step touches the rows or the totals
LEMMA NextBook == IInv /\ BookInv /\ [Next]_vars => BookInv'
<1> SUFFICES ASSUME IInv, BookInv, [Next]_vars
             PROVE  BookInv'
  OBVIOUS
<1>1. ASSUME UNCHANGED <<refunded, reclaimed, refunds>>
      PROVE  BookInv'
  BY <1>1 DEF BookInv, RowsOf, Units, Fen, Micro, RefundRows
<1>2. ASSUME NEW o \in Orders, PlaceOrder(o) \/ Checkout(o)
      PROVE  BookInv'
  BY <1>1, <1>2
  DEF PlaceOrder, Checkout, ProviderAccepts, ProviderRejects, PersistPayInfo,
      PersistFault, MarkFailed, MarkFailedFault
<1>3. ASSUME NEW w \in Workers, Webhook(w)
      PROVE  BookInv'
  BY <1>1, <1>3
  DEF Webhook, DropDuplicate, RecordReceipt, MatchOrder, Finalize,
      FinalizeDuplicate, WebhookFault, CreditOrder
<1>4. ASSUME NEW o \in Orders, Admin(o)
      PROVE  BookInv'
  BY <1>1, <1>4, RefundBook DEF Admin, AdminMarkTopupPaid, CreditOrder
<1> QED
  BY <1>1, <1>2, <1>3, <1>4 DEF Next, Pay, Deliver, ExpireStale, Crash, vars

(***************************************************************************)
(* RefundedAmountRMB of an order, and the micro_usd taken back so far, are *)
(* the sums of its refund rows, for any number of refunds in any parts: no *)
(* refund is registered twice or half-way (AdminRefundTopup writes the     *)
(* order and its TopupRefund in one transaction).                          *)
(***************************************************************************)
THEOREM RefundRowsSumHolds == Spec => []RefundRowsSum
<1>1. Init => BookInv
  BY InitBook
<1>2. IInv /\ BookInv /\ [Next]_vars => BookInv'
  BY NextBook
<1>3. IInv /\ BookInv => RefundRowsSum
  BY BookSums
<1> QED
  BY <1>1, <1>2, <1>3, Invariance, PTL DEF Spec, Safety

-----------------------------------------------------------------------------
(* The refinement.                                                         *)

\* The top-up subsystem implements TopupLedger: each order is credited at most
\* once, then refunded by prorated shares of what it was credited with.
THEOREM ImplementsLedger == Spec => KeepsLedger
<1>1. Init => Ledger!Init
  BY DEF Init, Ledger!Init
<1>2. ASSUME IInv, [Next]_vars
      PROVE  [Ledger!Next]_Ledger!vars
  <2> DEFINE credited == {o \in Orders : credits[o] > 0}
  <2>0. TypeOK
    BY <1>2 DEF IInv
  <2>1. ASSUME UNCHANGED <<credits, refunded, reclaimed>>
        PROVE  UNCHANGED Ledger!vars
    BY <2>1 DEF Ledger!vars
  <2>2. ASSUME NEW o \in Orders, status[o] = "created", CreditOrder(o)
        PROVE  Ledger!Next
    <3>1. credits[o] = 0
      BY <1>2, <2>2 DEF IInv, OrderInv
    <3>2. credits' = [credits EXCEPT ![o] = 1]
          /\ UNCHANGED <<refunded, reclaimed>>
      BY <2>0, <2>2, <3>1 DEF CreditOrder, TypeOK
    <3>3. o \notin credited /\ credited' = credited \cup {o}
      BY <2>0, <3>1, <3>2 DEF TypeOK
    <3>4. Ledger!Credit(o)
      BY <3>2, <3>3 DEF Ledger!Credit
    <3> QED
      BY <3>4 DEF Ledger!Next
  <2>3. ASSUME NEW o \in Orders, NEW ref \in Refs, NEW fen \in 1..Money[o],
               NEW reclaim \in BOOLEAN, AdminRefundTopup(o, fen, ref, reclaim)
        PROVE  Ledger!Next
    <3> DEFINE newMicro == Prorated(Amount[o], Money[o], refunded[o] + fen)
               oldMicro == Prorated(Amount[o], Money[o], refunded[o])
    <3>1. newMicro \in Int /\ oldMicro \in Int
      BY <2>0, ProratedType, TopupAssumption DEF TypeOK
    <3>2. reclaimed[o] = oldMicro
      BY <1>2 DEF IInv, RefundShareExact
    <3>3. credits[o] = 1
      BY <1>2, <2>3 DEF IInv, CreditedOnce, AdminRefundTopup, Refundable
    <3>4. /\ refunded[o] + fen =< Money[o]
          /\ refunded' = [refunded EXCEPT ![o] = @ + fen]
          /\ reclaimed' = [reclaimed EXCEPT ![o] = @ + (newMicro - oldMicro)]
          /\ UNCHANGED credits
      BY <2>3
      DEF AdminRefundTopup, Refundable, RefundMicro, newMicro, oldMicro
    <3> HIDE DEF newMicro, oldMicro
    <3>5. reclaimed' = [reclaimed EXCEPT ![o] = newMicro]
      BY <2>0, <3>1, <3>2, <3>4 DEF TypeOK
    <3>6. o \in credited /\ UNCHANGED credited
      BY <3>3, <3>4
    <3>7. newMicro = Ledger!Prorated(Amount[o], Money[o], refunded[o] + fen)
      BY DEF newMicro, Prorated, Ledger!Prorated
    <3>8. Ledger!Refund(o, fen)
      BY <3>4, <3>5, <3>6, <3>7 DEF Ledger!Refund
    <3> QED
      BY <3>8 DEF Ledger!Next
  <2>4. ASSUME NEW o \in Orders, PlaceOrder(o) \/ Checkout(o)
        PROVE  UNCHANGED <<credits, refunded, reclaimed>>
    BY <2>4
    DEF PlaceOrder, Checkout, ProviderAccepts, ProviderRejects, PersistPayInfo,
        PersistFault, MarkFailed, MarkFailedFault
  <2>5. ASSUME NEW w \in Workers, Webhook(w)
        PROVE  Ledger!Next \/ UNCHANGED <<credits, refunded, reclaimed>>
    <3>1. CASE Finalize(w)
      <4>1. handler[w].event.order \in Orders
        BY <2>0, <3>1 DEF TypeOK, Finalize, Idle, Handling, Events
      <4> QED
        BY <2>2, <3>1, <4>1 DEF Finalize
    <3>2. CASE ~Finalize(w)
      BY <2>5, <3>2
      DEF Webhook, DropDuplicate, RecordReceipt, MatchOrder,
          FinalizeDuplicate, WebhookFault
    <3> QED
      BY <3>1, <3>2
  <2>6. ASSUME NEW o \in Orders, Admin(o) PROVE Ledger!Next
    BY <2>2, <2>3, <2>6 DEF Admin, AdminMarkTopupPaid
  <2> QED
    BY <1>2, <2>1, <2>4, <2>5, <2>6
    DEF Next, Pay, Deliver, ExpireStale, Crash, vars
<1> QED
  BY <1>1, <1>2, Invariance, PTL DEF Spec, Safety, KeepsLedger, Ledger!Spec
=============================================================================
