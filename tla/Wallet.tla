------------------------------- MODULE Wallet -------------------------------
(***************************************************************************)
(* The balance of a user and everything that writes it.  quota is what the *)
(* user may spend; paid (paid_quota) is the part of it that came from the  *)
(* user's own top-ups and has not been spent yet.  Top-ups, bonuses, admin *)
(* adjustments, purchases, refunds, API charges and the reconciliation of  *)
(* unbilled turns meet here.  Each is one database transaction that holds  *)
(* the user's row, so each is one action; a turn has several, and an       *)
(* admin's edit reads the row before its transaction, with other writers   *)
(* in between.  Amounts are micro_usd.  The billing entries are left out.  *)
(***************************************************************************)
EXTENDS Integers, FiniteSets

CONSTANTS
    Users,          \* accounts with role "user"
    NoOne,          \* no user: no referrer, or a slot not in use
    Referrer,       \* who invited each user (referred_by_user_id)
    Plans,          \* subscription rows that may be created
    Turns,          \* API requests that may be served
    Media,          \* those that are billed by media_billing.go
    Amounts,        \* of top-ups, bonuses and relative adjustments
    Prices,         \* of packages, and coupon prices
    Costs,          \* of a turn
    Settings,       \* balances an admin may set
    Bps, BpsBase,   \* rate of the referral reward, in parts of BpsBase
    MaxQuota,       \* bound of each user: no credit takes the balance above it
    MaxTopped,      \* bound of each user: the sum of their top-ups
    MaxForms        \* bound: edits of a user under way

ASSUME WalletAssumption ==
    /\ NoOne \notin Users
    /\ Referrer \in [Users -> Users \cup {NoOne}]
    /\ IsFiniteSet(Plans)
    /\ Media \subseteq Turns
    /\ Amounts \subseteq Nat \ {0}
    /\ Prices \subseteq Nat
    /\ Costs \subseteq Nat \ {0}
    /\ Settings \subseteq Int
    /\ BpsBase \in Nat \ {0}
    /\ Bps \in 0 .. BpsBase
    /\ MaxQuota \in [Users -> Nat]
    /\ MaxTopped \in [Users -> Nat]
    /\ MaxForms \in Nat

VARIABLES
    quota,          \* User.Quota
    paid,           \* User.PaidQuota
    topped,         \* what top-ups credited so far
    orders,         \* what may still be refunded of the topup orders
    attributed,     \* spending counted as paid by own top-ups so far
    rewards,        \* what the referrer received for it so far
    lowest,         \* history: the lowest balance so far
    status,         \* UserSubscription.Status, "none" before it exists
    owner,          \* UserSubscription.UserID
    price,          \* UserSubscription.PurchasedUnitPriceUSD
    granted,        \* UserSubscription.IsGranted
    step,           \* where a turn is; "pending" is a pending_reconcile entry
    payer,          \* the user of the turn
    cost,           \* its raw cost
    reconciled,     \* the BillingReconciliation row of its pending entry
    taken,          \* history: what was charged for the turn
    forms           \* edits of users, from the read of the row to the update

account == <<quota, lowest>>
origin  == <<paid, topped, orders, attributed, rewards>>
plan    == <<status, owner, price, granted>>
turn    == <<step, payer, cost, reconciled, taken>>
vars    == <<account, origin, plan, turn, forms>>

PlanStatus == {"none", "active", "canceled", "expired", "refunded", "revoked"}
Step == {"idle", "serving", "covered", "charged", "pending", "lost"}
Result == {"absorbed", "charged", "voided"}

-----------------------------------------------------------------------------
(* Helpers *)

Lesser(a, b)  == IF a <= b THEN a ELSE b
Greater(a, b) == IF a >= b THEN a ELSE b

\* A change of one user's balance.
Only(u, amount) == [v \in Users |-> IF v = u THEN amount ELSE 0]

\* Balances change by flow.
Move(flow) ==
    /\ quota' = [v \in Users |-> quota[v] + flow[v]]
    /\ lowest' = [v \in Users |-> Lesser(lowest[v], quota[v] + flow[v])]

\* Subscriptions that were bought and whose money was not given back.
BlocksReclaim(p, u) ==
    /\ owner[p] = u
    /\ status[p] \notin {"none", "refunded"}
    /\ ~granted[p]

HasPlan(u) == \E p \in Plans : owner[p] = u /\ status[p] = "active"

-----------------------------------------------------------------------------
(* Spending and the reward of the referrer *)

\* paid_quota is a floor: other credit is spent first.
Kept(u, spent) == Lesser(paid[u], Greater(quota[u] - spent, 0))

Eligible(u, spent) == Lesser(paid[u] - Kept(u, spent), spent)

\* rewarding: inside the reward window, and the referrer is an active user.
Reward(u, spent, rewarding) ==
    IF rewarding /\ Referrer[u] \notin {NoOne, u}
    THEN (Eligible(u, spent) * Bps) \div BpsBase
    ELSE 0

\* The user pays, the referrer receives.
Flow(u, spent, reward) ==
    [v \in Users |-> IF v = u THEN -spent
                     ELSE IF v = Referrer[u] THEN reward ELSE 0]

\* The conditional update of the balance (quota >= spent), its entry, and
\* ApplyReferralPaidSpendRewardTx in the same transaction.
Spend(u, spent, rewarding) ==
    LET reward == Reward(u, spent, rewarding)
        flow == Flow(u, spent, reward)
    IN  /\ quota[u] >= spent
        /\ \A v \in Users : flow[v] > 0 => quota[v] + flow[v] <= MaxQuota[v]
        /\ Move(flow)
        /\ paid' = [paid EXCEPT ![u] = Kept(u, spent)]
        /\ attributed' = [attributed EXCEPT ![u] = @ + Eligible(u, spent)]
        /\ rewards' = [rewards EXCEPT ![u] = @ + reward]
        /\ UNCHANGED <<topped, orders>>

-----------------------------------------------------------------------------
(* Credits *)

\* A paid order: from the callback, or confirmed by an admin; or a payment
\* outside of the gateways, which has no order that could be refunded.
Topup(u, a, byOrder) ==
    /\ topped[u] + a <= MaxTopped[u]
    /\ quota[u] + a <= MaxQuota[u]
    /\ Move(Only(u, a))
    /\ paid' = [paid EXCEPT ![u] = @ + a]
    /\ topped' = [topped EXCEPT ![u] = @ + a]
    /\ orders' = [orders EXCEPT ![u] = IF byOrder THEN @ + a ELSE @]
    /\ UNCHANGED <<attributed, rewards, plan, turn, forms>>

\* The bonus of a sign-up, for the new user and for who invited them.
BonusCredit(u, a) ==
    /\ quota[u] + a <= MaxQuota[u]
    /\ Move(Only(u, a))
    /\ UNCHANGED <<origin, plan, turn, forms>>

\* mutant: canceled and expired subscriptions are overlooked
AdminRefundTopupActiveOnly(u, m, reclaim) ==
    /\ m <= orders[u]
    /\ reclaim => \A p \in Plans : ~(BlocksReclaim(p, u) /\ status[p] = "active")
    /\ orders' = [orders EXCEPT ![u] = @ - m]
    /\ paid' = [paid EXCEPT ![u] = IF @ >= m THEN @ - m ELSE 0]
    /\ Move(Only(u, IF reclaim THEN -m ELSE 0))
    /\ UNCHANGED <<topped, attributed, rewards, plan, turn, forms>>

\* Money of m micro_usd went back to the payer.  With reclaim it also leaves the
\* balance, which may become negative.
AdminRefundTopup(u, m, reclaim) ==
    /\ m <= orders[u]
    /\ reclaim => \A p \in Plans : ~BlocksReclaim(p, u)
    /\ orders' = [orders EXCEPT ![u] = @ - m]
    /\ paid' = [paid EXCEPT ![u] = IF @ >= m THEN @ - m ELSE 0]
    /\ Move(Only(u, IF reclaim THEN -m ELSE 0))
    /\ UNCHANGED <<topped, attributed, rewards, plan, turn, forms>>

-----------------------------------------------------------------------------
(* Adjustments by an admin *)

\* protectsPaidQuotaReduction
Protects(u, next) == next < quota[u] /\ next < paid[u]

\* UpdateUser reads the row when it begins; what the row said of the protection
\* then is kept, and not used.
BeginEdit(u, next) ==
    /\ Cardinality(forms) < MaxForms
    /\ forms' = forms \cup {[user |-> u, next |-> next, protected |-> Protects(u, next)]}
    /\ UNCHANGED <<account, origin, plan, turn>>

\* An absolute balance, whatever it was when the form was opened.
SetQuota(u, next) ==
    /\ ~Protects(u, next)
    /\ next <= MaxQuota[u]
    /\ Move(Only(u, next - quota[u]))
    /\ UNCHANGED <<origin, plan, turn>>

\* mutant: the protection is decided by the row that was read first
UpdateUserByForm(f) ==
    /\ f \in forms
    /\ forms' = forms \ {f}
    /\ \/ /\ ~f.protected /\ f.next <= MaxQuota[f.user]
          /\ Move(Only(f.user, f.next - quota[f.user]))
          /\ UNCHANGED <<origin, plan, turn>>
       \/ UNCHANGED <<account, origin, plan, turn>>

\* Its transaction reads the row again under the lock; it fails or is refused, or
\* sets the balance.
UpdateUser(f) ==
    /\ f \in forms
    /\ forms' = forms \ {f}
    /\ SetQuota(f.user, f.next) \/ UNCHANGED <<account, origin, plan, turn>>

\* The modes of BulkAdjustQuota; each user's transaction reads the row itself.
BulkSet(u, next) == SetQuota(u, next) /\ UNCHANGED forms

BulkAdd(u, a) ==
    /\ quota[u] + a <= MaxQuota[u]
    /\ Move(Only(u, Greater(quota[u] + a, 0) - quota[u]))
    /\ UNCHANGED <<origin, plan, turn, forms>>

\* Never below paid_quota, and no change of a balance that is there already.
BulkSub(u, a) ==
    LET next == IF quota[u] <= paid[u] THEN quota[u]
                ELSE Greater(quota[u] - a, paid[u])
    IN  /\ Move(Only(u, next - quota[u]))
        /\ UNCHANGED <<origin, plan, turn, forms>>

-----------------------------------------------------------------------------
(* Subscriptions *)

\* Several of one package in one transaction; a coupon lowers the price of the
\* first of them, and never to nothing.
Purchase(u, bought, first, unit, firstUnit, rewarding) ==
    LET total == firstUnit + (Cardinality(bought) - 1) * unit
    IN  /\ first \in bought
        /\ \A p \in bought : status[p] = "none"
        /\ firstUnit = unit \/ firstUnit \in 1 .. unit
        /\ IF total > 0
           THEN Spend(u, total, rewarding)
           ELSE UNCHANGED <<account, origin>>
        /\ status' = [p \in Plans |-> IF p \in bought THEN "active" ELSE status[p]]
        /\ owner' = [p \in Plans |-> IF p \in bought THEN u ELSE owner[p]]
        /\ price' = [p \in Plans |-> CASE p = first -> firstUnit
                                       [] p \in bought \ {first} -> unit
                                       [] OTHER -> price[p]]
        /\ UNCHANGED <<granted, turn, forms>>

AdminGrantSubscription(u, p) ==
    /\ status[p] = "none"
    /\ status' = [status EXCEPT ![p] = "active"]
    /\ owner' = [owner EXCEPT ![p] = u]
    /\ granted' = [granted EXCEPT ![p] = TRUE]
    /\ UNCHANGED <<account, origin, price, turn, forms>>

AdminRevokeGrantedSubscription(p) ==
    /\ granted[p]
    /\ status[p] = "active"
    /\ status' = [status EXCEPT ![p] = "revoked"]
    /\ UNCHANGED <<account, origin, owner, price, granted, turn, forms>>

CancelSubscription(p) ==
    /\ status[p] = "active"
    /\ status' = [status EXCEPT ![p] = "canceled"]
    /\ UNCHANGED <<account, origin, owner, price, granted, turn, forms>>

ExpireSubscription(p) ==
    /\ status[p] = "active"
    /\ status' = [status EXCEPT ![p] = "expired"]
    /\ UNCHANGED <<account, origin, owner, price, granted, turn, forms>>

\* mutant: what is given back counts as a top-up
AdminRefundSubscriptionAsPaid(p, a) ==
    /\ ~granted[p]
    /\ price[p] > 0
    /\ a \in 1 .. price[p]
    /\ status[p] \in {"active", "canceled", "expired"}
    /\ quota[owner[p]] + a <= MaxQuota[owner[p]]
    /\ status' = [status EXCEPT ![p] = "refunded"]
    /\ Move(Only(owner[p], a))
    /\ paid' = [paid EXCEPT ![owner[p]] = @ + a]
    /\ UNCHANGED <<topped, orders, attributed, rewards, owner, price, granted, turn, forms>>

\* The amount is agreed with the user, at most what the subscription cost.  It
\* goes to the balance; paid_quota stays.
AdminRefundSubscription(p, a) ==
    /\ ~granted[p]
    /\ price[p] > 0
    /\ a \in 1 .. price[p]
    /\ status[p] \in {"active", "canceled", "expired"}
    /\ quota[owner[p]] + a <= MaxQuota[owner[p]]
    /\ status' = [status EXCEPT ![p] = "refunded"]
    /\ Move(Only(owner[p], a))
    /\ UNCHANGED <<origin, owner, price, granted, turn, forms>>

-----------------------------------------------------------------------------
(* Turns: the answer is delivered first and billed afterwards *)

StartTurn(t, u, c) ==
    /\ step[t] = "idle"
    /\ HasPlan(u) \/ quota[u] > 0
    /\ step' = [step EXCEPT ![t] = "serving"]
    /\ payer' = [payer EXCEPT ![t] = u]
    /\ cost' = [cost EXCEPT ![t] = c]
    /\ UNCHANGED <<account, origin, plan, reconciled, taken, forms>>

\* A subscription takes the turn.
CoverTurn(t) ==
    /\ step[t] = "serving"
    /\ HasPlan(payer[t])
    /\ step' = [step EXCEPT ![t] = "covered"]
    /\ UNCHANGED <<account, origin, plan, payer, cost, reconciled, taken, forms>>

\* The subscriptions could not be read, or they do not cover the turn and the
\* user does not allow spending the balance.
DeferTurn(t, written) ==
    /\ step[t] = "serving"
    /\ step' = [step EXCEPT ![t] = IF written THEN "pending" ELSE "lost"]
    /\ UNCHANGED <<account, origin, plan, payer, cost, reconciled, taken, forms>>

ChargeTurn(t, rewarding) ==
    /\ step[t] = "serving"
    /\ Spend(payer[t], cost[t], rewarding)
    /\ step' = [step EXCEPT ![t] = "charged"]
    /\ taken' = [taken EXCEPT ![t] = @ + cost[t]]
    /\ UNCHANGED <<plan, payer, cost, reconciled, forms>>

\* The balance went to other spending while the turn was served.
InsufficientTurn(t) ==
    /\ step[t] = "serving"
    /\ quota[payer[t]] < cost[t]
    /\ step' = [step EXCEPT ![t] = "pending"]
    /\ UNCHANGED <<account, origin, plan, payer, cost, reconciled, taken, forms>>

\* The transaction of the charge is rolled back.  Media handlers then write a
\* pending entry (OnTxFailed), in three attempts; text turns write only to the
\* log.
ChargeFault(t, written) ==
    /\ step[t] = "serving"
    /\ written => t \in Media
    /\ step' = [step EXCEPT ![t] = IF written THEN "pending" ELSE "lost"]
    /\ UNCHANGED <<account, origin, plan, payer, cost, reconciled, taken, forms>>

\* mutant: no unique index of the reconciliation rows
AdminReconcileBillingEntryAgain(t, result, rewarding) ==
    /\ step[t] = "pending"
    /\ reconciled' = [reconciled EXCEPT ![t] = result]
    /\ IF result = "charged"
       THEN /\ Spend(payer[t], cost[t], rewarding)
            /\ taken' = [taken EXCEPT ![t] = @ + cost[t]]
       ELSE UNCHANGED <<account, origin, taken>>
    /\ UNCHANGED <<plan, step, payer, cost, forms>>

\* An admin settles a pending entry.  The entry keeps its state; that it is
\* settled once rests on the unique index of the reconciliation rows.
AdminReconcileBillingEntry(t, result, rewarding) ==
    /\ step[t] = "pending"
    /\ reconciled[t] = "none"
    /\ reconciled' = [reconciled EXCEPT ![t] = result]
    /\ IF result = "charged"
       THEN /\ Spend(payer[t], cost[t], rewarding)
            /\ taken' = [taken EXCEPT ![t] = @ + cost[t]]
       ELSE UNCHANGED <<account, origin, taken>>
    /\ UNCHANGED <<plan, step, payer, cost, forms>>

-----------------------------------------------------------------------------
Init ==
    /\ quota = [u \in Users |-> 0]
    /\ paid = [u \in Users |-> 0]
    /\ topped = [u \in Users |-> 0]
    /\ orders = [u \in Users |-> 0]
    /\ attributed = [u \in Users |-> 0]
    /\ rewards = [u \in Users |-> 0]
    /\ lowest = [u \in Users |-> 0]
    /\ status = [p \in Plans |-> "none"]
    /\ owner = [p \in Plans |-> NoOne]
    /\ price = [p \in Plans |-> 0]
    /\ granted = [p \in Plans |-> FALSE]
    /\ step = [t \in Turns |-> "idle"]
    /\ payer = [t \in Turns |-> NoOne]
    /\ cost = [t \in Turns |-> 0]
    /\ reconciled = [t \in Turns |-> "none"]
    /\ taken = [t \in Turns |-> 0]
    /\ forms = {}

UserStep(u) ==
    \/ \E a \in Amounts, byOrder \in BOOLEAN : Topup(u, a, byOrder)
    \/ \E a \in Amounts : BonusCredit(u, a)
    \/ \E m \in 0 .. orders[u], reclaim \in BOOLEAN : AdminRefundTopup(u, m, reclaim)
    \/ \E next \in Settings : BulkSet(u, next)
    \/ \E a \in Amounts : BulkAdd(u, a) \/ BulkSub(u, a)
    \/ \E bought \in SUBSET Plans, first \in Plans, unit, firstUnit \in Prices,
          rewarding \in BOOLEAN : Purchase(u, bought, first, unit, firstUnit, rewarding)

PlanStep(p) ==
    \/ \E u \in Users : AdminGrantSubscription(u, p)
    \/ AdminRevokeGrantedSubscription(p)
    \/ CancelSubscription(p)
    \/ ExpireSubscription(p)
    \/ \E a \in 1 .. price[p] : AdminRefundSubscription(p, a)

TurnStep(t) ==
    \/ \E u \in Users, c \in Costs : StartTurn(t, u, c)
    \/ CoverTurn(t)
    \/ \E written \in BOOLEAN : DeferTurn(t, written) \/ ChargeFault(t, written)
    \/ \E rewarding \in BOOLEAN : ChargeTurn(t, rewarding)
    \/ InsufficientTurn(t)
    \/ \E result \in Result, rewarding \in BOOLEAN :
          AdminReconcileBillingEntry(t, result, rewarding)

EditStep ==
    \/ \E u \in Users, next \in Settings : BeginEdit(u, next)
    \/ \E f \in forms : UpdateUser(f)

Next ==
    \/ \E u \in Users : UserStep(u)
    \/ EditStep
    \/ \E p \in Plans : PlanStep(p)
    \/ \E t \in Turns : TurnStep(t)

Spec == Init /\ [][Next]_vars

-----------------------------------------------------------------------------
(* Properties *)

\* Types of the rows and counters; paid_quota is never negative.
TypeOK ==
    /\ quota \in [Users -> Int] /\ lowest \in [Users -> Int]
    /\ paid \in [Users -> Nat] /\ topped \in [Users -> Nat]
    /\ orders \in [Users -> Nat] /\ attributed \in [Users -> Nat]
    /\ rewards \in [Users -> Nat]
    /\ status \in [Plans -> PlanStatus]
    /\ owner \in [Plans -> Users \cup {NoOne}]
    /\ price \in [Plans -> Nat] /\ granted \in [Plans -> BOOLEAN]
    /\ step \in [Turns -> Step]
    /\ payer \in [Turns -> Users \cup {NoOne}]
    /\ cost \in [Turns -> Nat]
    /\ reconciled \in [Turns -> Result \cup {"none"}]
    /\ taken \in [Turns -> Nat]
    /\ forms \subseteq [user : Users, next : Settings, protected : BOOLEAN]

\* paid_quota is covered by the balance, less the deepest debt the user was ever
\* in: only a refund of a top-up can bring the balance below the user's own
\* money; no adjustment, purchase or charge does, in any order.
PaidIsBacked == \A u \in Users : paid[u] <= quota[u] - lowest[u]

\* A user with a negative balance holds no subscription they paid for: the guard
\* of the reclaim, the guards of purchase and charge and the protection of
\* paid_quota together leave no other way below zero.
DebtHasNoPlan ==
    \A u \in Users : quota[u] < 0 =>
        \A p \in Plans : BlocksReclaim(p, u) => price[p] = 0

\* Money is rewarded once: whatever is bought, given back, bought again, refunded
\* or adjusted in between, a referrer receives at most their rate of what the
\* invited user topped up.
RewardsBacked == \A u \in Users : rewards[u] * BpsBase <= Bps * topped[u]

\* A turn is charged at most once, by its own transaction or by an admin who
\* settles its pending entry.
ChargedOnce == \A t \in Turns : taken[t] <= cost[t]
=============================================================================
