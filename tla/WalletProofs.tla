---------------------------- MODULE WalletProofs ----------------------------
(***************************************************************************)
(* Theorems about Wallet, for every set of users, subscriptions and turns, *)
(* all amounts, prices and costs, every rate and every pair of bounds.     *)
(***************************************************************************)
EXTENDS Wallet, FiniteSetTheorems, TLAPS

AccountType ==
    /\ quota \in [Users -> Int] /\ lowest \in [Users -> Int]

OriginType ==
    /\ paid \in [Users -> Nat] /\ topped \in [Users -> Nat]
    /\ orders \in [Users -> Nat] /\ attributed \in [Users -> Nat]
    /\ rewards \in [Users -> Nat]

PlanType ==
    /\ status \in [Plans -> PlanStatus]
    /\ owner \in [Plans -> Users \cup {NoOne}]
    /\ price \in [Plans -> Nat] /\ granted \in [Plans -> BOOLEAN]

TurnType ==
    /\ step \in [Turns -> Step]
    /\ payer \in [Turns -> Users \cup {NoOne}]
    /\ cost \in [Turns -> Nat]
    /\ reconciled \in [Turns -> Result \cup {"none"}]
    /\ taken \in [Turns -> Nat]

FormType == forms \subseteq [user : Users, next : Settings, protected : BOOLEAN]

\* A row in use belongs to a user.
PlanHasOwner == \A p \in Plans : status[p] # "none" => owner[p] \in Users
TurnHasPayer == \A t \in Turns : step[t] # "idle" => payer[t] \in Users

\* paid_quota is backed, and lowest is what it says.
FloorInv == \A u \in Users : /\ paid[u] <= quota[u] - lowest[u]
                             /\ lowest[u] <= quota[u]
                             /\ lowest[u] <= 0

\* What was counted as paid spending and what is still to be spent are parts of
\* the top-ups.
RewardInv == \A u \in Users : /\ attributed[u] + paid[u] <= topped[u]
                              /\ rewards[u] * BpsBase <= Bps * attributed[u]

\* Where a charge of a turn can have come from.
TurnInv == \A t \in Turns :
    /\ step[t] \in {"idle", "serving"} => taken[t] = 0
    /\ step[t] = "pending" /\ reconciled[t] = "none" => taken[t] = 0
    /\ taken[t] <= cost[t]
    /\ step[t] # "pending" => reconciled[t] = "none"

MoneyInv == AccountType /\ OriginType /\ FloorInv /\ RewardInv
RowInv == PlanType /\ TurnType /\ PlanHasOwner /\ TurnHasPayer /\ TurnInv

IInv == MoneyInv /\ RowInv /\ DebtHasNoPlan

-----------------------------------------------------------------------------
(* Arithmetic *)

\* The reward rounds down.
LEMMA RewardWithinRate ==
    ASSUME NEW e \in Nat, WalletAssumption
    PROVE  /\ (e * Bps) \div BpsBase \in Nat
           /\ ((e * Bps) \div BpsBase) * BpsBase <= Bps * e
<1>1. Bps \in Nat /\ BpsBase \in Nat /\ BpsBase > 0
  BY DEF WalletAssumption
<1>2. e * Bps \in Nat
  BY <1>1, SMT
<1> DEFINE x == e * Bps
<1>3. x \in Nat BY <1>2
<1> HIDE DEF x
<1>4. x \div BpsBase \in Nat /\ (x \div BpsBase) * BpsBase <= x
  BY <1>1, <1>3, SMT
<1>5. x = Bps * e
  BY <1>1, SMT DEF x
<1> QED BY <1>4, <1>5 DEF x

\* Amounts rewarded at the rate add up within the rate.
LEMMA RatesAdd ==
    ASSUME NEW r \in Nat, NEW s \in Nat, NEW a \in Nat, NEW e \in Nat,
           NEW k \in Nat, NEW b \in Nat,
           r * b <= k * a, s * b <= k * e
    PROVE  (r + s) * b <= k * (a + e)
<1>1. (r + s) * b = r * b + s * b /\ k * (a + e) = k * a + k * e
  BY SMT
<1>2. r * b \in Nat /\ s * b \in Nat /\ k * a \in Nat /\ k * e \in Nat
  BY SMT
<1> QED BY <1>1, <1>2, SMT

\* A larger base only allows more.
LEMMA RateGrows ==
    ASSUME NEW r \in Nat, NEW a \in Nat, NEW d \in Nat,
           NEW k \in Nat, NEW b \in Nat,
           r * b <= k * a, a <= d
    PROVE  r * b <= k * d
<1>1. k * a <= k * d
  BY SMT
<1>2. r * b \in Nat /\ k * a \in Nat /\ k * d \in Nat
  BY SMT
<1> QED BY <1>1, <1>2, SMT

-----------------------------------------------------------------------------
(* How money moves *)

\* A flow adds to the balances, and the lowest balance follows.
LEMMA MoveAdds ==
    ASSUME AccountType, NEW flow \in [Users -> Int], Move(flow)
    PROVE  /\ AccountType'
           /\ \A v \in Users : /\ quota'[v] = quota[v] + flow[v]
                               /\ lowest'[v] = Lesser(lowest[v], quota'[v])
BY SMT DEF AccountType, Move, Lesser

\* The floor holds after a change of balances if paid_quota follows it.
LEMMA MoveKeepsFloor ==
    ASSUME AccountType, NEW flow \in [Users -> Int], Move(flow),
           OriginType, FloorInv, paid' \in [Users -> Nat],
           \A v \in Users : paid'[v] <= quota[v] + flow[v] - lowest[v] \/ paid'[v] = 0
    PROVE  FloorInv'
<1>1. /\ AccountType'
      /\ \A v \in Users : /\ quota'[v] = quota[v] + flow[v]
                          /\ lowest'[v] = Lesser(lowest[v], quota'[v])
  BY MoveAdds
<1>2. ASSUME NEW v \in Users
      PROVE  /\ paid'[v] <= quota'[v] - lowest'[v]
             /\ lowest'[v] <= quota'[v]
             /\ lowest'[v] <= 0
  BY <1>1, SMT DEF AccountType, FloorInv, Lesser
<1> QED BY <1>2 DEF FloorInv

\* A change of one balance is a flow.
LEMMA OnlyIsFlow ==
    ASSUME NEW u, NEW a \in Int
    PROVE  /\ Only(u, a) \in [Users -> Int]
           /\ \A v \in Users : Only(u, a)[v] = IF v = u THEN a ELSE 0
BY SMT DEF Only

\* What is counted as paid spending, and what is kept.
LEMMA SpendSplits ==
    ASSUME AccountType, OriginType, NEW u \in Users, NEW spent \in Nat,
           quota[u] >= spent
    PROVE  /\ Kept(u, spent) \in Nat
           /\ Kept(u, spent) <= quota[u] - spent
           /\ Eligible(u, spent) \in Nat
           /\ Eligible(u, spent) + Kept(u, spent) <= paid[u]
BY SMT DEF AccountType, OriginType, Kept, Eligible, Lesser, Greater

\* The reward is within the rate of the paid spending.
LEMMA RewardBounded ==
    ASSUME WalletAssumption, AccountType, OriginType, NEW u \in Users,
           NEW spent \in Nat, quota[u] >= spent, NEW rewarding \in BOOLEAN
    PROVE  /\ Reward(u, spent, rewarding) \in Nat
           /\ Reward(u, spent, rewarding) * BpsBase <= Bps * Eligible(u, spent)
<1>1. Eligible(u, spent) \in Nat
  BY SpendSplits
<1>2. CASE rewarding /\ Referrer[u] \notin {NoOne, u}
  BY <1>1, <1>2, RewardWithinRate DEF Reward
<1>3. CASE ~(rewarding /\ Referrer[u] \notin {NoOne, u})
  <2>1. Reward(u, spent, rewarding) = 0
    BY <1>3 DEF Reward
  <2>2. Bps \in Nat /\ BpsBase \in Nat
    BY DEF WalletAssumption
  <2>3. 0 * BpsBase = 0 /\ Bps * Eligible(u, spent) \in Nat
    BY <1>1, <2>2, SMT
  <2> QED BY <2>1, <2>3, SMT
<1> QED BY <1>2, <1>3

\* Spending and its reward keep the invariant of the money; no balance becomes
\* negative by it.
LEMMA SpendKeepsMoney ==
    ASSUME WalletAssumption, MoneyInv, NEW u \in Users, NEW spent \in Nat,
           NEW rewarding \in BOOLEAN, Spend(u, spent, rewarding)
    PROVE  /\ MoneyInv'
           /\ \A v \in Users : quota'[v] < 0 => quota[v] < 0
<1> DEFINE reward == Reward(u, spent, rewarding)
           flow == Flow(u, spent, reward)
           kept == Kept(u, spent)
           eligible == Eligible(u, spent)
<1> USE DEF MoneyInv
<1>1. /\ quota[u] >= spent
      /\ Move(flow)
      /\ paid' = [paid EXCEPT ![u] = kept]
      /\ attributed' = [attributed EXCEPT ![u] = attributed[u] + eligible]
      /\ rewards' = [rewards EXCEPT ![u] = rewards[u] + reward]
      /\ topped' = topped /\ orders' = orders
  BY DEF Spend
<1>2. /\ kept \in Nat /\ kept <= quota[u] - spent
      /\ eligible \in Nat /\ eligible + kept <= paid[u]
  BY <1>1, SpendSplits
<1>3. reward \in Nat /\ reward * BpsBase <= Bps * eligible
  BY <1>1, RewardBounded
<1> HIDE DEF kept, eligible, reward
<1>4. /\ flow \in [Users -> Int]
      /\ flow[u] = -spent
      /\ \A v \in Users : v # u => flow[v] >= 0
  BY <1>3, SMT DEF Flow
<1> HIDE DEF flow
<1>5. /\ AccountType'
      /\ \A v \in Users : quota'[v] = quota[v] + flow[v]
  BY <1>1, <1>4, MoveAdds
<1>6. OriginType'
  BY <1>1, <1>2, <1>3, SMT DEF OriginType
<1>7. FloorInv'
  <2>1. \A v \in Users : paid'[v] <= quota[v] + flow[v] - lowest[v]
    <3>1. ASSUME NEW v \in Users, v # u
          PROVE  paid'[v] <= quota[v] + flow[v] - lowest[v]
      <4>1. paid'[v] = paid[v]
        BY <1>1, <3>1 DEF OriginType
      <4>2. flow[v] >= 0 /\ flow[v] \in Int
        BY <1>4, <3>1
      <4>3. paid[v] <= quota[v] - lowest[v]
        BY DEF FloorInv
      <4>4. quota[v] \in Int /\ lowest[v] \in Int /\ paid[v] \in Nat
        BY DEF AccountType, OriginType
      <4> QED BY <4>1, <4>2, <4>3, <4>4, SMT
    <3>2. paid'[u] <= quota[u] + flow[u] - lowest[u]
      BY <1>1, <1>2, <1>4, SMT DEF AccountType, OriginType, FloorInv
    <3> QED BY <3>1, <3>2
  <2>2. paid' \in [Users -> Nat]
    BY <1>6 DEF OriginType
  <2> QED BY <1>1, <1>4, <2>1, <2>2, MoveKeepsFloor
<1>8. RewardInv'
  <2>1. Bps \in Nat /\ BpsBase \in Nat
    BY DEF WalletAssumption
  <2>2. (rewards[u] + reward) * BpsBase <= Bps * (attributed[u] + eligible)
    BY <1>2, <1>3, <2>1, RatesAdd DEF OriginType, RewardInv
  <2>3. ASSUME NEW v \in Users, v # u
        PROVE  /\ attributed'[v] + paid'[v] <= topped'[v]
               /\ rewards'[v] * BpsBase <= Bps * attributed'[v]
    <3>1. /\ attributed'[v] = attributed[v] /\ paid'[v] = paid[v]
          /\ topped'[v] = topped[v] /\ rewards'[v] = rewards[v]
      BY <1>1, <2>3, SMT DEF OriginType
    <3> QED BY <3>1 DEF RewardInv
  <2>4. attributed'[u] + paid'[u] <= topped'[u]
    BY <1>1, <1>2, SMT DEF OriginType, RewardInv
  <2>5. rewards'[u] = rewards[u] + reward /\ attributed'[u] = attributed[u] + eligible
    BY <1>1 DEF OriginType
  <2> QED BY <2>2, <2>3, <2>4, <2>5 DEF RewardInv
<1>9. \A v \in Users : quota'[v] < 0 => quota[v] < 0
  BY <1>1, <1>4, <1>5, SMT DEF AccountType
<1> QED BY <1>5, <1>6, <1>7, <1>8, <1>9

\* A change of balances with the origins as they were.
LEMMA MoveKeepsMoney ==
    ASSUME MoneyInv, NEW flow \in [Users -> Int], Move(flow),
           UNCHANGED origin,
           \A v \in Users : paid[v] <= quota[v] + flow[v] - lowest[v] \/ paid[v] = 0
    PROVE  /\ MoneyInv'
           /\ \A v \in Users : quota'[v] = quota[v] + flow[v]
<1> USE DEF MoneyInv
<1>1. /\ AccountType'
      /\ \A v \in Users : quota'[v] = quota[v] + flow[v]
  BY MoveAdds
<1>2. OriginType' /\ RewardInv'
  BY DEF origin, OriginType, RewardInv
<1>3. paid' = paid /\ paid' \in [Users -> Nat]
  BY DEF origin, OriginType
<1>4. FloorInv'
  BY <1>3, MoveKeepsFloor
<1> QED BY <1>1, <1>2, <1>4

\* Nothing changes but rows.
LEMMA MoneyStays ==
    ASSUME MoneyInv, UNCHANGED <<account, origin>>
    PROVE  MoneyInv' /\ quota' = quota
BY DEF MoneyInv, account, origin, AccountType, OriginType, FloorInv,
       RewardInv

LEMMA RowsStay ==
    ASSUME RowInv, UNCHANGED <<plan, turn>>
    PROVE  RowInv'
BY DEF RowInv, plan, turn, PlanType, TurnType, PlanHasOwner, TurnHasPayer, TurnInv

LEMMA DebtsStay ==
    ASSUME DebtHasNoPlan, UNCHANGED plan,
           \A v \in Users : quota'[v] < 0 => quota[v] < 0
    PROVE  DebtHasNoPlan'
BY DEF DebtHasNoPlan, BlocksReclaim, plan

-----------------------------------------------------------------------------
(* The initial state *)

LEMMA InitInv ==
    ASSUME WalletAssumption, Init
    PROVE  IInv
<1>1. AccountType /\ OriginType /\ FloorInv
  BY SMT DEF Init, AccountType, OriginType, FloorInv
<1>2. RewardInv
  <2>1. Bps \in Nat /\ BpsBase \in Nat
    BY DEF WalletAssumption
  <2>2. 0 * BpsBase <= Bps * 0
    BY <2>1, SMT
  <2>3. \A u \in Users : /\ attributed[u] = 0 /\ paid[u] = 0
                         /\ topped[u] = 0 /\ rewards[u] = 0
    BY DEF Init
  <2> QED BY <2>2, <2>3, SMT DEF RewardInv
<1>3. PlanType /\ TurnType
  BY SMT DEF Init, PlanType, TurnType, PlanStatus, Step, Result
<1>4. PlanHasOwner /\ TurnHasPayer /\ TurnInv
  BY SMT DEF Init, PlanHasOwner, TurnHasPayer, TurnInv
<1>5. DebtHasNoPlan
  BY SMT DEF Init, DebtHasNoPlan
<1> QED BY <1>1, <1>2, <1>3, <1>4, <1>5 DEF IInv, MoneyInv, RowInv

-----------------------------------------------------------------------------
(* Credits and adjustments *)

LEMMA TopupInv ==
    ASSUME WalletAssumption, IInv, NEW u \in Users, NEW a \in Amounts,
           NEW byOrder \in BOOLEAN, Topup(u, a, byOrder)
    PROVE  IInv'
<1> USE DEF IInv, MoneyInv
<1> DEFINE flow == Only(u, a)
<1>1. a \in Nat
  BY DEF WalletAssumption
<1>2. /\ flow \in [Users -> Int]
      /\ \A v \in Users : flow[v] = IF v = u THEN a ELSE 0
  BY <1>1, OnlyIsFlow
<1>3. Move(flow)
  BY DEF Topup
<1> HIDE DEF flow
<1>4. /\ AccountType'
      /\ \A v \in Users : quota'[v] = quota[v] + flow[v]
  BY <1>2, <1>3, MoveAdds
<1>5. OriginType'
  BY <1>1, SMT DEF Topup, OriginType
<1>6. FloorInv'
  <2>1. \A v \in Users : paid'[v] <= quota[v] + flow[v] - lowest[v]
    BY <1>1, <1>2, SMT DEF Topup, AccountType, OriginType, FloorInv
  <2>2. paid' \in [Users -> Nat]
    BY <1>5 DEF OriginType
  <2> QED BY <1>2, <1>3, <2>1, <2>2, MoveKeepsFloor
<1>7. RewardInv'
  <2>1. ASSUME NEW v \in Users
        PROVE  attributed'[v] + paid'[v] <= topped'[v]
    BY <1>1, SMT DEF Topup, OriginType, RewardInv
  <2>2. rewards' = rewards /\ attributed' = attributed
    BY DEF Topup
  <2> QED BY <2>1, <2>2 DEF RewardInv
<1>8. RowInv'
  BY RowsStay DEF Topup
<1>9. DebtHasNoPlan'
  <2>1. \A v \in Users : quota'[v] < 0 => quota[v] < 0
    BY <1>1, <1>2, <1>4, SMT DEF AccountType
  <2> QED BY <2>1, DebtsStay DEF Topup
<1> QED BY <1>4, <1>5, <1>6, <1>7, <1>8, <1>9

\* A balance that is raised, or lowered to no less than paid_quota.
LEMMA AdjustInv ==
    ASSUME WalletAssumption, IInv, NEW u \in Users, NEW d \in Int,
           d >= 0 \/ quota[u] + d >= paid[u],
           Move(Only(u, d)), UNCHANGED <<origin, plan, turn>>
    PROVE  IInv'
<1> USE DEF IInv
<1>1. /\ Only(u, d) \in [Users -> Int]
      /\ \A v \in Users : Only(u, d)[v] = IF v = u THEN d ELSE 0
  BY OnlyIsFlow
<1>2. /\ quota \in [Users -> Int] /\ lowest \in [Users -> Int]
      /\ paid \in [Users -> Nat]
      /\ \A v \in Users : paid[v] <= quota[v] - lowest[v] /\ lowest[v] <= 0
  BY DEF MoneyInv, AccountType, OriginType, FloorInv
<1>3. \A v \in Users : paid[v] <= quota[v] + Only(u, d)[v] - lowest[v]
  BY <1>1, <1>2, SMT
<1>4. MoneyInv' /\ \A v \in Users : quota'[v] = quota[v] + Only(u, d)[v]
  BY <1>1, <1>3, MoveKeepsMoney
<1>5. RowInv'
  BY RowsStay
<1>6. \A v \in Users : quota'[v] < 0 => quota[v] < 0
  BY <1>1, <1>2, <1>4, SMT
<1>7. DebtHasNoPlan'
  BY <1>6, DebtsStay
<1> QED BY <1>4, <1>5, <1>7

LEMMA AdminAdjustInv ==
    ASSUME WalletAssumption, IInv, NEW u \in Users,
           \/ \E a \in Amounts : BonusCredit(u, a) \/ BulkAdd(u, a) \/ BulkSub(u, a)
           \/ \E next \in Settings : SetQuota(u, next)
    PROVE  IInv'
<1>1. quota[u] \in Int /\ paid[u] \in Nat
  BY DEF IInv, MoneyInv, AccountType, OriginType
<1>2. ASSUME NEW a \in Amounts, BonusCredit(u, a)
      PROVE  IInv'
  <2>1. a \in Int /\ a >= 0
    BY DEF WalletAssumption
  <2> QED BY <1>2, <2>1, AdjustInv DEF BonusCredit
<1>3. ASSUME NEW a \in Amounts, BulkAdd(u, a)
      PROVE  IInv'
  <2>1. a \in Int /\ a >= 0
    BY DEF WalletAssumption
  <2> DEFINE d == Greater(quota[u] + a, 0) - quota[u]
  <2>2. d \in Int /\ d >= 0
    BY <1>1, <2>1, SMT DEF Greater
  <2>3. Move(Only(u, d)) /\ UNCHANGED <<origin, plan, turn>>
    BY <1>3 DEF BulkAdd
  <2> QED BY <2>2, <2>3, AdjustInv
<1>4. ASSUME NEW a \in Amounts, BulkSub(u, a)
      PROVE  IInv'
  <2>1. a \in Int /\ a >= 0
    BY DEF WalletAssumption
  <2> DEFINE next == IF quota[u] <= paid[u] THEN quota[u]
                     ELSE Greater(quota[u] - a, paid[u])
             d == next - quota[u]
  <2>2. d \in Int /\ (d >= 0 \/ quota[u] + d >= paid[u])
    BY <1>1, <2>1, SMT DEF Greater
  <2>3. Move(Only(u, d)) /\ UNCHANGED <<origin, plan, turn>>
    BY <1>4 DEF BulkSub
  <2> HIDE DEF d
  <2> QED BY <2>2, <2>3, AdjustInv
<1>5. ASSUME NEW next \in Settings, SetQuota(u, next)
      PROVE  IInv'
  <2> DEFINE d == next - quota[u]
  <2>1. next \in Int
    BY DEF WalletAssumption
  <2>2. d \in Int /\ (d >= 0 \/ quota[u] + d >= paid[u])
    BY <1>1, <1>5, <2>1, SMT DEF SetQuota, Protects
  <2>3. Move(Only(u, d)) /\ UNCHANGED <<origin, plan, turn>>
    BY <1>5 DEF SetQuota
  <2> HIDE DEF d
  <2> QED BY <2>2, <2>3, AdjustInv
<1> QED BY <1>2, <1>3, <1>4, <1>5

\* A refund takes from paid_quota what it takes from the balance, and makes debt
\* only where nothing bought is left.
LEMMA AdminRefundTopupInv ==
    ASSUME WalletAssumption, IInv, NEW u \in Users, NEW m \in Nat,
           NEW reclaim \in BOOLEAN, AdminRefundTopup(u, m, reclaim)
    PROVE  IInv'
<1> USE DEF IInv, MoneyInv
<1> DEFINE d == IF reclaim THEN -m ELSE 0
           flow == Only(u, d)
           less == IF paid[u] >= m THEN paid[u] - m ELSE 0
<1>1. /\ d \in Int /\ (reclaim => d = -m) /\ (~reclaim => d = 0)
      /\ m <= orders[u]
      /\ orders' = [orders EXCEPT ![u] = orders[u] - m]
      /\ paid' = [paid EXCEPT ![u] = less]
      /\ Move(flow)
      /\ UNCHANGED <<topped, attributed, rewards, plan, turn>>
      /\ reclaim => \A p \in Plans : ~BlocksReclaim(p, u)
  BY DEF AdminRefundTopup
<1>2. paid[u] \in Nat
  BY DEF OriginType
<1>3. less \in Nat /\ less <= paid[u] /\ (less = 0 \/ less = paid[u] - m)
  BY <1>2, SMT
<1> HIDE DEF d, less
<1>4. /\ flow \in [Users -> Int]
      /\ \A v \in Users : flow[v] = IF v = u THEN d ELSE 0
  BY <1>1, OnlyIsFlow
<1> HIDE DEF flow
<1>5. /\ AccountType'
      /\ \A v \in Users : quota'[v] = quota[v] + flow[v]
  BY <1>1, <1>4, MoveAdds
<1>6. OriginType'
  BY <1>1, <1>3, SMT DEF OriginType
<1>7. \A v \in Users : /\ paid'[v] <= paid[v]
                       /\ v # u => paid'[v] = paid[v]
                       /\ v = u => paid'[v] = less
  BY <1>1, <1>3, SMT DEF OriginType
<1>8. FloorInv'
  <2>1. /\ quota \in [Users -> Int] /\ lowest \in [Users -> Int]
        /\ paid \in [Users -> Nat]
        /\ \A v \in Users : paid[v] <= quota[v] - lowest[v]
    BY DEF AccountType, OriginType, FloorInv
  <2>2. d = 0 \/ d = -m
    BY <1>1
  <2>3. \A v \in Users : paid'[v] <= quota[v] + flow[v] - lowest[v] \/ paid'[v] = 0
    BY <1>3, <1>4, <1>7, <2>1, <2>2, SMT
  <2>4. paid' \in [Users -> Nat]
    BY <1>6 DEF OriginType
  <2> QED BY <1>1, <1>4, <2>3, <2>4, MoveKeepsFloor
<1>9. RewardInv'
  <2>1. ASSUME NEW v \in Users
        PROVE  attributed'[v] + paid'[v] <= topped'[v]
    BY <1>1, <1>6, <1>7, SMT DEF OriginType, RewardInv
  <2>2. rewards' = rewards /\ attributed' = attributed
    BY <1>1
  <2> QED BY <2>1, <2>2 DEF RewardInv
<1>10. RowInv'
  BY <1>1, RowsStay
<1>11. DebtHasNoPlan'
  <2>1. CASE reclaim
    <3>1. \A v \in Users : v # u => (quota'[v] < 0 => quota[v] < 0)
      BY <1>4, <1>5, SMT DEF AccountType
    <3>2. \A p \in Plans, v \in Users : BlocksReclaim(p, v)' <=> BlocksReclaim(p, v)
      BY <1>1 DEF BlocksReclaim, plan
    <3>3. price' = price
      BY <1>1 DEF plan
    <3> QED BY <1>1, <2>1, <3>1, <3>2, <3>3 DEF DebtHasNoPlan
  <2>2. CASE ~reclaim
    <3>1. \A v \in Users : quota'[v] < 0 => quota[v] < 0
      BY <1>1, <1>4, <1>5, <2>2, SMT DEF AccountType
    <3> QED BY <1>1, <3>1, DebtsStay
  <2> QED BY <2>1, <2>2
<1> QED BY <1>5, <1>6, <1>8, <1>9, <1>10, <1>11

-----------------------------------------------------------------------------
(* Subscriptions *)

\* Rows of turns do not depend on subscriptions.
LEMMA TurnsStay ==
    ASSUME TurnType, TurnHasPayer, TurnInv, UNCHANGED turn
    PROVE  TurnType' /\ TurnHasPayer' /\ TurnInv'
BY DEF turn, TurnType, TurnHasPayer, TurnInv

\* What a purchase costs.
LEMMA TotalIsNat ==
    ASSUME WalletAssumption, NEW bought \in SUBSET Plans, NEW first \in bought,
           NEW unit \in Nat, NEW firstUnit \in Nat,
           firstUnit = unit \/ firstUnit \in 1 .. unit
    PROVE  LET total == firstUnit + (Cardinality(bought) - 1) * unit
           IN  /\ total \in Nat
               /\ total > 0 \/ (firstUnit = 0 /\ unit = 0)
<1>1. IsFiniteSet(bought)
  BY FS_Subset DEF WalletAssumption
<1>2. Cardinality(bought) \in Nat /\ Cardinality(bought) # 0
  BY <1>1, FS_CardinalityType, FS_EmptySet
<1> DEFINE n == Cardinality(bought) - 1
<1>3. n \in Nat
  BY <1>2, SMT
<1> HIDE DEF n
<1>4. n * unit \in Nat
  BY <1>3, SMT
<1>5. firstUnit + n * unit \in Nat /\ (firstUnit + n * unit > 0 \/ firstUnit = 0)
  BY <1>4, SMT
<1>6. firstUnit = 0 => unit = 0
  BY SMT
<1> QED BY <1>5, <1>6 DEF n

LEMMA PurchaseInv ==
    ASSUME WalletAssumption, IInv, NEW u \in Users, NEW bought \in SUBSET Plans,
           NEW first \in Plans, NEW unit \in Prices, NEW firstUnit \in Prices,
           NEW rewarding \in BOOLEAN,
           Purchase(u, bought, first, unit, firstUnit, rewarding)
    PROVE  IInv'
<1> USE DEF IInv
<1> DEFINE total == firstUnit + (Cardinality(bought) - 1) * unit
<1>1. unit \in Nat /\ firstUnit \in Nat
  BY DEF WalletAssumption
<1>2. /\ first \in bought
      /\ \A p \in bought : status[p] = "none"
      /\ firstUnit = unit \/ firstUnit \in 1 .. unit
      /\ IF total > 0 THEN Spend(u, total, rewarding)
         ELSE UNCHANGED <<account, origin>>
      /\ UNCHANGED <<granted, turn>>
  BY DEF Purchase
<1>3. total \in Nat /\ (total > 0 \/ (firstUnit = 0 /\ unit = 0))
  BY <1>1, <1>2, TotalIsNat
<1> HIDE DEF total
<1>4. /\ \A p \in Plans : status'[p] = IF p \in bought THEN "active" ELSE status[p]
      /\ \A p \in Plans : owner'[p] = IF p \in bought THEN u ELSE owner[p]
      /\ \A p \in Plans : p \notin bought => price'[p] = price[p]
      /\ \A p \in bought : price'[p] \in {firstUnit, unit}
  <2>1. \A p \in Plans : price'[p] = CASE p = first -> firstUnit
                                       [] p \in bought \ {first} -> unit
                                       [] OTHER -> price[p]
    BY DEF Purchase
  <2> QED BY <1>2, <2>1 DEF Purchase
<1>5. PlanType'
  <2>1. status' \in [Plans -> PlanStatus]
    BY SMT DEF Purchase, RowInv, PlanType, PlanStatus
  <2>2. owner' \in [Plans -> Users \cup {NoOne}]
    BY SMT DEF Purchase, RowInv, PlanType
  <2>3. price' \in [Plans -> Nat]
    <3>1. price \in [Plans -> Nat]
      BY DEF RowInv, PlanType
    <3>2. price' = [p \in Plans |-> CASE p = first -> firstUnit
                                      [] p \in bought \ {first} -> unit
                                      [] OTHER -> price[p]]
      BY DEF Purchase
    <3>3. \A p \in Plans : price'[p] \in Nat
      BY <1>1, <1>4, <3>1
    <3> QED BY <3>2, <3>3
  <2>4. granted' \in [Plans -> BOOLEAN]
    BY <1>2 DEF RowInv, PlanType
  <2> QED BY <2>1, <2>2, <2>3, <2>4 DEF PlanType
<1>6. PlanHasOwner'
  BY <1>4 DEF RowInv, PlanHasOwner
<1>7. RowInv'
  BY <1>2, <1>5, <1>6, TurnsStay DEF RowInv
<1>8. CASE total > 0
  <2>1. Spend(u, total, rewarding)
    BY <1>2, <1>8
  <2>2. MoneyInv' /\ \A v \in Users : quota'[v] < 0 => quota[v] < 0
    BY <1>3, <2>1, SpendKeepsMoney
  <2>3. quota[u] >= total
    BY <2>1 DEF Spend
  <2>4. quota[u] \in Int
    BY DEF MoneyInv, AccountType
  <2>5. ~(quota[u] < 0)
    BY <1>3, <2>3, <2>4, SMT
  <2>6. ASSUME NEW v \in Users, quota'[v] < 0, NEW p \in Plans, BlocksReclaim(p, v)'
        PROVE  price'[p] = 0
    <3>1. quota[v] < 0 /\ v # u
      BY <2>2, <2>5, <2>6
    <3>2. owner'[p] = v /\ status'[p] \notin {"none", "refunded"} /\ ~granted'[p]
      BY <2>6 DEF BlocksReclaim
    <3>3. p \notin bought
      BY <1>4, <3>1, <3>2
    <3>4. BlocksReclaim(p, v)
      BY <1>2, <1>4, <3>2, <3>3 DEF BlocksReclaim
    <3> QED BY <1>4, <3>1, <3>3, <3>4 DEF DebtHasNoPlan
  <2>7. DebtHasNoPlan'
    BY <2>6 DEF DebtHasNoPlan
  <2> QED BY <1>7, <2>2, <2>7
<1>9. CASE ~(total > 0)
  <2>1. firstUnit = 0 /\ unit = 0 /\ UNCHANGED <<account, origin>>
    BY <1>2, <1>3, <1>9
  <2>3. MoneyInv' /\ quota' = quota
    BY <2>1, MoneyStays
  <2>4. ASSUME NEW v \in Users, quota'[v] < 0, NEW p \in Plans, BlocksReclaim(p, v)'
        PROVE  price'[p] = 0
    <3>1. CASE p \in bought
      BY <1>4, <2>1, <3>1
    <3>2. CASE p \notin bought
      <4>1. BlocksReclaim(p, v)
        BY <1>2, <1>4, <2>4, <3>2 DEF BlocksReclaim
      <4> QED BY <1>4, <2>3, <2>4, <3>2, <4>1 DEF DebtHasNoPlan
    <3> QED BY <3>1, <3>2
  <2>5. DebtHasNoPlan'
    BY <2>4 DEF DebtHasNoPlan
  <2> QED BY <1>7, <2>3, <2>5
<1> QED BY <1>8, <1>9

\* Rows that change their status keep the invariant of the rows.
LEMMA PlanStepInv ==
    ASSUME WalletAssumption, IInv, NEW p \in Plans, PlanStep(p)
    PROVE  IInv'
<1> USE DEF IInv
<1>1. PlanType /\ PlanHasOwner
  BY DEF RowInv
<1>2. quota \in [Users -> Int]
  BY DEF MoneyInv, AccountType
<1>3. ASSUME NEW s \in {"canceled", "expired", "revoked"},
             status[p] = "active", status' = [status EXCEPT ![p] = s],
             UNCHANGED <<owner, price, granted, turn>>,
             MoneyInv', quota' = quota
      PROVE  IInv'
  <2>1. PlanType'
    BY <1>1, <1>3 DEF PlanType, PlanStatus
  <2>2. PlanHasOwner'
    BY <1>1, <1>3 DEF PlanType, PlanHasOwner
  <2>3. RowInv'
    BY <1>3, <2>1, <2>2, TurnsStay DEF RowInv
  <2>4. \A q \in Plans, v \in Users : BlocksReclaim(q, v)' => BlocksReclaim(q, v)
    BY <1>1, <1>3 DEF BlocksReclaim, PlanType
  <2>5. DebtHasNoPlan'
    BY <1>3, <2>4 DEF DebtHasNoPlan
  <2> QED BY <1>3, <2>3, <2>5
<1>4. ASSUME \/ CancelSubscription(p)
             \/ ExpireSubscription(p)
             \/ AdminRevokeGrantedSubscription(p)
      PROVE  IInv'
  <2>1. UNCHANGED <<account, origin>>
    BY <1>4 DEF CancelSubscription, ExpireSubscription, AdminRevokeGrantedSubscription
  <2>2. MoneyInv' /\ quota' = quota
    BY <2>1, MoneyStays
  <2> QED BY <1>3, <1>4, <2>2 DEF CancelSubscription, ExpireSubscription,
                                  AdminRevokeGrantedSubscription
<1>6. ASSUME NEW u \in Users, AdminGrantSubscription(u, p)
      PROVE  IInv'
  <2>1. /\ status' = [status EXCEPT ![p] = "active"]
        /\ owner' = [owner EXCEPT ![p] = u]
        /\ granted' = [granted EXCEPT ![p] = TRUE]
        /\ price' = price /\ UNCHANGED turn
        /\ UNCHANGED <<account, origin>>
    BY <1>6 DEF AdminGrantSubscription
  <2>3. MoneyInv' /\ quota' = quota
    BY <2>1, MoneyStays
  <2>4. PlanType'
    BY <1>1, <2>1 DEF PlanType, PlanStatus
  <2>5. PlanHasOwner'
    BY <1>1, <2>1 DEF PlanType, PlanHasOwner
  <2>6. RowInv'
    BY <2>1, <2>4, <2>5, TurnsStay DEF RowInv
  <2>7. \A q \in Plans, v \in Users : BlocksReclaim(q, v)' => BlocksReclaim(q, v)
    BY <1>1, <2>1 DEF BlocksReclaim, PlanType
  <2>8. DebtHasNoPlan'
    BY <2>1, <2>3, <2>7 DEF DebtHasNoPlan
  <2> QED BY <2>3, <2>6, <2>8
<1>7. ASSUME NEW a \in 1 .. price[p], AdminRefundSubscription(p, a)
      PROVE  IInv'
  <2> DEFINE u == owner[p]
             flow == Only(u, a)
  <2>1. /\ status[p] \in {"active", "canceled", "expired"}
        /\ status' = [status EXCEPT ![p] = "refunded"]
        /\ Move(flow)
        /\ UNCHANGED <<origin, owner, price, granted, turn>>
    BY <1>7 DEF AdminRefundSubscription
  <2>2. a \in Nat
    BY <1>1, <1>7 DEF PlanType
  <2>3. u \in Users
    BY <1>1, <2>1 DEF PlanHasOwner
  <2>4. /\ flow \in [Users -> Int]
        /\ \A v \in Users : flow[v] = IF v = u THEN a ELSE 0
    BY <2>2, OnlyIsFlow
  <2>5. \A v \in Users : flow[v] \in Nat
    BY <2>2, <2>4
  <2> HIDE DEF flow
  <2>6. /\ quota \in [Users -> Int] /\ lowest \in [Users -> Int]
        /\ paid \in [Users -> Nat]
        /\ \A v \in Users : paid[v] <= quota[v] - lowest[v]
    BY DEF MoneyInv, AccountType, OriginType, FloorInv
  <2>7. \A v \in Users : paid[v] <= quota[v] + flow[v] - lowest[v]
    BY <2>5, <2>6, SMT
  <2>8. MoneyInv' /\ \A v \in Users : quota'[v] = quota[v] + flow[v]
    BY <2>1, <2>4, <2>7, MoveKeepsMoney
  <2>9. \A v \in Users : quota'[v] < 0 => quota[v] < 0
    BY <2>5, <2>6, <2>8, SMT
  <2>10. PlanType'
    BY <1>1, <2>1 DEF PlanType, PlanStatus
  <2>11. PlanHasOwner'
    BY <1>1, <2>1 DEF PlanType, PlanHasOwner
  <2>12. RowInv'
    BY <2>1, <2>10, <2>11, TurnsStay DEF RowInv
  <2>13. \A q \in Plans, v \in Users : BlocksReclaim(q, v)' => BlocksReclaim(q, v)
    BY <1>1, <2>1 DEF BlocksReclaim, PlanType
  <2>14. DebtHasNoPlan'
    BY <2>1, <2>9, <2>13 DEF DebtHasNoPlan
  <2> QED BY <2>8, <2>12, <2>14
<1> QED BY <1>4, <1>6, <1>7 DEF PlanStep

-----------------------------------------------------------------------------
(* Turns *)

\* Rows of subscriptions do not depend on turns.
LEMMA PlansStay ==
    ASSUME PlanType, PlanHasOwner, UNCHANGED plan
    PROVE  PlanType' /\ PlanHasOwner'
BY DEF plan, PlanType, PlanHasOwner

\* A turn that is served leaves its step without a charge.
LEMMA TurnEnds ==
    ASSUME RowInv, NEW t \in Turns, NEW s \in {"covered", "pending", "lost"},
           step[t] = "serving", step' = [step EXCEPT ![t] = s],
           UNCHANGED <<plan, payer, cost, reconciled, taken>>
    PROVE  RowInv'
<1> USE DEF RowInv
<1>1. TurnType'
  BY DEF TurnType, Step
<1>2. TurnHasPayer'
  BY DEF TurnType, TurnHasPayer
<1>3. TurnInv'
  BY SMT DEF TurnType, TurnInv
<1> QED BY <1>1, <1>2, <1>3, PlansStay

\* A turn ends without a charge.
LEMMA UnchargedInv ==
    ASSUME WalletAssumption, IInv, NEW t \in Turns,
           \/ CoverTurn(t) \/ InsufficientTurn(t)
           \/ \E written \in BOOLEAN : DeferTurn(t, written) \/ ChargeFault(t, written)
    PROVE  IInv'
<1> USE DEF IInv
<1>1. /\ step[t] = "serving"
      /\ UNCHANGED <<account, origin, plan, payer, cost, reconciled, taken>>
      /\ \E s \in {"covered", "pending", "lost"} : step' = [step EXCEPT ![t] = s]
  BY DEF CoverTurn, DeferTurn, ChargeFault, InsufficientTurn
<1>4. MoneyInv' /\ quota' = quota
  BY <1>1, MoneyStays
<1>5. RowInv'
  BY <1>1, TurnEnds
<1>6. DebtHasNoPlan'
  BY <1>1, <1>4, DebtsStay
<1> QED BY <1>4, <1>5, <1>6

LEMMA StartTurnInv ==
    ASSUME IInv, NEW t \in Turns, NEW u \in Users, NEW c \in Nat, StartTurn(t, u, c)
    PROVE  IInv'
<1> USE DEF IInv
<1>1. /\ step[t] = "idle"
      /\ step' = [step EXCEPT ![t] = "serving"]
      /\ payer' = [payer EXCEPT ![t] = u]
      /\ cost' = [cost EXCEPT ![t] = c]
      /\ UNCHANGED <<account, origin, plan, reconciled, taken>>
  BY DEF StartTurn
<1>3. MoneyInv' /\ quota' = quota
  BY <1>1, MoneyStays
<1>4. TurnType'
  BY <1>1 DEF RowInv, TurnType, Step
<1>5. TurnHasPayer'
  BY <1>1 DEF RowInv, TurnType, TurnHasPayer
<1>6. TurnInv'
  BY <1>1, SMT DEF RowInv, TurnType, TurnInv
<1>7. RowInv'
  BY <1>1, <1>4, <1>5, <1>6, PlansStay DEF RowInv
<1>8. DebtHasNoPlan'
  BY <1>1, <1>3, DebtsStay
<1> QED BY <1>3, <1>7, <1>8

\* A charge is made where none was made before.
LEMMA ChargeTurnInv ==
    ASSUME WalletAssumption, IInv, NEW t \in Turns, NEW rewarding \in BOOLEAN,
           ChargeTurn(t, rewarding)
    PROVE  IInv'
<1> USE DEF IInv
<1>1. /\ step[t] = "serving"
      /\ Spend(payer[t], cost[t], rewarding)
      /\ step' = [step EXCEPT ![t] = "charged"]
      /\ taken' = [taken EXCEPT ![t] = taken[t] + cost[t]]
      /\ UNCHANGED <<plan, payer, cost, reconciled>>
  BY DEF ChargeTurn
<1>2. payer[t] \in Users /\ cost[t] \in Nat /\ taken[t] = 0
  BY <1>1 DEF RowInv, TurnHasPayer, TurnType, TurnInv
<1>3. MoneyInv' /\ \A v \in Users : quota'[v] < 0 => quota[v] < 0
  BY <1>1, <1>2, SpendKeepsMoney
<1>4. TurnType'
  BY <1>1, <1>2 DEF RowInv, TurnType, Step
<1>5. TurnHasPayer'
  BY <1>1 DEF RowInv, TurnType, TurnHasPayer
<1>6. TurnInv'
  BY <1>1, <1>2, SMT DEF RowInv, TurnType, TurnInv
<1>7. RowInv'
  BY <1>1, <1>4, <1>5, <1>6, PlansStay DEF RowInv
<1>8. DebtHasNoPlan'
  BY <1>1, <1>3, DebtsStay
<1> QED BY <1>3, <1>7, <1>8

LEMMA ReconcileInv ==
    ASSUME WalletAssumption, IInv, NEW t \in Turns, NEW result \in Result,
           NEW rewarding \in BOOLEAN, AdminReconcileBillingEntry(t, result, rewarding)
    PROVE  IInv'
<1> USE DEF IInv
<1>1. /\ step[t] = "pending" /\ reconciled[t] = "none"
      /\ reconciled' = [reconciled EXCEPT ![t] = result]
      /\ UNCHANGED <<plan, step, payer, cost>>
      /\ IF result = "charged"
         THEN /\ Spend(payer[t], cost[t], rewarding)
              /\ taken' = [taken EXCEPT ![t] = taken[t] + cost[t]]
         ELSE UNCHANGED <<account, origin, taken>>
  BY DEF AdminReconcileBillingEntry
<1>2. payer[t] \in Users /\ cost[t] \in Nat /\ taken[t] = 0
  BY <1>1 DEF RowInv, TurnHasPayer, TurnType, TurnInv
<1>3. MoneyInv' /\ \A v \in Users : quota'[v] < 0 => quota[v] < 0
  <2>1. CASE result = "charged"
    BY <1>1, <1>2, <2>1, SpendKeepsMoney
  <2>2. CASE result # "charged"
    BY <1>1, <2>2, MoneyStays
  <2> QED BY <2>1, <2>2
<1>4. taken' = taken \/ taken' = [taken EXCEPT ![t] = taken[t] + cost[t]]
  BY <1>1
<1>5. TurnType'
  BY <1>1, <1>2, <1>4 DEF RowInv, TurnType
<1>6. TurnHasPayer'
  BY <1>1 DEF RowInv, TurnHasPayer
<1>7. result # "none"
  BY DEF Result
<1>8. TurnInv'
  BY <1>1, <1>2, <1>4, <1>7, SMT DEF RowInv, TurnType, TurnInv
<1>9. RowInv'
  BY <1>1, <1>5, <1>6, <1>8, PlansStay DEF RowInv
<1>10. DebtHasNoPlan'
  BY <1>1, <1>3, DebtsStay
<1> QED BY <1>3, <1>9, <1>10

-----------------------------------------------------------------------------
(* The theorems *)

LEMMA NextInv ==
    ASSUME WalletAssumption, IInv, FormType, [Next]_vars
    PROVE  IInv'
<1>1. ASSUME NEW u \in Users, UserStep(u)
      PROVE  IInv'
  <2>1. CASE \E a \in Amounts, byOrder \in BOOLEAN : Topup(u, a, byOrder)
    BY <2>1, TopupInv
  <2>2. CASE \/ \E a \in Amounts : BonusCredit(u, a)
             \/ \E next \in Settings : BulkSet(u, next)
             \/ \E a \in Amounts : BulkAdd(u, a) \/ BulkSub(u, a)
    BY <2>2, AdminAdjustInv DEF BulkSet
  <2>3. ASSUME NEW m \in 0 .. orders[u], NEW reclaim \in BOOLEAN,
               AdminRefundTopup(u, m, reclaim)
        PROVE  IInv'
    <3>1. orders[u] \in Nat
      BY DEF IInv, MoneyInv, OriginType
    <3>2. m \in Nat
      BY <2>3, <3>1
    <3> QED BY <2>3, <3>2, AdminRefundTopupInv
  <2>4. ASSUME NEW bought \in SUBSET Plans, NEW first \in Plans, NEW unit \in Prices,
               NEW firstUnit \in Prices, NEW rewarding \in BOOLEAN,
               Purchase(u, bought, first, unit, firstUnit, rewarding)
        PROVE  IInv'
    BY <2>4, PurchaseInv
  <2>5. CASE \E m \in 0 .. orders[u], reclaim \in BOOLEAN :
                 AdminRefundTopup(u, m, reclaim)
    BY <2>3, <2>5
  <2>6. CASE \E bought \in SUBSET Plans, first \in Plans, unit, firstUnit \in Prices,
                rewarding \in BOOLEAN :
                 Purchase(u, bought, first, unit, firstUnit, rewarding)
    BY <2>4, <2>6
  <2> QED BY <1>1, <2>1, <2>2, <2>5, <2>6, Zenon DEF UserStep
<1>2. ASSUME NEW p \in Plans, PlanStep(p)
      PROVE  IInv'
  BY <1>2, PlanStepInv
<1>3. ASSUME NEW t \in Turns, TurnStep(t)
      PROVE  IInv'
  <2>1. ASSUME NEW u \in Users, NEW c \in Costs, StartTurn(t, u, c)
        PROVE  IInv'
    <3>1. c \in Nat
      BY DEF WalletAssumption
    <3> QED BY <2>1, <3>1, StartTurnInv
  <2>2. CASE \/ CoverTurn(t) \/ InsufficientTurn(t)
             \/ \E written \in BOOLEAN : DeferTurn(t, written) \/ ChargeFault(t, written)
    BY <2>2, UnchargedInv
  <2>3. ASSUME NEW rewarding \in BOOLEAN, ChargeTurn(t, rewarding)
        PROVE  IInv'
    BY <2>3, ChargeTurnInv
  <2>4. ASSUME NEW result \in Result, NEW rewarding \in BOOLEAN,
               AdminReconcileBillingEntry(t, result, rewarding)
        PROVE  IInv'
    BY <2>4, ReconcileInv
  <2> QED BY <1>3, <2>1, <2>2, <2>3, <2>4 DEF TurnStep
<1>4. ASSUME UNCHANGED vars
      PROVE  IInv'
  <2>1. UNCHANGED <<account, origin>> /\ UNCHANGED <<plan, turn>> /\ UNCHANGED plan
    BY <1>4 DEF vars
  <2>2. MoneyInv' /\ quota' = quota
    BY <2>1, MoneyStays DEF IInv
  <2>3. RowInv'
    BY <2>1, RowsStay DEF IInv
  <2>4. DebtHasNoPlan'
    BY <2>1, <2>2, DebtsStay DEF IInv
  <2> QED BY <2>2, <2>3, <2>4 DEF IInv
<1>5. ASSUME EditStep
      PROVE  IInv'
  <2>1. ASSUME UNCHANGED <<account, origin, plan, turn>>
        PROVE  IInv'
    <3>1. MoneyInv' /\ quota' = quota
      BY <2>1, MoneyStays DEF IInv
    <3>2. RowInv'
      BY <2>1, RowsStay DEF IInv
    <3>3. DebtHasNoPlan'
      BY <2>1, <3>1, DebtsStay DEF IInv
    <3> QED BY <3>1, <3>2, <3>3 DEF IInv
  <2>2. ASSUME NEW f \in forms, UpdateUser(f)
        PROVE  IInv'
    <3>1. f.user \in Users /\ f.next \in Settings
      BY DEF FormType
    <3>2. CASE SetQuota(f.user, f.next)
      BY <3>1, <3>2, AdminAdjustInv
    <3> QED BY <2>1, <2>2, <3>2 DEF UpdateUser
  <2> QED BY <1>5, <2>1, <2>2 DEF EditStep, BeginEdit
<1> QED BY <1>1, <1>2, <1>3, <1>4, <1>5 DEF Next

\* The edits under way are forms that were filled in.
LEMMA FormsKept ==
    ASSUME FormType, [Next]_vars
    PROVE  FormType'
<1>1. ASSUME EditStep
      PROVE  FormType'
  <2>1. ASSUME NEW u \in Users, NEW next \in Settings, BeginEdit(u, next)
        PROVE  FormType'
    <3>1. Protects(u, next) \in BOOLEAN
      BY Zenon DEF Protects
    <3> DEFINE form == [user |-> u, next |-> next, protected |-> Protects(u, next)]
    <3>2. form \in [user : Users, next : Settings, protected : BOOLEAN]
      BY <3>1, Zenon
    <3>3. forms' = forms \cup {form}
      BY <2>1 DEF BeginEdit
    <3> HIDE DEF form
    <3> QED BY <3>2, <3>3 DEF FormType
  <2>2. ASSUME NEW f \in forms, UpdateUser(f)
        PROVE  FormType'
    BY <2>2 DEF UpdateUser, FormType
  <2> QED BY <1>1, <2>1, <2>2 DEF EditStep
<1>2. ASSUME NEW u \in Users, UserStep(u)
      PROVE  UNCHANGED forms
  BY <1>2 DEF UserStep, Topup, BonusCredit, AdminRefundTopup, BulkSet, BulkAdd, BulkSub,
              Purchase
<1>3. ASSUME NEW p \in Plans, PlanStep(p)
      PROVE  UNCHANGED forms
  BY <1>3 DEF PlanStep, AdminGrantSubscription, AdminRevokeGrantedSubscription,
              CancelSubscription, ExpireSubscription, AdminRefundSubscription
<1>4. ASSUME NEW t \in Turns, TurnStep(t)
      PROVE  UNCHANGED forms
  BY <1>4 DEF TurnStep, StartTurn, CoverTurn, DeferTurn, ChargeTurn, InsufficientTurn,
              ChargeFault, AdminReconcileBillingEntry
<1>5. UNCHANGED forms => FormType'
  BY DEF FormType
<1> QED BY <1>1, <1>2, <1>3, <1>4, <1>5 DEF Next, vars

\* The inductive invariant holds in every state.
THEOREM InvHolds == Spec => [](IInv /\ FormType)
<1>1. Init => IInv /\ FormType
  BY InitInv, WalletAssumption DEF Init, FormType
<1>2. IInv /\ FormType /\ [Next]_vars => (IInv /\ FormType)'
  BY NextInv, FormsKept, WalletAssumption
<1> QED BY <1>1, <1>2, PTL DEF Spec

\* Rows and counters keep their types; paid_quota, the refundable part of the
\* orders and the amounts counted for the referrer never become negative.
THEOREM TypeOKHolds == Spec => []TypeOK
<1>1. IInv /\ FormType => TypeOK
  BY DEF IInv, MoneyInv, RowInv, AccountType, OriginType, PlanType, TurnType, FormType,
         TypeOK
<1> QED BY <1>1, InvHolds, PTL

\* paid_quota is covered by the balance except for the debt that refunds of
\* top-ups made, whatever happens between an admin's form and its update.
THEOREM PaidIsBackedHolds == Spec => []PaidIsBacked
<1>1. IInv => PaidIsBacked
  BY DEF IInv, MoneyInv, FloorInv, PaidIsBacked
<1> QED BY <1>1, InvHolds, PTL

\* Nobody in debt holds a subscription they paid for and were not refunded.
THEOREM DebtHasNoPlanHolds == Spec => []DebtHasNoPlan
<1>1. IInv => DebtHasNoPlan
  BY DEF IInv
<1> QED BY <1>1, InvHolds, PTL

\* A referrer receives at most the rate of what the invited user topped up.
THEOREM RewardsBackedHolds == Spec => []RewardsBacked
<1>1. IInv => RewardsBacked
  <2> SUFFICES ASSUME IInv, NEW u \in Users
               PROVE  rewards[u] * BpsBase <= Bps * topped[u]
    BY DEF RewardsBacked
  <2>1. Bps \in Nat /\ BpsBase \in Nat
    BY WalletAssumption DEF WalletAssumption
  <2>2. /\ rewards[u] \in Nat /\ attributed[u] \in Nat /\ topped[u] \in Nat
        /\ paid[u] \in Nat
    BY DEF IInv, MoneyInv, OriginType
  <2>3. /\ attributed[u] + paid[u] <= topped[u]
        /\ rewards[u] * BpsBase <= Bps * attributed[u]
    BY DEF IInv, MoneyInv, RewardInv
  <2>4. attributed[u] <= topped[u]
    BY <2>2, <2>3, SMT
  <2> QED BY <2>1, <2>2, <2>3, <2>4, RateGrows
<1> QED BY <1>1, InvHolds, PTL

\* No turn is charged more than its cost, however its charge and its
\* reconciliation are ordered.
THEOREM ChargedOnceHolds == Spec => []ChargedOnce
<1>1. IInv => ChargedOnce
  BY DEF IInv, RowInv, TurnInv, ChargedOnce
<1> QED BY <1>1, InvHolds, PTL
=============================================================================
