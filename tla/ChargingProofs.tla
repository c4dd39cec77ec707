---------------------------- MODULE ChargingProofs -----------------------------
(***************************************************************************)
(* What holds of the charging of subscriptions: first of SubscriptionQuota *)
(* for any subscriptions, plans, limits and requests, and any bounds of    *)
(* faults and moves; then of BillingRules, the weights they are charged    *)
(* by.  The two specifications share no variable.                          *)
(***************************************************************************)
EXTENDS SubscriptionQuota, BillingRules, TLAPS

\* The requests and the counters after a step in which Decide consumed.
LEMMA ConsumeType ==
    ASSUME TypeOK, NEW t \in Turns, NEW taking \in SUBSET Plans, Consume(t, taking)
    PROVE  /\ opened' \in [Plans -> BOOLEAN]
           /\ used' \in [Plans -> Nat]
           /\ ended' \in [Plans -> BOOLEAN]
           /\ counted' \in [Turns -> SUBSET Plans]
<1>1. used \in [Plans -> Nat] /\ opened \in [Plans -> BOOLEAN]
      /\ ended \in [Plans -> BOOLEAN] /\ counted \in [Turns -> SUBSET Plans]
  BY DEF TypeOK
<1>2. \A p \in Plans : Use[t][p] \in Nat
  BY QuotaAssumption
<1>3. \A p \in Plans : Base(p) \in Nat
  BY <1>1 DEF Base
<1>4. used' \in [Plans -> Nat]
  BY <1>1, <1>2, <1>3 DEF Consume
<1>5. opened' \in [Plans -> BOOLEAN]
  BY Zenon DEF Consume
<1>6. ended' \in [Plans -> BOOLEAN]
  BY Zenon DEF Consume
<1>7. counted' \in [Turns -> SUBSET Plans]
  BY <1>1 DEF Consume
<1> QED
  BY <1>4, <1>5, <1>6, <1>7

\* The type invariant is inductive.
LEMMA TypeStep == TypeOK /\ [Next]_vars => TypeOK'
<1> SUFFICES ASSUME TypeOK, [Next]_vars PROVE TypeOK'
  OBVIOUS
<1> USE DEF Steps, Asking, Final
<1>1. ASSUME NEW s \in Subs, SubStep(s) PROVE TypeOK'
  <2>1. ASSUME NEW from, NEW to \in {"active", "closed"}, SetStatus(s, from, to) PROVE TypeOK'
    <3>1. status' \in [Subs -> {"none", "active", "closed"}]
      BY <2>1 DEF SetStatus, TypeOK
    <3> QED
      BY <2>1, <3>1 DEF SetStatus, Move, TypeOK, lookup, windows, balance, turn, history, books
  <2>2. CASE SubEnds(s)
    BY <2>2 DEF SubEnds, Move, TypeOK, lookup, windows, balance, turn, history, books
  <2> QED
    BY <1>1, <2>1, <2>2 DEF SubStep, Begin, Stop, ExpireSubscription
<1>2. ASSUME NEW t \in Turns, NEW opted \in BOOLEAN, StartTurn(t, opted) PROVE TypeOK'
  BY <1>2 DEF StartTurn, TypeOK, subs, lookup, windows, balance, history, books
<1>3. ASSUME NEW t \in Turns, DecideStep(t) PROVE TypeOK'
  <2>1. CASE HitCache(t)
    BY <2>1 DEF HitCache, Got, TypeOK, subs, lookup, windows, balance, history, books
  <2>2. CASE LoadRead(t)
    BY <2>2 DEF LoadRead, TypeOK, subs, windows, balance, history, books
  <2>3. CASE LoadFill(t)
    BY <2>3 DEF LoadFill, Got, TypeOK, subs, windows, balance, history, books
  <2>4. CASE WaitForLoad(t)
    BY <2>4 DEF WaitForLoad, TypeOK, subs, lookup, windows, balance, history, books
  <2>5. ASSUME NEW written \in BOOLEAN, Follow(t, written) PROVE TypeOK'
    <3>1. CASE Got(t, cache) /\ UNCHANGED history
      BY <2>5, <3>1 DEF Follow, Got, TypeOK, subs, lookup, windows, balance, history, books
    <3>2. CASE NeedsRetry(t, written)
      BY <2>5, <3>2 DEF Follow, NeedsRetry, TypeOK, subs, lookup, windows, balance, books
    <3> QED
      BY <2>5, <3>1, <3>2 DEF Follow
  <2>6. ASSUME NEW s \in Subs, PrecheckSub(t, s) PROVE TypeOK'
    <3>1. step' \in [Turns -> Steps] /\ queue' \in [Turns -> SUBSET Subs]
      BY <2>6 DEF PrecheckSub, NextSub, TypeOK
    <3> QED
      BY <2>6, <3>1 DEF PrecheckSub, TypeOK, subs, lookup, windows, balance, books
  <2>7. ASSUME NEW afford \in BOOLEAN, PrecheckBalance(t, afford) PROVE TypeOK'
    BY <2>7 DEF PrecheckBalance, TypeOK, subs, lookup, windows, balance, history, books
  <2>8. ASSUME NEW s \in Subs, NEW written \in BOOLEAN, CommitSub(t, s, written) PROVE TypeOK'
    <3>1. PlansOf[s] \in SUBSET Plans
      BY QuotaAssumption
    <3>2. CASE Consume(t, PlansOf[s]) /\ step' = [step EXCEPT ![t] = "covered"]
               /\ taker' = [taker EXCEPT ![t] = s] /\ Account(t, written)
               /\ UNCHANGED queue
      <4>1. /\ opened' \in [Plans -> BOOLEAN]
            /\ used' \in [Plans -> Nat]
            /\ ended' \in [Plans -> BOOLEAN]
            /\ counted' \in [Turns -> SUBSET Plans]
        BY <3>1, <3>2, ConsumeType
      <4> QED
        BY <2>8, <3>2, <4>1 DEF CommitSub, Account, TypeOK, subs, lookup, balance
    <3>3. CASE NextSub(t, s) /\ UNCHANGED <<windows, step, taker, counted, books>>
      BY <2>8, <3>3 DEF CommitSub, NextSub, TypeOK, subs, lookup, windows, balance, books
    <3>4. CASE Untaken(t) /\ UNCHANGED <<windows, queue, taker, counted, books>>
      BY <2>8, <3>4 DEF CommitSub, Untaken, TypeOK, subs, lookup, windows, balance, books
    <3> QED
      BY <2>8, <3>2, <3>3, <3>4, Zenon DEF CommitSub
  <2>9. CASE CommitFalls(t)
    BY <2>9 DEF CommitFalls, Untaken, TypeOK, subs, lookup, windows, balance, history, books
  <2> QED
    BY <1>3, <2>1, <2>2, <2>3, <2>4, <2>5, <2>6, <2>7, <2>8, <2>9 DEF DecideStep
<1>4. ASSUME NEW t \in Turns, SettleStep(t) PROVE TypeOK'
  <2>2. ASSUME NEW written \in BOOLEAN, DeferTurn(t, written) PROVE TypeOK'
    BY <2>2 DEF DeferTurn, TypeOK, subs, lookup, windows, balance, history, books
  <2>3. ASSUME NEW enough \in BOOLEAN, NEW expired \in BOOLEAN, BalanceTurn(t, enough, expired)
        PROVE TypeOK'
    BY <2>3 DEF BalanceTurn, Track, Account, TypeOK, subs, lookup, windows, history, books
  <2> QED
    BY <1>4, <2>2, <2>3 DEF SettleStep
<1>5. ASSUME NEW t \in Turns, FaultStep(t) PROVE TypeOK'
  <2>1. ASSUME NEW written \in BOOLEAN, LoadFault(t, written) PROVE TypeOK'
    BY <2>1 DEF LoadFault, Fault, NeedsRetry, TypeOK, subs, windows, balance, books
  <2>2. ASSUME NEW written \in BOOLEAN, CommitFault(t, written) PROVE TypeOK'
    BY <2>2 DEF CommitFault, Fault, NeedsRetry, TypeOK, subs, lookup, windows, balance, books
  <2>3. CASE PrecheckFault(t)
    BY <2>3 DEF PrecheckFault, Fault, NeedsRetry, TypeOK, subs, lookup, windows, balance, books
  <2>4. CASE BalanceFault(t)
    BY <2>4 DEF BalanceFault, Fault, TypeOK, subs, lookup, windows, balance, history, books
  <2> QED
    BY <1>5, <2>1, <2>2, <2>3, <2>4 DEF FaultStep
<1>6. ASSUME NEW t \in Turns, NEW stored \in BOOLEAN, RecordRevenue(t, stored) PROVE TypeOK'
  BY <1>6 DEF RecordRevenue, Worth, TypeOK, subs, lookup, windows, balance, turn, history
<1>7. ASSUME NEW t \in Turns, MonitorApiLogRevenueOrphans(t) PROVE TypeOK'
  BY <1>7 DEF MonitorApiLogRevenueOrphans, TypeOK, subs, lookup, windows, balance, turn, history
<1>8. CASE Background
  <2>1. ASSUME NEW p \in Plans, WindowEnds(p) PROVE TypeOK'
    BY <2>1 DEF WindowEnds, Move, TypeOK, subs, lookup, balance, turn, books
  <2>2. ASSUME NEW matched \in SUBSET Subs, AdminResetSubscriptionUsage(matched) PROVE TypeOK'
    BY <2>2 DEF AdminResetSubscriptionUsage, Move, TypeOK, subs, balance, turn, books
  <2>3. ASSUME NEW on \in BOOLEAN, NEW anew \in BOOLEAN,
               UpdateMyBalanceConsumePreference(on, anew) PROVE TypeOK'
    BY <2>3 DEF UpdateMyBalanceConsumePreference, Move, TypeOK, subs, lookup, windows, turn,
          history, books
  <2>4. CASE InvalidateUserSubscriptionCache
    BY <2>4 DEF InvalidateUserSubscriptionCache, TypeOK, subs, windows, balance, turn, history, books
  <2>5. CASE AgeCache
    BY <2>5 DEF AgeCache, Move, TypeOK, subs, windows, balance, turn, history, books
  <2>6. CASE Crash
    <3>1. step' \in [Turns -> Steps]
      BY <2>6 DEF Crash, TypeOK
    <3>2. writer' \in [Turns -> BOOLEAN] /\ faults' \in Nat /\ moves' \in Nat
      BY <2>6 DEF Crash, Fault, TypeOK
    <3>3. bucket' = "absent" /\ cache' = {} /\ rows' = {} /\ stale' = FALSE
      BY <2>6 DEF Crash
    <3>4. UNCHANGED <<subs, windows, balance, served, optIn, queue, taker, history, entry, apiLog,
                    revenue>>
      BY <2>6 DEF Crash
    <3> QED
      BY <3>1, <3>2, <3>3, <3>4 DEF TypeOK, subs, windows, balance, history
  <2> QED
    BY <1>8, <2>1, <2>2, <2>3, <2>4, <2>5, <2>6 DEF Background
<1>9. CASE UNCHANGED vars
  BY <1>9 DEF vars, TypeOK, subs, lookup, windows, balance, turn, history, books
<1>10. ASSUME NEW t \in Turns, UpstreamStep(t) PROVE TypeOK'
  <2>1. CASE UpstreamFails(t)
    BY <2>1 DEF UpstreamFails, TypeOK, subs, lookup, windows, balance, history, books
  <2>2. ASSUME NEW apiLogPersisted \in BOOLEAN, Served(t, apiLogPersisted) PROVE TypeOK'
    BY <2>2 DEF Served, Fault, TypeOK, subs, lookup, windows, balance, history
  <2> QED
    BY <1>10, <2>1, <2>2 DEF UpstreamStep
<1>11. ASSUME NEW t \in Turns, ApiLogAges(t) PROVE TypeOK'
  BY <1>11 DEF ApiLogAges, Move, TypeOK, subs, lookup, windows, balance, turn, history
<1> QED
  BY <1>1, <1>2, <1>3, <1>4, <1>5, <1>6, <1>7, <1>8, <1>9, <1>10, <1>11 DEF Next

LEMMA TypeInit == Init => TypeOK
<1> SUFFICES ASSUME Init PROVE TypeOK
  OBVIOUS
<1>1. status \in [Subs -> {"none", "active", "closed"}]
  BY DEF Init
<1>2. step \in [Turns -> Steps]
  BY DEF Init, Steps
<1> QED
  BY <1>1, <1>2 DEF Init, TypeOK

\* Rows and counters keep their types, and no counter becomes negative, however
\* resets, new windows and requests follow each other.
THEOREM TypeOKHolds == Safety => []TypeOK
<1>1. Init => TypeOK
  BY TypeInit
<1>2. TypeOK /\ [Next]_vars => TypeOK'
  BY TypeStep
<1> QED
  BY <1>1, <1>2, PTL DEF Safety

-----------------------------------------------------------------------------
(* The limits of the windows *)

\* Every step but a commit and a reset leaves the counters alone.
LEMMA UsedStep ==
    ASSUME [Next]_vars
    PROVE  \/ used' = used
           \/ \E t \in Turns, s \in Subs :
                /\ CommitFails(s, t) = {}
                /\ Consume(t, PlansOf[s])
           \/ \E matched \in SUBSET Subs : AdminResetSubscriptionUsage(matched)
<1>1. ASSUME NEW s \in Subs, SubStep(s) PROVE used' = used
  BY <1>1 DEF SubStep, Begin, Stop, ExpireSubscription, SubEnds, SetStatus, windows
<1>2. ASSUME NEW t \in Turns, NEW opted \in BOOLEAN, StartTurn(t, opted) PROVE used' = used
  BY <1>2 DEF StartTurn, windows
<1>3. ASSUME NEW t \in Turns, NEW s \in Subs, NEW written \in BOOLEAN, CommitSub(t, s, written),
             used' # used
      PROVE  CommitFails(s, t) = {} /\ Consume(t, PlansOf[s])
  BY <1>3 DEF CommitSub, Takes, windows
<1>4. ASSUME NEW t \in Turns, DecideStep(t),
             ~ \E s \in Subs, written \in BOOLEAN : CommitSub(t, s, written)
      PROVE  used' = used
  BY <1>4 DEF DecideStep, HitCache, LoadRead, LoadFill, WaitForLoad, Follow, PrecheckSub,
       PrecheckBalance, CommitFalls, windows
<1>5. ASSUME NEW t \in Turns, UpstreamStep(t) \/ SettleStep(t) \/ FaultStep(t)
      PROVE  used' = used
  BY <1>5 DEF UpstreamStep, UpstreamFails, Served, SettleStep, DeferTurn, BalanceTurn, FaultStep, LoadFault, CommitFault,
       PrecheckFault, BalanceFault, windows
<1>6. ASSUME NEW t \in Turns, NEW stored \in BOOLEAN, RecordRevenue(t, stored) PROVE used' = used
  BY <1>6 DEF RecordRevenue, windows
<1>7. ASSUME NEW t \in Turns, MonitorApiLogRevenueOrphans(t) \/ ApiLogAges(t)
      PROVE  used' = used
  BY <1>7 DEF MonitorApiLogRevenueOrphans, ApiLogAges, windows
<1>8. ASSUME Background, ~ \E matched \in SUBSET Subs : AdminResetSubscriptionUsage(matched)
      PROVE  used' = used
  BY <1>8 DEF Background, WindowEnds, UpdateMyBalanceConsumePreference,
       InvalidateUserSubscriptionCache, AgeCache, Crash, windows
<1>9. CASE UNCHANGED vars
  BY <1>9 DEF vars, windows
<1> QED
  BY <1>1, <1>2, <1>3, <1>4, <1>5, <1>6, <1>7, <1>8, <1>9 DEF Next

\* A commit that no plan refuses stays within the limits of its own snapshot.
LEMMA LimitStep == TypeOK /\ WithinLimit /\ [Next]_vars => WithinLimit'
<1> SUFFICES ASSUME TypeOK, WithinLimit, [Next]_vars PROVE WithinLimit'
  OBVIOUS
<1>1. CASE used' = used
  BY <1>1 DEF WithinLimit
<1>2. ASSUME NEW t \in Turns, NEW s \in Subs, CommitFails(s, t) = {}, Consume(t, PlansOf[s])
      PROVE  WithinLimit'
  <2> SUFFICES ASSUME NEW p \in Strict, used'[p] > 0
               PROVE  \E r \in Subs : p \in PlansOf[r] /\ used'[p] <= Limit[r][p]
    BY DEF WithinLimit
  <2>1. p \in Plans
    BY DEF Strict
  <2>2. CASE p \in PlansOf[s]
    <3>1. used'[p] = Base(p) + Use[t][p]
      BY <1>2, <2>1, <2>2 DEF Consume
    <3>2. Limit[s][p] > 0 /\ Strategy[s][p] # "overdraft"
      BY <2>2 DEF Strict
    <3>3. ~ Exceeds(s, p, Use[t][p])
      BY <1>2, <2>2, <3>2 DEF CommitFails
    <3>4. Base(p) \in Nat /\ Use[t][p] \in Nat /\ Limit[s][p] \in Nat
      BY <2>1, QuotaAssumption DEF Base, TypeOK
    <3> QED
      BY <2>2, <3>1, <3>2, <3>3, <3>4 DEF Exceeds
  <2>3. CASE p \notin PlansOf[s]
    <3>1. used'[p] = used[p]
      BY <1>2, <2>1, <2>3 DEF Consume
    <3> QED
      BY <3>1 DEF WithinLimit
  <2> QED
    BY <2>2, <2>3
<1>3. ASSUME NEW matched \in SUBSET Subs, AdminResetSubscriptionUsage(matched)
      PROVE  WithinLimit'
  <2> SUFFICES ASSUME NEW p \in Strict, used'[p] > 0
               PROVE  \E r \in Subs : p \in PlansOf[r] /\ used'[p] <= Limit[r][p]
    BY DEF WithinLimit
  <2>1. p \in Plans
    BY DEF Strict
  <2>2. used'[p] = 0 \/ used'[p] = used[p]
    BY <1>3, <2>1 DEF AdminResetSubscriptionUsage
  <2>3. used'[p] = used[p]
    BY <2>2
  <2> QED
    BY <2>3 DEF WithinLimit
<1> QED
  BY <1>1, <1>2, <1>3, UsedStep

\* For any plans, snapshots that share them, limits and uses: the window of a plan
\* that no snapshot lets into debt never holds more than one of them allows.
THEOREM WithinLimitHolds == Safety => []WithinLimit
<1>1. Init => WithinLimit
  BY DEF Init, WithinLimit, Strict
<1>2. TypeOK /\ WithinLimit /\ [Next]_vars => WithinLimit'
  BY LimitStep
<1>3. Safety => []TypeOK
  BY TypeOKHolds
<1> QED
  BY <1>1, <1>2, <1>3, PTL DEF Safety

-----------------------------------------------------------------------------
(* Who pays *)

\* A failed commit has ended, and not at the expense of the balance.
FaultedEnds == \A t \in Turns : faulted[t] => step[t] \in {"pending", "lost"}

PayInv == PaidOnce /\ FaultedEnds

\* What a step of one request, or of the whole process, does to those who pay:
\* it goes on to a step in which nobody paid or the balance did, or a
\* subscription takes it.
Onward(t) ==
    /\ step[t] \notin Final
    /\ UNCHANGED <<taker, counted>>
    /\ \/ /\ \E x \in Steps \ {"covered"} : step' = [step EXCEPT ![t] = x]
          /\ UNCHANGED faulted
       \/ /\ \E x \in {"refused", "pending", "lost"} : step' = [step EXCEPT ![t] = x]
          /\ faulted' = [faulted EXCEPT ![t] = served[t]]
          /\ served[t] => step'[t] \in {"pending", "lost"}

LEMMA OnwardStep ==
    ASSUME TypeOK, PayInv, NEW t \in Turns, Onward(t)
    PROVE  PayInv'
<1>1. step \in [Turns -> Steps] /\ faulted \in [Turns -> BOOLEAN]
  BY DEF TypeOK
<1>2. ~ faulted[t]
  BY <1>1 DEF PayInv, FaultedEnds, Onward, Final
<1>3. step[t] # "covered" /\ step'[t] # "covered"
  BY <1>1 DEF Onward, Final
<1>4. \A u \in Turns \ {t} : step'[u] = step[u] /\ faulted'[u] = faulted[u]
  BY <1>1 DEF Onward
<1>5. PaidOnce'
  BY <1>3, <1>4 DEF PayInv, PaidOnce, Onward
<1>6. faulted'[t] => step'[t] \in {"pending", "lost"}
  BY <1>1, <1>2 DEF Onward
<1>7. FaultedEnds'
  BY <1>4, <1>6 DEF PayInv, FaultedEnds
<1> QED
  BY <1>5, <1>7 DEF PayInv

LEMMA PayStep == TypeOK /\ PayInv /\ [Next]_vars => PayInv'
<1> SUFFICES ASSUME TypeOK, PayInv, [Next]_vars PROVE PayInv'
  OBVIOUS
<1>0. step \in [Turns -> Steps] /\ served \in [Turns -> BOOLEAN]
  BY DEF TypeOK
<1>1. CASE UNCHANGED <<step, taker, counted, faulted>>
  BY <1>1 DEF PayInv, PaidOnce, FaultedEnds
<1>2. ASSUME NEW t \in Turns, NEW opted \in BOOLEAN, StartTurn(t, opted) PROVE PayInv'
  <2>1. Onward(t)
    BY <1>0, <1>2 DEF StartTurn, Onward, Steps, Asking, Final, history
  <2> QED
    BY <2>1, OnwardStep
<1>3. ASSUME NEW t \in Turns, NEW s \in Subs, NEW written \in BOOLEAN, CommitSub(t, s, written)
      PROVE  PayInv'
  <2>1. CASE NextSub(t, s) /\ UNCHANGED <<windows, step, taker, counted, books>>
    BY <1>1, <1>3, <2>1 DEF CommitSub
  <2>2. CASE Untaken(t) /\ UNCHANGED <<taker, counted>>
    <3>1. Onward(t)
      BY <1>0, <1>3, <2>2 DEF CommitSub, Untaken, Onward, Steps, Asking, Final
    <3> QED
      BY <3>1, OnwardStep
  <2>3. CASE Takes(s, CommitFails(s, t)) /\ Consume(t, PlansOf[s])
             /\ step' = [step EXCEPT ![t] = "covered"] /\ taker' = [taker EXCEPT ![t] = s]
    <3>1. step[t] = "deciding" /\ UNCHANGED faulted
      BY <1>3 DEF CommitSub
    <3>2. taker \in [Turns -> Subs \cup {Nobody}] /\ counted \in [Turns -> SUBSET Plans]
      BY DEF TypeOK
    <3>3. counted[t] = {} /\ ~ faulted[t]
      BY <1>0, <3>1 DEF PayInv, PaidOnce, FaultedEnds
    <3>4. counted' = [counted EXCEPT ![t] = PlansOf[s]] /\ PlansOf[s] # {}
      BY <2>3, <3>2, <3>3 DEF Consume, Takes
    <3>5. PaidOnce'
      BY <1>0, <2>3, <3>2, <3>4 DEF PayInv, PaidOnce
    <3>6. FaultedEnds'
      BY <1>0, <2>3, <3>1, <3>3 DEF PayInv, FaultedEnds
    <3> QED
      BY <3>5, <3>6 DEF PayInv
  <2> QED
    BY <1>3, <2>1, <2>2, <2>3, Zenon DEF CommitSub
<1>4. ASSUME NEW t \in Turns, DecideStep(t) PROVE PayInv'
  <2>1. ASSUME NEW written \in BOOLEAN, Follow(t, written) PROVE Onward(t)
    BY <1>0, <2>1 DEF Follow, Got, NeedsRetry, Onward, Steps, Asking, Final, history
  <2>2. ASSUME NEW s \in Subs, PrecheckSub(t, s)
        PROVE  UNCHANGED <<step, taker, counted, faulted>> \/ Onward(t)
    BY <1>0, <2>2 DEF PrecheckSub, Onward, Steps, Asking, Final
  <2>3. CASE HitCache(t) \/ LoadRead(t) \/ LoadFill(t) \/ WaitForLoad(t)
    <3>1. Onward(t)
      BY <1>0, <2>3 DEF HitCache, LoadRead, LoadFill, WaitForLoad, Got, Onward, Steps, Asking,
           Final, history
    <3> QED
      BY <3>1, OnwardStep
  <2>4. ASSUME NEW afford \in BOOLEAN, PrecheckBalance(t, afford) PROVE Onward(t)
    BY <1>0, <2>4 DEF PrecheckBalance, Onward, Steps, Asking, Final, history
  <2>5. CASE CommitFalls(t)
    <3>1. Onward(t)
      BY <1>0, <2>5 DEF CommitFalls, Untaken, Onward, Steps, Asking, Final, history
    <3> QED
      BY <3>1, OnwardStep
  <2> QED
    BY <1>1, <1>3, <1>4, <2>1, <2>2, <2>3, <2>4, <2>5, OnwardStep DEF DecideStep
<1>5. ASSUME NEW t \in Turns, UpstreamStep(t) \/ SettleStep(t) PROVE PayInv'
  <2>1. Onward(t)
    BY <1>0, <1>5 DEF UpstreamStep, UpstreamFails, Served, SettleStep, DeferTurn, BalanceTurn, Onward, Steps, Asking, Final,
         history
  <2> QED
    BY <2>1, OnwardStep
<1>6. ASSUME NEW t \in Turns, FaultStep(t) PROVE PayInv'
  <2>1. Onward(t)
    BY <1>0, <1>6 DEF FaultStep, LoadFault, CommitFault, PrecheckFault, BalanceFault, NeedsRetry,
         Onward, Steps, Asking, Final, history
  <2> QED
    BY <2>1, OnwardStep
<1>7. CASE Crash
  <2>1. \A t \in Turns : (step'[t] = step[t]) \/ (step[t] \notin Final /\ step'[t] \in {"lost", "refused"})
    BY <1>0, <1>7 DEF Crash
  <2>2. UNCHANGED <<taker, counted, faulted>>
    BY <1>7 DEF Crash, history
  <2> QED
    BY <2>1, <2>2 DEF PayInv, PaidOnce, FaultedEnds, Final
<1>8. CASE Background /\ ~Crash
  <2>1. UNCHANGED <<step, taker, counted, faulted>>
    BY <1>8 DEF Background, WindowEnds, AdminResetSubscriptionUsage, AgeCache,
         UpdateMyBalanceConsumePreference, InvalidateUserSubscriptionCache, turn, history
  <2> QED
    BY <1>1, <2>1
<1>9. ASSUME NEW s \in Subs, SubStep(s) PROVE PayInv'
  BY <1>1, <1>9 DEF SubStep, Begin, Stop, ExpireSubscription, SubEnds, SetStatus, turn, history
<1>10. ASSUME NEW t \in Turns,
              \/ \E stored \in BOOLEAN : RecordRevenue(t, stored)
              \/ MonitorApiLogRevenueOrphans(t)
              \/ ApiLogAges(t)
       PROVE  PayInv'
  BY <1>1, <1>10 DEF RecordRevenue, MonitorApiLogRevenueOrphans, ApiLogAges, turn, history
<1>11. CASE UNCHANGED vars
  BY <1>1, <1>11 DEF vars, turn, history
<1> QED
  BY <1>2, <1>4, <1>5, <1>6, <1>7, <1>8, <1>9, <1>10, <1>11 DEF Next

LEMMA PayHolds == Safety => []PayInv
<1>1. Init => PayInv
  BY DEF Init, PayInv, PaidOnce, FaultedEnds
<1>2. TypeOK /\ PayInv /\ [Next]_vars => PayInv'
  BY PayStep
<1>3. Safety => []TypeOK
  BY TypeOKHolds
<1> QED
  BY <1>1, <1>2, <1>3, PTL DEF Safety

\* A request is counted in every plan of one subscription, or in none and then no
\* subscription took it.
THEOREM PaidOnceHolds == Safety => []PaidOnce
<1>1. PayInv => PaidOnce
  BY DEF PayInv
<1> QED
  BY <1>1, PayHolds, PTL

\* No fault of the subscription tables is paid by the balance.
THEOREM FaultNeverChargesHolds == Safety => []FaultNeverCharges
<1>1. PayInv => FaultNeverCharges
  BY DEF PayInv, FaultedEnds, FaultNeverCharges
<1> QED
  BY <1>1, PayHolds, PTL

-----------------------------------------------------------------------------
(***************************************************************************)
(* The rules a subscription is charged by: BillingRules, for any admins,   *)
(* syncs, pages and bounds.                                                *)
(***************************************************************************)

\* Whatever may yet be stored in the cache or written back to sys_configs has
\* been in force, but for what an activation or a publication puts in force.
CopiesWereInForce ==
  /\ {config, cached} \subseteq everInForce \cup {None}
  /\ \A s \in Syncs : sync[s] \in everInForce \cup {None}
  /\ \A a \in Admins :
       /\ job[a].at = "patch" => job[a].rev \in everInForce
       /\ job[a].at = "cancel" => job[a].rev <= made
  /\ \A p \in Pages : page[p].at # "closed" => page[p].rev \in everInForce
  /\ cron.at = "chosen" => cron.rev <= made
  /\ cron.at = "applied" => cron.rev \in everInForce

RulesInv ==
  /\ RulesTypeOK
  /\ CopiesWereInForce
  /\ made > 0 => config # None

-----------------------------------------------------------------------------
(* What is in hand, by where its owner is.                                 *)

LEMMA JobsAre ==
  ASSUME NEW j \in Jobs
  PROVE  /\ j.at \in {"idle", "publish", "patch", "cancel"}
         /\ j.at = "publish" => j.time \in Times /\ j.immediate \in BOOLEAN
         /\ j.at \in {"patch", "cancel"} => j.rev \in Revisions
BY DEF Jobs, Idle

LEMMA PagesAre ==
  ASSUME NEW g \in PageStates
  PROVE  /\ g.at \in {"closed", "open", "saved", "read"}
         /\ g.at # "closed" => g.rev \in Revisions
                               /\ g = [at |-> g.at, rev |-> g.rev]
         /\ g.at = "closed" => g = IdlePage
BY DEF PageStates, IdlePage

LEMMA CronIs ==
  ASSUME NEW c \in Activations
  PROVE  /\ c.at \in {"idle", "chosen", "applied"}
         /\ c.at # "idle" => c.rev \in Revisions
                             /\ c = [at |-> c.at, rev |-> c.rev]
BY DEF Activations, Idle

LEMMA IdleIs ==
  /\ Idle \in Jobs /\ Idle \in Activations
  /\ Idle.at = "idle"
  /\ IdlePage \in PageStates /\ IdlePage.at = "closed"
BY DEF Jobs, Activations, Idle, PageStates, IdlePage

LEMMA InitRulesInv == RulesInit => RulesInv
<1> SUFFICES ASSUME RulesInit
             PROVE  RulesInv
  OBVIOUS
<1>1. RulesTypeOK
  BY IdleIs, BillingRulesAssumption
     DEF RulesInit, RulesTypeOK, Revisions, Times
<1>2. CopiesWereInForce
  BY IdleIs DEF RulesInit, CopiesWereInForce
<1> QED
  BY <1>1, <1>2 DEF RulesInv, RulesInit

-----------------------------------------------------------------------------
(* The process, the clock and the cron.                                    *)

\* a new revision leaves the tables typed
LEMMA NewRevisionKeepsTables ==
  ASSUME RulesInv, NEW t \in Times, NewRevision(t)
  PROVE  /\ made' = made + 1 /\ made' \in 0 .. MaxRevisions
         /\ made' \in Revisions
         /\ effective' \in [Revisions -> Times]
         /\ 1 .. made \subseteq 1 .. made'
<1>1. made \in 0 .. MaxRevisions /\ MaxRevisions \in Nat
  BY BillingRulesAssumption DEF RulesInv, RulesTypeOK
<1>2. made < MaxRevisions /\ made' = made + 1
  BY DEF NewRevision
<1>3. effective' \in [Revisions -> Times]
  BY DEF RulesInv, RulesTypeOK, NewRevision
<1> QED
  BY <1>1, <1>2, <1>3 DEF Revisions

LEMMA StartRules == RulesInv /\ Start => RulesInv'
<1> SUFFICES ASSUME RulesInv, Start
             PROVE  RulesInv'
  OBVIOUS
<1>1. /\ phase' = "starting" /\ cached' = config'
      /\ UNCHANGED <<now, job, sync, page, cron, saves, crashes>>
  BY DEF Start, work, bounds
<1>2. now \in Times /\ made \in 0 .. MaxRevisions /\ None \notin Nat
  BY BillingRulesAssumption DEF RulesInv, RulesTypeOK
<1>3. CASE made = 0
  <2>1. NewRevision(now) /\ config' = 1 /\ everInForce' = everInForce \cup {1} /\ canceled' = canceled
    BY <1>3 DEF Start, SeedCurrentBillingRuleRevision, PutInForce
  <2>2. /\ made' = 1 /\ made' \in 0 .. MaxRevisions
        /\ effective' \in [Revisions -> Times]
        /\ 1 .. made \subseteq 1 .. made'
    BY <1>2, <1>3, <2>1, NewRevisionKeepsTables
  <2>3. RulesTypeOK'
    BY <1>1, <1>2, <2>1, <2>2 DEF RulesInv, RulesTypeOK
  <2>4. CopiesWereInForce'
    <3>1. /\ everInForce \subseteq everInForce' /\ config' \in everInForce' /\ cached' = config'
          /\ job \in [Admins -> Jobs] /\ cron \in Activations
      BY <1>1, <2>1 DEF RulesInv, RulesTypeOK
    <3>2. \A a \in Admins : job[a].at = "cancel" => job[a].rev <= made'
      BY <1>2, <1>3, <2>2, <3>1, JobsAre DEF RulesInv, CopiesWereInForce, Revisions
    <3>3. cron.at = "chosen" => cron.rev <= made'
      BY <1>2, <1>3, <2>2, <3>1, CronIs DEF RulesInv, CopiesWereInForce, Revisions
    <3> QED
      BY <1>1, <3>1, <3>2, <3>3 DEF RulesInv, CopiesWereInForce
  <2> QED
    BY <1>2, <2>1, <2>3, <2>4 DEF RulesInv
<1>4. CASE made # 0
  <2>1. UNCHANGED <<made, effective, canceled, config, everInForce>>
    BY <1>4 DEF Start, SeedCurrentBillingRuleRevision, tables
  <2>2. config # None
    BY <1>2, <1>4 DEF RulesInv
  <2>3. RulesTypeOK' /\ CopiesWereInForce'
    BY <1>1, <2>1, <2>2 DEF RulesInv, RulesTypeOK, CopiesWereInForce
  <2> QED
    BY <2>1, <2>2, <2>3 DEF RulesInv
<1> QED
  BY <1>3, <1>4

LEMMA CrashRules == RulesInv /\ ProcessEnds => RulesInv'
<1> SUFFICES ASSUME RulesInv, ProcessEnds
             PROVE  RulesInv'
  OBVIOUS
<1>1. /\ phase' = "down" /\ cached' = None /\ cron' = Idle
      /\ job' = [a \in Admins |-> Idle] /\ sync' = [s \in Syncs |-> None]
      /\ page' = [p \in Pages |-> IF page[p].at = "open" THEN page[p] ELSE IdlePage]
      /\ UNCHANGED <<now, made, effective, canceled, config, everInForce, saves>>
      /\ crashes < MaxCrashes /\ crashes' = crashes + 1
  BY DEF ProcessEnds, tables
<1>2. crashes' \in 0 .. MaxCrashes
  BY <1>1, BillingRulesAssumption DEF RulesInv, RulesTypeOK
<1>3. RulesTypeOK'
  BY <1>1, <1>2, IdleIs DEF RulesInv, RulesTypeOK
<1>4. CopiesWereInForce'
  BY <1>1, IdleIs DEF RulesInv, CopiesWereInForce
<1> QED
  BY <1>1, <1>3, <1>4 DEF RulesInv

LEMMA TickRules == RulesInv /\ Tick => RulesInv'
<1> SUFFICES ASSUME RulesInv, Tick
             PROVE  RulesInv'
  OBVIOUS
<1>1. UNCHANGED <<phase, made, effective, canceled, config, everInForce, cached, job, sync,
                  page, cron, saves, crashes>>
  BY DEF Tick, tables, work, bounds
<1>2. now' \in Times
  BY BillingRulesAssumption DEF Tick, RulesInv, RulesTypeOK, Times
<1> QED
  BY <1>1, <1>2, BillingRulesAssumption
     DEF RulesInv, RulesTypeOK, CopiesWereInForce

LEMMA CronRules ==
  ASSUME RulesInv,
         \/ \E r \in Revisions : Choose(r)
         \/ Apply \/ ApplyFails \/ PatchApplied
  PROVE  RulesInv'
<1>0. /\ RulesTypeOK /\ CopiesWereInForce
      /\ made > 0 => config # None
      /\ made \in Nat /\ None \notin Nat
      /\ cron \in Activations
  BY BillingRulesAssumption DEF RulesInv, RulesTypeOK
<1>2. ASSUME NEW r \in Revisions, Choose(r)
      PROVE  RulesInv'
  <2>1. /\ cron' = [at |-> "chosen", rev |-> r] /\ r <= made
        /\ UNCHANGED <<phase, now, made, effective, canceled, config, everInForce, cached,
                       job, sync, page, saves, crashes>>
    BY <1>0, <1>2 DEF Choose, IsLatest, Due, tables, bounds
  <2>2. cron' \in Activations
    BY <2>1 DEF Activations
  <2> QED
    BY <1>0, <2>1, <2>2 DEF RulesInv, RulesTypeOK, CopiesWereInForce
<1>3. CASE Apply
  <2>1. /\ cron.at = "chosen" /\ cron.rev \in 1 .. made /\ cron = [at |-> "chosen", rev |-> cron.rev]
        /\ UNCHANGED <<now, made, effective, canceled, cached, job, sync, page, saves, crashes>>
    BY <1>0, <1>3, CronIs DEF Apply, CopiesWereInForce, Revisions, bounds
  <2>2. CASE MayApply(cron.rev)
    <3>1. /\ config' = cron.rev /\ everInForce' = everInForce \cup {cron.rev}
          /\ cron' = [at |-> "applied", rev |-> cron.rev] /\ phase' = phase
      BY <1>3, <2>1, <2>2 DEF Apply, PutInForce
    <3>2. cron' \in Activations
      BY <1>0, <2>1, <3>1, CronIs DEF Activations
    <3>3. RulesTypeOK'
      BY <1>0, <2>1, <3>1, <3>2 DEF RulesTypeOK
    <3>4. CopiesWereInForce'
      BY <1>0, <2>1, <3>1 DEF CopiesWereInForce
    <3> QED
      BY <1>0, <2>1, <3>1, <3>3, <3>4 DEF RulesInv
  <2>3. CASE ~ MayApply(cron.rev)
    <3>1. /\ cron' = Idle /\ UNCHANGED <<config, everInForce>>
          /\ phase' = IF phase = "starting" THEN "up" ELSE phase
      BY <1>3, <2>3 DEF Apply, Finished
    <3> QED
      BY <1>0, <2>1, <3>1, IdleIs DEF RulesInv, RulesTypeOK, CopiesWereInForce
  <2> QED
    BY <2>2, <2>3
<1>4. CASE ApplyFails \/ PatchApplied
  <2>1. /\ cron' = Idle
        /\ phase' = IF phase = "starting" THEN "up" ELSE phase
        /\ UNCHANGED <<now, made, effective, canceled, config, everInForce, job, sync, page,
                       saves, crashes>>
    BY <1>4 DEF ApplyFails, PatchApplied, Finished, tables, bounds
  <2>2. cached' = cached \/ cached' \in everInForce
    BY <1>0, <1>4 DEF ApplyFails, PatchApplied, CopiesWereInForce
  <2>3. \A x \in everInForce : x \in 1 .. made /\ x # None
    BY <1>0 DEF RulesTypeOK
  <2>4. RulesTypeOK'
    BY <1>0, <2>1, <2>2, <2>3, IdleIs DEF RulesTypeOK
  <2>5. CopiesWereInForce'
    BY <1>0, <2>1, <2>2, IdleIs DEF CopiesWereInForce
  <2> QED
    BY <1>0, <2>1, <2>4, <2>5 DEF RulesInv
<1> QED
  BY <1>2, <1>3, <1>4

-----------------------------------------------------------------------------
(* Admins.                                                                 *)

\* what a step of an admin leaves typed when its other tables are
LEMMA AdminMoves ==
  ASSUME RulesInv, NEW a \in Admins, NEW from, NEW to \in Jobs, Becomes(a, from, to)
  PROVE  /\ phase = "up" /\ job[a].at = from
         /\ job' \in [Admins -> Jobs]
         /\ \A b \in Admins : job'[b] = IF b = a THEN to ELSE job[b]
         /\ UNCHANGED <<phase, now, sync, page, cron, saves, crashes>>
BY DEF RulesInv, RulesTypeOK, Becomes, bounds

\* the tables grow, the cache takes something that has been in force
LEMMA AdminKeeps ==
  ASSUME RulesInv, NEW a \in Admins, NEW from, NEW to \in Jobs, Becomes(a, from, to),
         made' \in 0 .. MaxRevisions, made <= made',
         effective' \in [Revisions -> Times],
         canceled' \subseteq 1 .. made',
         everInForce \subseteq everInForce', everInForce' \subseteq 1 .. made',
         config' = config \/ config' \in everInForce',
         cached' = cached \/ cached' \in everInForce',
         made' > made => config' \in everInForce' \/ config # None,
         to.at = "patch" => to.rev \in everInForce',
         to.at = "cancel" => to.rev <= made'
  PROVE  RulesInv'
<1>0. /\ RulesTypeOK /\ CopiesWereInForce
      /\ made > 0 => config # None
      /\ made \in Nat /\ made' \in Nat /\ None \notin Nat /\ job \in [Admins -> Jobs]
  BY BillingRulesAssumption DEF RulesInv, RulesTypeOK
<1>2. /\ phase = "up"
      /\ job' \in [Admins -> Jobs]
      /\ \A b \in Admins : job'[b] = IF b = a THEN to ELSE job[b]
      /\ UNCHANGED <<phase, now, sync, page, cron, saves, crashes>>
  BY AdminMoves
<1>3. config # None /\ cached # None /\ config \in 1 .. made /\ cached \in 1 .. made
  BY <1>0, <1>2 DEF RulesTypeOK
<1>4. config' \in 1 .. made' /\ cached' \in 1 .. made' /\ config' # None /\ cached' # None
  <2>1. \A x \in 1 .. made' : x # None
    BY <1>0
  <2>2. 1 .. made \subseteq 1 .. made'
    BY <1>0
  <2>3. config' \in 1 .. made' /\ cached' \in 1 .. made'
    BY <1>3, <2>2
  <2> QED
    BY <2>1, <2>3
<1>5. RulesTypeOK'
  BY <1>0, <1>2, <1>4 DEF RulesTypeOK
<1>6. CopiesWereInForce'
  <2>1. {config', cached'} \subseteq everInForce' \cup {None}
    BY <1>0 DEF CopiesWereInForce
  <2>2. \A s \in Syncs : sync'[s] \in everInForce' \cup {None}
    BY <1>0, <1>2 DEF CopiesWereInForce
  <2>3. \A b \in Admins : /\ job'[b].at = "patch" => job'[b].rev \in everInForce'
                          /\ job'[b].at = "cancel" => job'[b].rev <= made'
    <3>1. TAKE b \in Admins
    <3>2. CASE b = a
      BY <1>2, <3>2
    <3>3. CASE b # a
      <4>1. job'[b] = job[b] /\ job[b] \in Jobs
        BY <1>0, <1>2, <3>3
      <4>2. job[b].at = "cancel" => job[b].rev \in Nat
        BY <4>1, JobsAre DEF Revisions
      <4> QED
        <5>1. job[b].at = "patch" => job[b].rev \in everInForce
          BY <1>0 DEF CopiesWereInForce
        <5>2. job[b].at = "cancel" => job[b].rev <= made'
          BY <1>0, <4>2 DEF CopiesWereInForce
        <5> QED
          BY <4>1, <5>1, <5>2
    <3> QED
      BY <3>2, <3>3
  <2>4. \A p \in Pages : page'[p].at # "closed" => page'[p].rev \in everInForce'
    BY <1>0, <1>2 DEF CopiesWereInForce
  <2>5. cron'.at = "chosen" => cron'.rev <= made'
    <3>1. cron \in Activations /\ cron' = cron
      BY <1>0, <1>2 DEF RulesTypeOK
    <3>2. cron.at = "chosen" => cron.rev \in Nat /\ cron.rev <= made
      BY <1>0, <3>1, CronIs DEF CopiesWereInForce, Revisions
    <3> QED
      BY <1>0, <3>1, <3>2
  <2>6. cron'.at = "applied" => cron'.rev \in everInForce'
    BY <1>0, <1>2 DEF CopiesWereInForce
  <2> QED
    BY <2>1, <2>2, <2>3, <2>4, <2>5, <2>6 DEF CopiesWereInForce
<1> QED
  BY <1>4, <1>5, <1>6 DEF RulesInv

LEMMA UpdateRules ==
  ASSUME RulesInv, NEW a \in Admins, NEW time \in Times, UpdateBillingRules(a, time)
  PROVE  RulesInv'
<1> DEFINE to == [at |-> "publish", time |-> time, immediate |-> time = now]
<1>1. to \in Jobs
  BY DEF Jobs
<1>2. Becomes(a, "idle", to) /\ UNCHANGED <<made, effective, canceled, config, everInForce, cached>>
  BY DEF UpdateBillingRules, tables
<1> HIDE DEF to
<1>3. to.at = "publish"
  BY DEF to
<1> QED
  BY <1>1, <1>2, <1>3, AdminKeeps DEF RulesInv, RulesTypeOK

LEMMA PersistRules ==
  ASSUME RulesInv, NEW a \in Admins, PersistBillingRulesUpdate(a)
  PROVE  RulesInv'
<1>0. /\ job[a] \in Jobs /\ job[a].at = "publish" /\ made \in Nat /\ None \notin Nat
      /\ everInForce \subseteq 1 .. made /\ canceled \subseteq 1 .. made
  BY BillingRulesAssumption
     DEF RulesInv, RulesTypeOK, PersistBillingRulesUpdate
<1>1. job[a].time \in Times /\ job[a].immediate \in BOOLEAN
  BY <1>0, JobsAre
<1>2. NewRevision(job[a].time) /\ cached' = cached
  BY DEF PersistBillingRulesUpdate
<1>3. /\ made' = made + 1 /\ made' \in 0 .. MaxRevisions /\ made' \in Revisions
      /\ effective' \in [Revisions -> Times]
      /\ 1 .. made \subseteq 1 .. made'
  BY <1>1, <1>2, NewRevisionKeepsTables
<1>4. CASE job[a].immediate
  <2> DEFINE to == [at |-> "patch", rev |-> made + 1]
  <2>1. /\ canceled' \subseteq 1 .. made
        /\ config' = made + 1 /\ everInForce' = everInForce \cup {made + 1}
        /\ Becomes(a, "publish", to)
    BY <1>0, <1>4 DEF PersistBillingRulesUpdate, PutInForce
  <2>2. to \in Jobs /\ to.at = "patch" /\ to.rev = made + 1
    BY <1>3 DEF Jobs
  <2> HIDE DEF to
  <2>3. everInForce' \subseteq 1 .. made' /\ canceled' \subseteq 1 .. made'
    <3>1. made + 1 \in 1 .. made'
      BY <1>0, <1>3
    <3> QED
      BY <1>0, <1>3, <2>1, <3>1
  <2> QED
    BY <1>0, <1>2, <1>3, <2>1, <2>2, <2>3, AdminKeeps
<1>5. CASE ~ job[a].immediate
  <2>1. /\ UNCHANGED <<canceled, config, everInForce>>
        /\ Becomes(a, "publish", Idle)
    BY <1>5 DEF PersistBillingRulesUpdate
  <2>2. phase = "up" /\ config # None
    BY <2>1 DEF Becomes, RulesInv, RulesTypeOK
  <2>3. everInForce' \subseteq 1 .. made' /\ canceled' \subseteq 1 .. made'
    BY <1>0, <1>3, <2>1
  <2> QED
    BY <1>0, <1>2, <1>3, <2>1, <2>2, <2>3, AdminKeeps, IdleIs
<1> QED
  BY <1>1, <1>4, <1>5

LEMMA OtherAdminRules ==
  ASSUME RulesInv, NEW a \in Admins,
         \/ UpdateFails(a) \/ PatchPublished(a) \/ InsertCancellation(a)
         \/ \E r \in Revisions : CancelBillingRuleRevision(a, r)
  PROVE  RulesInv'
<1>0. /\ job[a] \in Jobs /\ made \in 0 .. MaxRevisions
      /\ effective \in [Revisions -> Times]
      /\ everInForce \subseteq 1 .. made /\ canceled \subseteq 1 .. made
      /\ job[a].at = "patch" => job[a].rev \in everInForce
      /\ job[a].at = "cancel" => job[a].rev \in Revisions /\ job[a].rev <= made
  BY JobsAre DEF RulesInv, RulesTypeOK, CopiesWereInForce
<1>1. CASE UpdateFails(a)
  <2>1. /\ Becomes(a, "publish", Idle)
        /\ UNCHANGED <<made, effective, canceled, config, everInForce, cached>>
    BY <1>1 DEF UpdateFails, tables
  <2> QED
    BY <1>0, <2>1, AdminKeeps, IdleIs
<1>2. CASE PatchPublished(a)
  <2>1. /\ Becomes(a, "patch", Idle) /\ cached' = job[a].rev
        /\ UNCHANGED <<made, effective, canceled, config, everInForce>>
    BY <1>2 DEF PatchPublished, tables
  <2>2. job[a].at = "patch"
    BY <2>1, IdleIs, AdminMoves
  <2> QED
    BY <1>0, <2>1, <2>2, AdminKeeps, IdleIs
<1>3. CASE InsertCancellation(a)
  <2>1. /\ Becomes(a, "cancel", Idle) /\ canceled' = canceled \cup {job[a].rev}
        /\ UNCHANGED <<made, effective, config, everInForce, cached>>
    BY <1>3 DEF InsertCancellation
  <2>2. job[a].at = "cancel"
    BY <2>1, IdleIs, AdminMoves
  <2>3. job[a].rev \in 1 .. made
    BY <1>0, <2>2 DEF Revisions
  <2>4. canceled' \subseteq 1 .. made
    BY <1>0, <2>1, <2>3
  <2> QED
    BY <1>0, <2>1, <2>4, AdminKeeps, IdleIs
<1>4. ASSUME NEW r \in Revisions, CancelBillingRuleRevision(a, r)
      PROVE  RulesInv'
  <2> DEFINE to == [at |-> "cancel", rev |-> r]
  <2>1. /\ Becomes(a, "idle", to) /\ r <= made
        /\ UNCHANGED <<made, effective, canceled, config, everInForce, cached>>
    BY <1>4 DEF CancelBillingRuleRevision, tables
  <2>2. to \in Jobs /\ to.at = "cancel" /\ to.rev = r
    BY DEF Jobs
  <2> HIDE DEF to
  <2> QED
    BY <1>0, <2>1, <2>2, AdminKeeps
<1> QED
  BY <1>1, <1>2, <1>3, <1>4

-----------------------------------------------------------------------------
(* Syncs and settings pages.                                               *)

LEMMA InForceIsMade ==
  RulesInv => \A r \in everInForce : r \in 1 .. made /\ r # None
<1> SUFFICES ASSUME RulesInv, NEW r \in everInForce
             PROVE  r \in 1 .. made /\ r # None
  OBVIOUS
<1>1. r \in 1 .. made /\ made \in Nat /\ None \notin Nat
  BY BillingRulesAssumption DEF RulesInv, RulesTypeOK
<1>2. r \in Nat
  BY <1>1
<1> QED
  BY <1>1, <1>2

LEMMA SyncRules ==
  ASSUME RulesInv, NEW s \in Syncs, SyncRead(s) \/ SyncStore(s)
  PROVE  RulesInv'
<1>0. /\ RulesTypeOK /\ CopiesWereInForce
      /\ made > 0 => config # None
      /\ None \notin Nat /\ everInForce \subseteq 1 .. made
      /\ made \in 0 .. MaxRevisions /\ MaxRevisions \in Nat
      /\ sync \in [Syncs -> Revisions \cup {None}]
  BY BillingRulesAssumption DEF RulesInv, RulesTypeOK
<1>1. UNCHANGED <<phase, now, made, effective, canceled, config, everInForce, job, page, cron,
                  saves, crashes>>
  BY DEF SyncRead, SyncStore, tables, bounds
<1>2. \/ cached' = cached /\ sync' = [sync EXCEPT ![s] = config]
      \/ cached' = sync[s] /\ sync[s] # None /\ sync' = [sync EXCEPT ![s] = None]
  BY DEF SyncRead, SyncStore, RebuiltMap
<1>3. /\ sync' \in [Syncs -> Revisions \cup {None}]
      /\ \A z \in Syncs : sync'[z] \in everInForce \cup {None}
  <2>1. config \in everInForce \cup {None} /\ config \in Revisions \cup {None}
    BY <1>0 DEF CopiesWereInForce, RulesTypeOK, Revisions
  <2> QED
    BY <1>0, <1>2, <2>1 DEF CopiesWereInForce
<1>4. cached' = cached \/ cached' \in everInForce
  BY <1>0, <1>2 DEF CopiesWereInForce
<1>5. RulesTypeOK'
  <2>1. \A x \in everInForce : x \in 1 .. made /\ x # None
    BY InForceIsMade
  <2> QED
    BY <1>0, <1>1, <1>3, <1>4, <2>1 DEF RulesTypeOK
<1>6. CopiesWereInForce'
  BY <1>0, <1>1, <1>3, <1>4 DEF CopiesWereInForce
<1> QED
  BY <1>0, <1>1, <1>5, <1>6 DEF RulesInv

\* a page takes what is in force, and writes back what it took
LEMMA PageKeeps ==
  ASSUME RulesInv, NEW p \in Pages, NEW to \in PageStates, PageBecomes(p, to),
         UNCHANGED <<made, effective, canceled>>,
         everInForce' = everInForce,
         config' = config \/ config' \in everInForce,
         cached' = cached \/ cached' \in everInForce,
         saves' \in 0 .. MaxSaves,
         to.at # "closed" => to.rev \in everInForce
  PROVE  RulesInv'
<1>0. /\ RulesTypeOK /\ CopiesWereInForce
      /\ made > 0 => config # None
      /\ None \notin Nat /\ everInForce \subseteq 1 .. made /\ made \in Nat
      /\ page \in [Pages -> PageStates]
  BY BillingRulesAssumption DEF RulesInv, RulesTypeOK
<1>1. phase = "up" /\ page' = [page EXCEPT ![p] = to]
      /\ UNCHANGED <<phase, now, job, sync, cron, crashes>>
  BY DEF PageBecomes
<1>2. /\ page' \in [Pages -> PageStates]
      /\ \A q \in Pages : page'[q].at # "closed" => page'[q].rev \in everInForce
  BY <1>0, <1>1 DEF CopiesWereInForce
<1>3. /\ config' \in 1 .. made /\ config' # None
      /\ cached' \in 1 .. made /\ cached' # None
  <2>1. \A x \in everInForce : x \in 1 .. made /\ x # None
    BY InForceIsMade
  <2> QED
    BY <1>0, <1>1, <2>1 DEF RulesTypeOK
<1>4. RulesTypeOK'
  BY <1>0, <1>1, <1>2, <1>3 DEF RulesTypeOK
<1>5. CopiesWereInForce'
  BY <1>0, <1>1, <1>2 DEF CopiesWereInForce
<1> QED
  BY <1>0, <1>3, <1>4, <1>5 DEF RulesInv

LEMMA PageRules ==
  ASSUME RulesInv, NEW p \in Pages,
         \/ GetSysConfigs(p) \/ BatchUpdateSysConfigs(p)
         \/ SavedRead(p) \/ SavedStore(p)
  PROVE  RulesInv'
<1>0. /\ page[p] \in PageStates
      /\ page[p].at # "closed" =>
           /\ page[p].rev \in Revisions /\ page[p].rev \in everInForce
           /\ page[p] = [at |-> page[p].at, rev |-> page[p].rev]
      /\ saves \in 0 .. MaxSaves /\ MaxSaves \in Nat
  BY PagesAre, BillingRulesAssumption
     DEF RulesInv, RulesTypeOK, CopiesWereInForce
<1>1. phase = "up" => config \in everInForce /\ config \in Revisions
  BY BillingRulesAssumption
     DEF RulesInv, RulesTypeOK, CopiesWereInForce, Revisions
<1>2. CASE GetSysConfigs(p) \/ SavedRead(p)
  <2>1. PICK at \in {"open", "read"} : PageBecomes(p, [at |-> at, rev |-> config])
    BY <1>2 DEF GetSysConfigs, SavedRead
  <2>2. UNCHANGED <<made, effective, canceled, config, everInForce, cached, saves>>
    BY <1>2 DEF GetSysConfigs, SavedRead, tables
  <2>3. phase = "up"
    BY <2>1 DEF PageBecomes
  <2> DEFINE to == [at |-> at, rev |-> config]
  <2>4. to \in PageStates /\ to.rev = config
    BY <1>1, <2>3 DEF PageStates
  <2>5. PageBecomes(p, to)
    BY <2>1
  <2> HIDE DEF to
  <2> QED
    BY <1>0, <1>1, <2>2, <2>3, <2>4, <2>5, PageKeeps
<1>3. CASE BatchUpdateSysConfigs(p)
  <2> DEFINE to == [page[p] EXCEPT !.at = "saved"]
  <2>1. /\ PageBecomes(p, to) /\ page[p].at = "open" /\ saves < MaxSaves /\ saves' = saves + 1
        /\ config' = page[p].rev /\ everInForce' = everInForce \cup {page[p].rev}
        /\ UNCHANGED <<made, effective, canceled, cached>>
    BY <1>3 DEF BatchUpdateSysConfigs, PutInForce
  <2>2. to \in PageStates /\ to.rev = page[p].rev
    BY <1>0, <2>1 DEF PageStates
  <2>3. saves' \in 0 .. MaxSaves /\ everInForce' = everInForce /\ config' \in everInForce
    BY <1>0, <2>1
  <2> HIDE DEF to
  <2> QED
    BY <1>0, <2>1, <2>2, <2>3, PageKeeps
<1>4. CASE SavedStore(p)
  <2>1. /\ page[p].at = "read" /\ cached' = page[p].rev /\ PageBecomes(p, IdlePage)
        /\ UNCHANGED <<made, effective, canceled, config, everInForce, saves>>
    BY <1>4 DEF SavedStore, RebuiltMap, tables
  <2> QED
    BY <1>0, <2>1, PageKeeps, IdleIs
<1> QED
  BY <1>2, <1>3, <1>4

-----------------------------------------------------------------------------
(* The theorems.                                                           *)

LEMMA NextRulesInv == RulesInv /\ [RulesNext]_rulesVars => RulesInv'
<1> SUFFICES ASSUME RulesInv, [RulesNext]_rulesVars
             PROVE  RulesInv'
  OBVIOUS
<1>1. CASE UNCHANGED rulesVars
  <2>1. UNCHANGED <<phase, now, made, effective, canceled, config, cached, everInForce, job,
                    sync, page, cron, saves, crashes>>
    BY <1>1 DEF rulesVars, tables, work, bounds
  <2> QED
    BY <2>1, BillingRulesAssumption
       DEF RulesInv, RulesTypeOK, CopiesWereInForce
<1>2. CASE RulesNext
  <2>1. CASE Start \/ ProcessEnds \/ Tick
    BY <2>1, StartRules, CrashRules, TickRules
  <2>2. CASE \/ \E r \in Revisions : Choose(r)
             \/ Apply \/ ApplyFails \/ PatchApplied
    BY <2>2, CronRules
  <2>3. ASSUME NEW a \in Admins,
               \/ \E time \in Times : UpdateBillingRules(a, time)
               \/ \E r \in Revisions : CancelBillingRuleRevision(a, r)
               \/ AdminStep(a)
        PROVE  RulesInv'
    BY <2>3, UpdateRules, PersistRules, OtherAdminRules DEF AdminStep
  <2>4. ASSUME NEW s \in Syncs, SyncRead(s) \/ SyncStore(s)
        PROVE  RulesInv'
    BY <2>4, SyncRules
  <2>5. ASSUME NEW p \in Pages,
               GetSysConfigs(p) \/ BatchUpdateSysConfigs(p) \/ SaveStep(p)
        PROVE  RulesInv'
    BY <2>5, PageRules DEF SaveStep
  <2> QED
    BY <1>2, <2>1, <2>2, <2>3, <2>4, <2>5 DEF RulesNext
<1> QED
  BY <1>1, <1>2

\* The tables refer only to revisions that exist, and a process that serves has
\* something in force and something to charge by, wherever it crashed before.
THEOREM RulesTypeCorrect == RulesSpec => []RulesTypeOK
<1>1. RulesInv => RulesTypeOK
  BY DEF RulesInv
<1> QED
  BY <1>1, InitRulesInv, NextRulesInv, PTL DEF RulesSpec

\* A step puts in force, or in the cache, only what has been in force, what
\* is new, or what the transaction found not canceled.
LEMMA CanceledStep ==
  ASSUME RulesInv, [RulesNext]_rulesVars, NEW r \in canceled \ everInForce
  PROVE  config' # r /\ cached' # r
<1>0. /\ made \in Nat /\ r \in 1 .. made /\ None \notin Nat /\ r # config /\ r # cached
      /\ cron \in Activations
      /\ CopiesWereInForce
  BY BillingRulesAssumption DEF RulesInv, RulesTypeOK, CopiesWereInForce
<1>1. CASE config' = config /\ cached' = cached
  BY <1>0, <1>1
<1>2. CASE Start
  <2>1. config' = config \/ (made = 0 /\ config' = 1)
    BY <1>2 DEF Start, SeedCurrentBillingRuleRevision, PutInForce, tables
  <2> QED
    BY <1>0, <1>2, <2>1 DEF Start
<1>3. CASE ProcessEnds
  BY <1>0, <1>3 DEF ProcessEnds, tables
<1>4. CASE Apply
  BY <1>0, <1>4 DEF Apply, MayApply, PutInForce
<1>5. CASE PatchApplied
  BY <1>0, <1>5 DEF PatchApplied, tables, CopiesWereInForce
<1>6. ASSUME NEW a \in Admins, AdminStep(a)
      PROVE  config' # r /\ cached' # r
  <2>1. CASE PersistBillingRulesUpdate(a)
    <3>1. cached' = cached /\ (config' = config \/ config' = made + 1)
      BY <2>1 DEF PersistBillingRulesUpdate, PutInForce
    <3> QED
      BY <1>0, <3>1
  <2>2. CASE PatchPublished(a)
    BY <1>0, <2>2 DEF PatchPublished, Becomes, tables, CopiesWereInForce
  <2>3. CASE InsertCancellation(a) \/ UpdateFails(a)
    BY <1>0, <2>3 DEF InsertCancellation, UpdateFails, tables
  <2> QED
    BY <1>6, <2>1, <2>2, <2>3 DEF AdminStep
<1>7. ASSUME NEW s \in Syncs, SyncStore(s)
      PROVE  config' # r /\ cached' # r
  BY <1>0, <1>7 DEF SyncStore, RebuiltMap, tables, CopiesWereInForce
<1>8. ASSUME NEW p \in Pages, BatchUpdateSysConfigs(p) \/ SavedStore(p)
      PROVE  config' # r /\ cached' # r
  BY <1>0, <1>8
     DEF BatchUpdateSysConfigs, SavedStore, PutInForce, RebuiltMap,
         tables, CopiesWereInForce
<1>9. CASE \/ Tick \/ ApplyFails \/ UNCHANGED rulesVars
           \/ \E z \in Revisions : Choose(z)
           \/ \E a \in Admins : \/ \E time \in Times : UpdateBillingRules(a, time)
                                \/ \E z \in Revisions : CancelBillingRuleRevision(a, z)
           \/ \E s \in Syncs : SyncRead(s)
           \/ \E p \in Pages : GetSysConfigs(p) \/ SavedRead(p)
  <2>1. config' = config /\ cached' = cached
    BY <1>9
       DEF Tick, ApplyFails, Choose, UpdateBillingRules,
           CancelBillingRuleRevision, SyncRead, GetSysConfigs, SavedRead,
           rulesVars, tables
  <2> QED
    BY <1>1, <2>1
<1> QED
  BY <1>2, <1>3, <1>4, <1>5, <1>6, <1>7, <1>8, <1>9 DEF RulesNext, SaveStep

\* A revision canceled before it came into force never does and is never
\* charged by, whoever had chosen, read or displayed the rules before.
THEOREM CanceledNeverUsedHolds == RulesSpec => CanceledNeverUsed
<1>1. RulesInv /\ [RulesNext]_rulesVars
        => [\A r \in canceled \ everInForce : config' # r /\ cached' # r]_rulesVars
  BY CanceledStep
<1> QED
  BY <1>1, InitRulesInv, NextRulesInv, PTL DEF RulesSpec, CanceledNeverUsed
=============================================================================
