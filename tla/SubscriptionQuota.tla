--------------------------- MODULE SubscriptionQuota ---------------------------
(***************************************************************************)
(* Who pays for an API turn of one user: a subscription, the balance, or   *)
(* nobody until an admin reconciles it.  Decide runs twice, before the     *)
(* request is forwarded (precheck, which writes nothing) and after the     *)
(* answer was delivered (commit), and asks the user's subscriptions one by *)
(* one.  The counters belong to the user and the plan, so subscriptions    *)
(* that carry the same plan share its window.  A database transaction is   *)
(* one step: SQLite has one writer, and a transaction whose snapshot is    *)
(* out of date at its first write fails, which is one of the faults below. *)
(***************************************************************************)
EXTENDS Integers, FiniteSets

CONSTANTS
    Subs,           \* UserSubscription rows, numbered by ConsumptionOrder
    Granted,        \* those an admin gave away (IsGranted)
    Plans,          \* quota plans that match the requested model
    PlansOf,        \* the plans in the snapshot of each subscription
    Rank,           \* their Priority
    Limit,          \* LimitValue * QuantityMultiplier in the snapshot; 0: none
    Strategy,       \* OverflowStrategy in the snapshot
    Windowed,       \* plans with WindowSeconds > 0
    Turns,          \* requests
    Nobody,         \* no subscription
    Estimate,       \* what the precheck asks of each plan for each turn
    Use,            \* what the commit asks
    FallbackToQuota,\* config subscription_engine_fallback_to_quota
    MaxFaults,      \* bound: failing database calls and crashes
    MaxMoves        \* bound: what users, admins, crons and the clock do between

Strategies == {"block", "next_subscription", "overdraft"}

ASSUME QuotaAssumption ==
    /\ Subs \subseteq Nat /\ IsFiniteSet(Subs)
    /\ Nobody \notin Subs
    /\ Granted \subseteq Subs
    /\ PlansOf \in [Subs -> SUBSET Plans]
    /\ Rank \in [Plans -> Nat]
    /\ Limit \in [Subs -> [Plans -> Nat]]
    /\ Strategy \in [Subs -> [Plans -> Strategies]]
    /\ Windowed \subseteq Plans
    /\ Estimate \in [Turns -> [Plans -> Nat]]
    /\ Use \in [Turns -> [Plans -> Nat]]
    /\ FallbackToQuota \in BOOLEAN
    /\ MaxFaults \in Nat
    /\ MaxMoves \in Nat

VARIABLES
    status,         \* UserSubscription.Status; closed: any status but active
    over,           \* its end_at has passed
    bucket,         \* the user's entry in subCache
    cache,          \* the subscriptions in it
    rows,           \* what the turn that loads the entry has read
    stale,          \* a subscription was written, its handler invalidates next
    opened,         \* the SubscriptionUsage row of a plan exists
    used,           \* its ConsumedValue
    ended,          \* its window_end_at has passed
    enabled,        \* User.BalanceConsumeEnabled
    tracked,        \* the turns in User.BalanceConsumedInWindow
    step,           \* where a turn is
    served,         \* its answer was delivered: Decide runs for the commit
    optIn,          \* BalanceConsumeEnabled in its copy of the user
    queue,          \* subscriptions Decide has not tried yet
    taker,          \* the subscription that took the turn
    counted,        \* history: the plans it was counted in
    faulted,        \* history: a database call of its commit failed
    entry,          \* its billing entry exists
    apiLog,         \* its ApiLog row; recent in the first hour
    writer,         \* the goroutine of RecordApiLogRevenue runs
    revenue,        \* its ApiLogRevenue row
    faults, moves   \* so far

subs    == <<status, over>>
lookup  == <<bucket, cache, rows, stale>>
windows == <<opened, used, ended>>
balance == <<enabled, tracked>>
turn    == <<step, served, optIn, queue, taker>>
history == <<counted, faulted>>
books   == <<entry, apiLog, writer, revenue>>
vars    == <<subs, lookup, windows, balance, turn, history, books, faults, moves>>

Asking == {"asking", "waiting", "loading"}
Final == {"refused", "covered", "charged", "pending", "lost", "unbilled"}
Steps == Asking \cup Final \cup {"idle", "deciding", "serving", "falling"}

-----------------------------------------------------------------------------
(* The windows of the plans *)

\* A row that does not exist yet and a window that has passed start from nothing.
Fresh(p) == ~opened[p] \/ (p \in Windowed /\ ended[p])

Base(p) == IF Fresh(p) THEN 0 ELSE used[p]

Exceeds(s, p, delta) == Limit[s][p] > 0 /\ Base(p) + delta > Limit[s][p]

UsedUp(s, p) == Limit[s][p] > 0 /\ Base(p) >= Limit[s][p]

\* exceedsLimitCheck with isPrecheck
PrecheckFails(s, t) ==
    {p \in PlansOf[s] : IF Strategy[s][p] = "overdraft" THEN UsedUp(s, p)
                        ELSE Exceeds(s, p, Estimate[t][p])}

\* mutant: the commit checks what the precheck estimated
CommitFailsByEstimate(s, t) ==
    {p \in PlansOf[s] : Strategy[s][p] # "overdraft" /\ Exceeds(s, p, Estimate[t][p])}

\* exceedsLimitCheck at commit, which the conditional UPDATE repeats
CommitFails(s, t) ==
    {p \in PlansOf[s] : Strategy[s][p] # "overdraft" /\ Exceeds(s, p, Use[t][p])}

\* The plan whose refusal ends the transaction: they are tried by Priority.
Refusing(failing) == {p \in failing : \A q \in failing : Rank[p] <= Rank[q]}

Open(s) == status[s] = "active" /\ ~over[s]

\* Decide asks s next.
Asks(t, s) == s \in queue[t] /\ \A r \in queue[t] : s <= r

\* The rows of the plans in `taking` are inserted, set to the delta when their
\* window has passed, or increased.
Consume(t, taking) ==
    /\ opened' = [p \in Plans |-> opened[p] \/ p \in taking]
    /\ used' = [p \in Plans |-> IF p \in taking THEN Base(p) + Use[t][p] ELSE used[p]]
    /\ ended' = [p \in Plans |-> ended[p] /\ ~(p \in taking /\ Fresh(p))]
    /\ counted' = [counted EXCEPT ![t] = @ \cup taking]

Fault == faults < MaxFaults /\ faults' = faults + 1 /\ UNCHANGED moves

Move == moves < MaxMoves /\ moves' = moves + 1 /\ UNCHANGED faults

WindowEnds(p) ==
    /\ Move
    /\ p \in Windowed
    /\ opened[p] /\ ~ended[p]
    /\ ended' = [ended EXCEPT ![p] = TRUE]
    /\ UNCHANGED <<subs, lookup, opened, used, balance, turn, counted, faulted, books>>

\* The counters of the plans of the subscriptions that match; windows stay.
AdminResetSubscriptionUsage(matched) ==
    LET cleared == {p \in UNION {PlansOf[s] : s \in matched} : opened[p]}
    IN  /\ Move
        /\ used' = [p \in Plans |-> IF p \in cleared THEN 0 ELSE used[p]]
        /\ stale' = TRUE
        /\ UNCHANGED <<subs, bucket, cache, rows, opened, ended, balance, turn,
                       counted, faulted, books>>

-----------------------------------------------------------------------------
(* Subscriptions and the cache of them *)

SetStatus(s, from, to) ==
    /\ Move
    /\ status[s] = from
    /\ status' = [status EXCEPT ![s] = to]
    /\ stale' = TRUE
    /\ UNCHANGED <<over, bucket, cache, rows, windows, balance, turn, history,
                   books>>

\* Bought or granted.
Begin(s) == ~over[s] /\ SetStatus(s, "none", "active")

\* Canceled by the user, refunded or revoked by an admin.
Stop(s) == SetStatus(s, "active", "closed")

\* The conditional update of expireSubscriptions, after a grace period.
ExpireSubscription(s) == over[s] /\ SetStatus(s, "active", "closed")

SubEnds(s) ==
    /\ Move
    /\ ~over[s]
    /\ over' = [over EXCEPT ![s] = TRUE]
    /\ UNCHANGED <<status, lookup, windows, balance, turn, history, books>>

InvalidateUserSubscriptionCache ==
    /\ stale
    /\ stale' = FALSE
    /\ bucket' = "absent"
    /\ cache' = {}
    /\ UNCHANGED <<subs, rows, windows, balance, turn, history, books, faults, moves>>

\* The lifetime of the entry ends, or it is evicted for another user's.
AgeCache ==
    /\ Move
    /\ \/ bucket = "fresh" /\ bucket' = "expired" /\ UNCHANGED cache
       \/ bucket # "absent" /\ bucket' = "absent" /\ cache' = {}
    /\ UNCHANGED <<subs, rows, stale, windows, balance, turn, history, books>>

\* Decide gets the list and begins with the first.
Got(t, list) ==
    /\ step' = [step EXCEPT ![t] = "deciding"]
    /\ queue' = [queue EXCEPT ![t] = list]
    /\ UNCHANGED <<served, optIn, taker>>

\* NeedsRetry: the precheck answers 503, the commit leaves a [DB-RETRY] entry;
\* written is FALSE when it could not be written in three attempts.
NeedsRetry(t, written) ==
    /\ step' = [step EXCEPT ![t] = IF ~served[t] THEN "refused"
                                   ELSE IF written THEN "pending" ELSE "lost"]
    /\ faulted' = [faulted EXCEPT ![t] = served[t]]
    /\ UNCHANGED <<served, optIn, queue, taker, counted>>

HitCache(t) ==
    /\ step[t] = "asking"
    /\ bucket = "fresh"
    /\ Got(t, cache)
    /\ UNCHANGED <<subs, lookup, windows, balance, history, books, faults, moves>>

\* One turn loads (subLoadInFlght), the others wait for it.
LoadRead(t) ==
    /\ step[t] = "asking"
    /\ bucket # "fresh"
    /\ \A u \in Turns : step[u] # "loading"
    /\ step' = [step EXCEPT ![t] = "loading"]
    /\ rows' = {s \in Subs : Open(s)}
    /\ UNCHANGED <<subs, bucket, cache, stale, windows, balance, served, optIn,
                   queue, taker, history, books, faults, moves>>

\* The entry is stored whatever was invalidated since it was read.
LoadFill(t) ==
    /\ step[t] = "loading"
    /\ bucket' = "fresh"
    /\ cache' = rows
    /\ rows' = {}
    /\ Got(t, rows)
    /\ UNCHANGED <<subs, stale, windows, balance, history, books, faults, moves>>

LoadFault(t, written) ==
    /\ step[t] = "loading"
    /\ Fault
    /\ rows' = {}
    /\ NeedsRetry(t, written)
    /\ UNCHANGED <<subs, bucket, cache, stale, windows, balance, books>>

WaitForLoad(t) ==
    /\ step[t] = "asking"
    /\ bucket # "fresh"
    /\ \E u \in Turns : step[u] = "loading"
    /\ step' = [step EXCEPT ![t] = "waiting"]
    /\ UNCHANGED <<subs, lookup, windows, balance, served, optIn, queue, taker,
                   history, books, faults, moves>>

\* mutant: no entry is taken for no subscription
FollowWithoutError(t, written) ==
    /\ step[t] = "waiting"
    /\ Got(t, cache)
    /\ faulted' = [faulted EXCEPT ![t] = served[t] /\ bucket = "absent"]
    /\ UNCHANGED <<subs, lookup, windows, balance, counted, books, faults, moves>>

\* mutant: waits for the entry
FollowTheEntry(t, written) ==
    /\ step[t] = "waiting"
    /\ \A u \in Turns : step[u] # "loading"
    /\ bucket # "absent"
    /\ Got(t, cache)
    /\ UNCHANGED <<subs, lookup, windows, balance, history, books, faults, moves>>

\* Once the load has ended; an entry that is gone again counts as a failed load.
Follow(t, written) ==
    /\ step[t] = "waiting"
    /\ \A u \in Turns : step[u] # "loading"
    /\ \/ bucket # "absent" /\ Got(t, cache) /\ UNCHANGED history
       \/ bucket = "absent" /\ NeedsRetry(t, written)
    /\ UNCHANGED <<subs, lookup, windows, balance, books, faults, moves>>

-----------------------------------------------------------------------------
(* Precheck *)

\* The auth cache may hold any earlier version of the user.
StartTurn(t, opted) ==
    /\ step[t] = "idle"
    /\ step' = [step EXCEPT ![t] = "asking"]
    /\ optIn' = [optIn EXCEPT ![t] = opted]
    /\ UNCHANGED <<subs, lookup, windows, balance, served, queue, taker, history,
                   books, faults, moves>>

\* No subscription row that is active, no plan that matches, or a soft refusal.
Skips(s, failing) ==
    \/ ~Open(s) \/ PlansOf[s] = {}
    \/ \E p \in Refusing(failing) : Strategy[s][p] # "block"

Takes(s, failing) == Open(s) /\ PlansOf[s] # {} /\ failing = {}

HardBlocks(s, failing) ==
    /\ Open(s)
    /\ \E p \in Refusing(failing) : Strategy[s][p] = "block"

NextSub(t, s) == queue' = [queue EXCEPT ![t] = @ \ {s}]

PrecheckSub(t, s) ==
    LET failing == PrecheckFails(s, t)
    IN  /\ step[t] = "deciding" /\ ~served[t]
        /\ Asks(t, s)
        /\ \/ Skips(s, failing) /\ NextSub(t, s) /\ UNCHANGED step
           \/ Takes(s, failing) /\ step' = [step EXCEPT ![t] = "serving"] /\ UNCHANGED queue
           \/ HardBlocks(s, failing) /\ step' = [step EXCEPT ![t] = "refused"]
                                     /\ UNCHANGED queue
        /\ UNCHANGED <<subs, lookup, windows, balance, served, optIn, taker,
                       counted, faulted, books, faults, moves>>

\* No subscription is left.  afford: the copy of the user has room in its window
\* (CheckBalanceConsumeAllowed) and a balance.
PrecheckBalance(t, afford) ==
    /\ step[t] = "deciding" /\ ~served[t]
    /\ queue[t] = {}
    /\ step' = [step EXCEPT ![t] = IF FallbackToQuota /\ optIn[t] /\ afford
                                   THEN "serving" ELSE "refused"]
    /\ UNCHANGED <<subs, lookup, windows, balance, served, optIn, queue, taker,
                   history, books, faults, moves>>

PrecheckFault(t) ==
    /\ step[t] = "deciding" /\ ~served[t]
    /\ queue[t] # {}
    /\ Fault
    /\ NeedsRetry(t, TRUE)
    /\ UNCHANGED <<subs, lookup, windows, balance, books>>

\* The upstream's call failed; CommitTextTurn, if it is called, only writes a log.
UpstreamFails(t) ==
    /\ step[t] = "serving"
    /\ step' = [step EXCEPT ![t] = "refused"]
    /\ UNCHANGED <<subs, lookup, windows, balance, served, optIn, queue, taker, history,
                   books, faults, moves>>

\* The answer was delivered; Decide follows whatever the turn cost.  The log row is
\* written before, and the turn goes on without it when that fails.
Served(t, apiLogPersisted) ==
    /\ step[t] = "serving"
    /\ IF apiLogPersisted THEN UNCHANGED <<faults, moves>> ELSE Fault
    /\ step' = [step EXCEPT ![t] = "asking"]
    /\ served' = [served EXCEPT ![t] = TRUE]
    /\ apiLog' = [apiLog EXCEPT ![t] = IF apiLogPersisted THEN "recent" ELSE "none"]
    /\ UNCHANGED <<subs, lookup, windows, balance, optIn, queue, taker, history,
                   entry, writer, revenue>>

-----------------------------------------------------------------------------
(* Commit *)

\* The entry and, in a goroutine, the revenue of a turn that is paid; without a
\* log row there is nothing the revenue could be recorded for.
Account(t, written) ==
    /\ entry' = [entry EXCEPT ![t] = written]
    /\ writer' = [writer EXCEPT ![t] = apiLog[t] # "none"]
    /\ UNCHANGED <<apiLog, revenue>>

\* No subscription took the turn: the balance follows, unless the charged cost is
\* 0 and nobody pays.
Untaken(t) == \E next \in {"falling", "unbilled"} : step' = [step EXCEPT ![t] = next]

\* mutant: the plans before the one that refuses stay counted
CommitSubPartly(t, s, written) ==
    LET failing == CommitFails(s, t)
        tried == {p \in PlansOf[s] : \A q \in failing : Rank[p] < Rank[q]}
    IN  /\ step[t] = "deciding" /\ served[t]
        /\ Asks(t, s)
        /\ IF Open(s) THEN Consume(t, tried) ELSE UNCHANGED <<windows, counted>>
        /\ \/ /\ Skips(s, failing)
              /\ NextSub(t, s)
              /\ UNCHANGED <<step, taker, books>>
           \/ /\ Takes(s, failing)
              /\ step' = [step EXCEPT ![t] = "covered"]
              /\ taker' = [taker EXCEPT ![t] = s]
              /\ Account(t, written)
              /\ UNCHANGED queue
           \/ /\ HardBlocks(s, failing)
              /\ Untaken(t)
              /\ UNCHANGED <<queue, taker, books>>
        /\ UNCHANGED <<subs, lookup, balance, served, optIn, faulted, faults, moves>>

\* atomicConsumeMany: every plan of the subscription or none.  A refusal with
\* "block" ends Decide, and CommitTextTurn goes on as if nothing had matched.
CommitSub(t, s, written) ==
    LET failing == CommitFails(s, t)
    IN  /\ step[t] = "deciding" /\ served[t]
        /\ Asks(t, s)
        /\ \/ /\ Skips(s, failing)
              /\ NextSub(t, s)
              /\ UNCHANGED <<windows, step, taker, counted, books>>
           \/ /\ Takes(s, failing)
              /\ Consume(t, PlansOf[s])
              /\ step' = [step EXCEPT ![t] = "covered"]
              /\ taker' = [taker EXCEPT ![t] = s]
              /\ Account(t, written)
              /\ UNCHANGED queue
           \/ /\ HardBlocks(s, failing)
              /\ Untaken(t)
              /\ UNCHANGED <<windows, queue, taker, counted, books>>
        /\ UNCHANGED <<subs, lookup, balance, served, optIn, faulted, faults, moves>>

CommitFault(t, written) ==
    /\ step[t] = "deciding" /\ served[t]
    /\ queue[t] # {}
    /\ Fault
    /\ NeedsRetry(t, written)
    /\ UNCHANGED <<subs, lookup, windows, balance, books>>

\* Whether Decide allowed the balance or not, CommitTextTurn falls back to it.
CommitFalls(t) ==
    /\ step[t] = "deciding" /\ served[t]
    /\ queue[t] = {}
    /\ Untaken(t)
    /\ UNCHANGED <<subs, lookup, windows, balance, served, optIn, queue, taker,
                   history, books, faults, moves>>

\* [UNAUTHORIZED-FALLBACK]
DeferTurn(t, written) ==
    /\ step[t] = "falling"
    /\ ~optIn[t]
    /\ step' = [step EXCEPT ![t] = IF written THEN "pending" ELSE "lost"]
    /\ UNCHANGED <<subs, lookup, windows, balance, served, optIn, queue, taker,
                   history, books, faults, moves>>

\* TryConsumeBalanceTx with forceTrack: expired says that the window had passed.
Track(t, expired) ==
    /\ tracked' = IF enabled THEN (IF expired THEN {} ELSE tracked) \cup {t}
                             ELSE tracked
    /\ UNCHANGED enabled

\* commitTextBalanceTurn: the balance pays, or has not enough and a pending entry
\* is written; the window counts the turn in both cases.
BalanceTurn(t, enough, expired) ==
    /\ step[t] = "falling"
    /\ optIn[t]
    /\ Track(t, expired)
    /\ IF enough
       THEN step' = [step EXCEPT ![t] = "charged"] /\ Account(t, TRUE)
       ELSE step' = [step EXCEPT ![t] = "pending"] /\ UNCHANGED books
    /\ UNCHANGED <<subs, lookup, windows, served, optIn, queue, taker, history, faults, moves>>

\* The transaction is rolled back, and nothing but the log has the turn.
BalanceFault(t) ==
    /\ step[t] = "falling"
    /\ optIn[t]
    /\ Fault
    /\ step' = [step EXCEPT ![t] = "lost"]
    /\ UNCHANGED <<subs, lookup, windows, balance, served, optIn, queue, taker,
                   history, books>>

\* The user switches the consumption of the balance on or off; another length of
\* the window starts it anew.
UpdateMyBalanceConsumePreference(on, anew) ==
    /\ Move
    /\ enabled' = on
    /\ tracked' = IF anew THEN {} ELSE tracked
    /\ UNCHANGED <<subs, lookup, windows, turn, history, books>>

-----------------------------------------------------------------------------
(* Revenue *)

Worth(t) == IF taker[t] \in Granted THEN "free" ELSE "full"

\* recordApiLogRevenueAsyncBody: one row per request; all four attempts may fail.
RecordRevenue(t, stored) ==
    /\ writer[t]
    /\ writer' = [writer EXCEPT ![t] = FALSE]
    /\ IF stored /\ revenue[t] = "none"
       THEN revenue' = [revenue EXCEPT ![t] = Worth(t)]
       ELSE UNCHANGED revenue
    /\ UNCHANGED <<subs, lookup, windows, balance, turn, history, entry, apiLog, faults, moves>>

\* mutant: only the entries of the balance are looked at
MonitorBalanceOrphans(t) ==
    /\ entry[t] /\ apiLog[t] = "recent" /\ revenue[t] = "none"
    /\ step[t] = "charged"
    /\ revenue' = [revenue EXCEPT ![t] = "full"]
    /\ UNCHANGED <<subs, lookup, windows, balance, turn, history, entry, apiLog, writer, faults,
                   moves>>

\* The cron joins the log rows of the last hour to their entries and writes the
\* revenue that is missing.  Its filter on the status of the row leaves no entry
\* out: a request that failed has none.
MonitorApiLogRevenueOrphans(t) ==
    /\ entry[t] /\ apiLog[t] = "recent" /\ revenue[t] = "none"
    /\ revenue' = [revenue EXCEPT ![t] = "full"]
    /\ UNCHANGED <<subs, lookup, windows, balance, turn, history, entry, apiLog, writer, faults,
                   moves>>

\* An hour has passed since the row was written.
ApiLogAges(t) ==
    /\ Move
    /\ apiLog[t] = "recent"
    /\ apiLog' = [apiLog EXCEPT ![t] = "old"]
    /\ UNCHANGED <<subs, lookup, windows, balance, turn, history, entry, writer, revenue>>

\* The process stops: requests in flight are gone, and what is in memory.
Crash ==
    /\ Fault
    /\ step' = [t \in Turns |-> IF step[t] \in Final \cup {"idle"} THEN step[t]
                                ELSE IF served[t] THEN "lost" ELSE "refused"]
    /\ bucket' = "absent"
    /\ cache' = {}
    /\ rows' = {}
    /\ stale' = FALSE
    /\ writer' = [t \in Turns |-> FALSE]
    /\ UNCHANGED <<subs, windows, balance, served, optIn, queue, taker, history,
                   entry, apiLog, revenue>>

-----------------------------------------------------------------------------
Init ==
    /\ status \in [Subs -> {"none", "active"}]
    /\ over \in {o \in [Subs -> BOOLEAN] : \A s \in Subs : o[s] => status[s] = "active"}
    /\ bucket = "absent"
    /\ cache = {}
    /\ rows = {}
    /\ stale = FALSE
    /\ opened = [p \in Plans |-> FALSE]
    /\ used = [p \in Plans |-> 0]
    /\ ended = [p \in Plans |-> FALSE]
    /\ enabled = FALSE
    /\ tracked = {}
    /\ step = [t \in Turns |-> "idle"]
    /\ served = [t \in Turns |-> FALSE]
    /\ optIn = [t \in Turns |-> FALSE]
    /\ queue = [t \in Turns |-> {}]
    /\ taker = [t \in Turns |-> Nobody]
    /\ counted = [t \in Turns |-> {}]
    /\ faulted = [t \in Turns |-> FALSE]
    /\ entry = [t \in Turns |-> FALSE]
    /\ apiLog = [t \in Turns |-> "none"]
    /\ writer = [t \in Turns |-> FALSE]
    /\ revenue = [t \in Turns |-> "none"]
    /\ faults = 0
    /\ moves = 0

SubStep(s) ==
    \/ Begin(s)
    \/ Stop(s)
    \/ ExpireSubscription(s)
    \/ SubEnds(s)

DecideStep(t) ==
    \/ HitCache(t)
    \/ LoadRead(t)
    \/ LoadFill(t)
    \/ WaitForLoad(t)
    \/ \E written \in BOOLEAN : Follow(t, written)
    \/ \E s \in Subs : PrecheckSub(t, s)
    \/ \E afford \in BOOLEAN : PrecheckBalance(t, afford)
    \/ \E s \in Subs, written \in BOOLEAN : CommitSub(t, s, written)
    \/ CommitFalls(t)

UpstreamStep(t) ==
    \/ UpstreamFails(t)
    \/ \E apiLogPersisted \in BOOLEAN : Served(t, apiLogPersisted)

SettleStep(t) ==
    \/ \E written \in BOOLEAN : DeferTurn(t, written)
    \/ \E enough, expired \in BOOLEAN : BalanceTurn(t, enough, expired)

FaultStep(t) ==
    \/ \E written \in BOOLEAN : LoadFault(t, written) \/ CommitFault(t, written)
    \/ PrecheckFault(t)
    \/ BalanceFault(t)

Background ==
    \/ \E p \in Plans : WindowEnds(p)
    \/ \E matched \in SUBSET Subs : AdminResetSubscriptionUsage(matched)
    \/ \E on, anew \in BOOLEAN : UpdateMyBalanceConsumePreference(on, anew)
    \/ InvalidateUserSubscriptionCache
    \/ AgeCache
    \/ Crash

Next ==
    \/ \E s \in Subs : SubStep(s)
    \/ \E t \in Turns, opted \in BOOLEAN : StartTurn(t, opted)
    \/ \E t \in Turns : DecideStep(t) \/ UpstreamStep(t) \/ SettleStep(t) \/ FaultStep(t)
    \/ \E t \in Turns, stored \in BOOLEAN : RecordRevenue(t, stored)
    \/ \E t \in Turns : MonitorApiLogRevenueOrphans(t) \/ ApiLogAges(t)
    \/ Background

\* The goroutine of a request goes on, and the cron runs again and again.  Of the
\* upstream nothing is assumed: a stream has no timeout.
Fairness ==
    \A t \in Turns : /\ WF_vars(DecideStep(t) \/ SettleStep(t))
                     /\ WF_vars(MonitorApiLogRevenueOrphans(t))

Safety == Init /\ [][Next]_vars

Spec == Safety /\ Fairness

-----------------------------------------------------------------------------
(* Properties *)

\* Rows and counters keep their types (subscription_schema.go).
TypeOK ==
    /\ status \in [Subs -> {"none", "active", "closed"}]
    /\ over \in [Subs -> BOOLEAN]
    /\ bucket \in {"absent", "fresh", "expired"}
    /\ cache \subseteq Subs /\ rows \subseteq Subs
    /\ stale \in BOOLEAN
    /\ opened \in [Plans -> BOOLEAN]
    /\ used \in [Plans -> Nat]
    /\ ended \in [Plans -> BOOLEAN]
    /\ enabled \in BOOLEAN
    /\ tracked \subseteq Turns
    /\ step \in [Turns -> Steps]
    /\ served \in [Turns -> BOOLEAN]
    /\ optIn \in [Turns -> BOOLEAN]
    /\ queue \in [Turns -> SUBSET Subs]
    /\ taker \in [Turns -> Subs \cup {Nobody}]
    /\ counted \in [Turns -> SUBSET Plans]
    /\ faulted \in [Turns -> BOOLEAN]
    /\ entry \in [Turns -> BOOLEAN]
    /\ apiLog \in [Turns -> {"none", "recent", "old"}]
    /\ writer \in [Turns -> BOOLEAN]
    /\ revenue \in [Turns -> {"none", "free", "full"}]
    /\ faults \in Nat
    /\ moves \in Nat

\* Plans that no snapshot lets exceed their limit.
Strict == {p \in Plans : \A s \in Subs : p \in PlansOf[s] =>
                             Limit[s][p] > 0 /\ Strategy[s][p] # "overdraft"}

\* However requests, resets, new windows and subscriptions that share a plan
\* interleave, its window never holds more than one of their snapshots allows
\* (consumePlanInTx: read, judge and write, repeated in the UPDATE's condition).
WithinLimit ==
    \A p \in Strict : used[p] > 0 =>
        \E s \in Subs : p \in PlansOf[s] /\ used[p] <= Limit[s][p]

\* A request is counted in every plan of one subscription or in none at all, and
\* what a subscription took the balance did not pay (atomicConsumeMany rolls back
\* the plans before the one that refuses; Decide then tries the next).
PaidOnce ==
    \A t \in Turns :
        IF step[t] = "covered"
        THEN taker[t] \in Subs /\ counted[t] = PlansOf[taker[t]] /\ counted[t] # {}
        ELSE taker[t] = Nobody /\ counted[t] = {}

\* A commit that could not read or write the subscriptions never ends at the
\* expense of the balance (subscription_engine.go:63-66), also not that of a
\* request that only waited for another one's load.
FaultNeverCharges == \A t \in Turns : faulted[t] => step[t] # "charged"

\* A request that asks for its subscriptions, for the precheck or for the commit,
\* is forwarded or comes to an end: no load of another request, no wait for it and
\* no list of subscriptions holds it for ever.  The upstream may.
EveryTurnSettles ==
    \A t \in Turns : step[t] = "asking" ~> step[t] \in Final \cup {"serving"}

\* The entry of a paid request gets its revenue row, although the goroutine that
\* writes it may fail or die with the process (monitorApiLogRevenueOrphans), unless
\* the log row could not be written or an hour went by first.
EntriesEarn ==
    \A t \in Turns : entry[t] /\ apiLog[t] = "recent"
                        ~> revenue[t] # "none" \/ apiLog[t] = "old"
=============================================================================
