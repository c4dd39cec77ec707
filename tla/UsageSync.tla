----------------------------- MODULE UsageSync -----------------------------
(***************************************************************************)
(* The import of the upstream's usage queue and the estimates made of it.  *)
(* The upstream keeps a record of every turn until it is popped.  A sync,  *)
(* started by the cron or by an admin, takes a row lock that expires, pops *)
(* records, stores them, and attributes each to the log entry of its turn, *)
(* where it can tell which.  An attributed entry gets an estimate of what  *)
(* the turn cost the platform, from the rate of the upstream account; an   *)
(* edit of the account computes the estimates again.                       *)
(*                                                                         *)
(* The database has one writer: a transaction is one step, or fails.  All  *)
(* turns here are of one account, one model and one time, so that only     *)
(* their tokens tell them apart.  A rate is what an active account with a  *)
(* cost and a capacity makes of a log entry, 0 any other account or none.  *)
(***************************************************************************)
EXTENDS Integers, FiniteSets

CONSTANTS
  Turns,
  Uses,         \* set of functions: what each turn uses, or Other
  Other,        \* instead of tokens: a turn made with another key than the platform's
  Plain,        \* the turns whose record spells the provider as accounts do
  Syncs,        \* goroutines that sync, one after the other each
  Crons,        \* those of them that the cron runs
  Placements,   \* set of functions: the process each sync may run in at the start
  Counts,       \* how many records a sync may ask for
  Admins,
  Rates,        \* rates of an active account
  None,
  MaxEdits, MaxFaults   \* bounds; a crash is a fault

ASSUME UsageAssumption ==
  /\ Uses \subseteq [Turns -> Nat \cup {Other}] /\ Other \notin Nat
  /\ Plain \subseteq Turns
  /\ IsFiniteSet(Syncs)
  /\ Crons \subseteq Syncs
  /\ Placements \subseteq [Syncs -> 1 .. Cardinality(Syncs)]
  /\ Counts \subseteq Nat \ {0}
  /\ Rates \subseteq Nat \ {0}
  /\ None \notin Turns \cup {"pending", "matched", "unmatched", "ignored"}
  /\ {MaxEdits, MaxFaults} \subseteq Nat

VARIABLES
  \* the turns
  used,         \* tokens of each turn, chosen at the start
  queue,        \* the turns whose record the upstream still has
  logged,       \* the turns that have an entry in api_logs
  \* rows
  status,       \* [Turns -> match_status of the record, or None]
  matchedLog,   \* [Turns -> matched_api_log_id]
  attributed,   \* [Turns -> the record its log entry is attributed to]
  estimate,     \* [Turns -> the rate its estimate was computed with, or 0]
  rate,         \* the rate of the account
  lock,         \* the lock row: its owner, and whether it has not expired
  \* syncs
  proc,         \* [Syncs -> the process it runs in]
  stage,        \* [Syncs -> where it is]
  batch,        \* [Syncs -> the records it fetched, until they are all stored]
  left,         \* [Syncs -> those of them its stage still has before it]
  ids,          \* [Syncs -> the records that have an ID in memory]
  keepsAlive,   \* [Syncs -> its goroutine renews the lock]
  \* edits of the account
  edit,         \* [Admins -> where the edit is, its rate, the entries it read]
  \* histories
  befallen,     \* the records that something befell
  phantom,      \* the records with an ID and no row
  unpriced,     \* the entries attributed while the account could not be read, until
                \* an edit computes their estimates
  lapsed,       \* a lock expired while its holder worked
  disturbed,    \* the last edits overlapped, or one failed
  edits, faults

turnVars == <<used, queue, logged>>
rowVars == <<status, matchedLog, attributed, estimate, unpriced>>
syncVars == <<proc, stage, batch, left, ids, keepsAlive>>
editVars == <<rate, edit, disturbed, edits>>
usageVars == <<turnVars, rowVars, syncVars, editVars, lock, befallen, phantom,
               lapsed, faults>>

NoEdit == [at |-> "none", rate |-> 0, rows |-> {}]
NoLock == [owner |-> 0, live |-> FALSE]

UsageInit ==
  /\ used \in Uses
  /\ queue = Turns /\ logged = {}
  /\ status = [t \in Turns |-> None]
  /\ matchedLog = [t \in Turns |-> None]
  /\ attributed = [t \in Turns |-> None]
  /\ estimate = [t \in Turns |-> 0]
  /\ rate = 0
  /\ lock = NoLock
  /\ proc \in Placements
  /\ stage = [s \in Syncs |-> "idle"]
  /\ batch = [s \in Syncs |-> {}]
  /\ left = [s \in Syncs |-> {}]
  /\ ids = [s \in Syncs |-> {}]
  /\ keepsAlive = [s \in Syncs |-> FALSE]
  /\ edit = [a \in Admins |-> NoEdit]
  /\ befallen = {} /\ phantom = {} /\ unpriced = {}
  /\ lapsed = FALSE /\ disturbed = FALSE
  /\ edits = 0 /\ faults = 0

-----------------------------------------------------------------------------
(***************************************************************************)
(* The entry of a turn, which may come before its record or after.  The    *)
(* proxy writes none for the turns of other keys.                          *)
(***************************************************************************)
WriteLog(t) ==
  /\ t \notin logged /\ used[t] # Other
  /\ logged' = logged \cup {t}
  /\ UNCHANGED <<used, queue, rowVars, syncVars, editVars, lock,
                 befallen, phantom, lapsed, faults>>

-----------------------------------------------------------------------------
(***************************************************************************)
(* The lock.  Its owner is the process, not the goroutine.                 *)
(***************************************************************************)
\* mutants: a process may take what it holds; an expired row is not taken over
FreeOrOwn(s) == ~ lock.live \/ lock.owner = proc[s]
FreeIfAbsent(s) == lock = NoLock

Free(s) == ~ lock.live

Holds(s) == lock.live /\ lock.owner = proc[s]

Working == {s \in Syncs : stage[s] # "idle"}

AcquireLock(s) ==
  /\ stage[s] = "idle"
  /\ Free(s)
  /\ lock' = [owner |-> proc[s], live |-> TRUE]
  /\ stage' = [stage EXCEPT ![s] = "fetch"]
  /\ keepsAlive' = [keepsAlive EXCEPT ![s] = TRUE]
  /\ UNCHANGED <<turnVars, rowVars, proc, batch, left, ids, editVars, befallen,
                 phantom, lapsed, faults>>

\* the twenty seconds of the cron's context are over, or there was nothing to renew
KeepAliveEnds(s) ==
  /\ keepsAlive[s]
  /\ s \in Crons \/ ~ Holds(s)
  /\ keepsAlive' = [keepsAlive EXCEPT ![s] = FALSE]
  /\ UNCHANGED <<turnVars, rowVars, proc, stage, batch, left, ids, editVars,
                 lock, befallen, phantom, lapsed, faults>>

\* an error of the database or of the network, or a delay
Fault == faults < MaxFaults /\ faults' = faults + 1

Renewed == \E s \in Syncs : keepsAlive[s] /\ Holds(s)

\* nobody renews the lock, or whoever should is held up
Lapse ==
  /\ lock.live
  /\ lock' = [lock EXCEPT !.live = FALSE]
  /\ lapsed' = (lapsed \/ Working # {})
  /\ IF Renewed THEN Fault ELSE UNCHANGED faults
  /\ UNCHANGED <<turnVars, rowVars, syncVars, editVars, befallen, phantom>>

\* the row goes when it names the process, whichever goroutine took the lock
ReleaseLock(s, works) ==
  /\ stage[s] = "release"
  /\ stage' = [stage EXCEPT ![s] = "idle"]
  /\ keepsAlive' = [keepsAlive EXCEPT ![s] = FALSE]
  /\ IF works
       THEN /\ lock' = IF lock.owner = proc[s] THEN NoLock ELSE lock
            /\ UNCHANGED faults
       ELSE Fault /\ UNCHANGED lock
  /\ UNCHANGED <<turnVars, rowVars, proc, batch, left, ids, editVars, befallen,
                 phantom, lapsed>>

-----------------------------------------------------------------------------
(***************************************************************************)
(* SyncCLIProxyUsageQueue                                                  *)
(***************************************************************************)
Move(s, from, to, records) ==
  /\ stage[s] = from
  /\ stage' = [stage EXCEPT ![s] = to]
  /\ left' = [left EXCEPT ![s] = records]

\* what a request pops: as many as it asks for, or all there are
Pops == {got \in SUBSET queue :
           \E n \in Counts : Cardinality(got) = n \/ (got = queue /\ Cardinality(got) < n)}

Fetch(s, got) ==
  /\ got \in Pops
  /\ Move(s, "fetch", IF got = {} THEN "release" ELSE "batch", got)
  /\ batch' = [batch EXCEPT ![s] = got]
  /\ queue' = queue \ got
  /\ UNCHANGED <<used, logged, rowVars, proc, ids, keepsAlive,
                 editVars, lock, befallen, phantom, lapsed, faults>>

\* no answer, or one that cannot be read: what was popped for it is gone
FetchFails(s, gone) ==
  /\ gone \in Pops \cup {{}}
  /\ Fault
  /\ Move(s, "fetch", "release", {})
  /\ queue' = queue \ gone
  /\ befallen' = befallen \cup gone
  /\ UNCHANGED <<used, logged, rowVars, proc, batch, ids, keepsAlive,
                 editVars, lock, phantom, lapsed>>

StoreBatch(s) ==
  /\ Move(s, "batch", "keys", left[s])
  /\ status' = [t \in Turns |-> IF t \in left[s] THEN "pending" ELSE status[t]]
  /\ ids' = [ids EXCEPT ![s] = left[s]]
  /\ UNCHANGED <<turnVars, matchedLog, attributed, estimate, unpriced, proc, batch,
                 keepsAlive, editVars, lock, befallen, phantom, lapsed, faults>>

\* rolled back, but the chunks before the one that failed have left their IDs in
\* the records; that another sync's rows may take these IDs is left out
BatchFails(s, given) ==
  /\ given \subseteq left[s]
  /\ Move(s, "batch", "rows", left[s])
  /\ ids' = [ids EXCEPT ![s] = given]
  /\ UNCHANGED <<turnVars, rowVars, proc, batch, keepsAlive, editVars, lock,
                 befallen, phantom, lapsed, faults>>

\* mutant: a row that cannot be stored ends the loop
AfterDrop(s, t) == {}

\* what the loop over the rows has before it after t
AfterRow(s, t) == left[s] \ {t}

\* the loop goes on; when it is over, all records stand before the next stage
RowDone(s, rest) ==
  Move(s, "rows", IF rest = {} THEN "keys" ELSE "rows",
       IF rest = {} THEN batch[s] ELSE rest)

StoreRow(s, t) ==
  /\ t \in left[s]
  /\ RowDone(s, left[s] \ {t})
  /\ status' = [status EXCEPT ![t] = "pending"]
  /\ ids' = [ids EXCEPT ![s] = @ \cup {t}]
  /\ UNCHANGED <<turnVars, matchedLog, attributed, estimate, unpriced, proc, batch,
                 keepsAlive, editVars, lock, befallen, phantom, lapsed, faults>>

DropRow(s, t) ==
  /\ t \in left[s]
  /\ Fault
  /\ RowDone(s, AfterRow(s, t))
  /\ befallen' = befallen \cup {t}
  /\ phantom' = IF t \in ids[s] THEN phantom \cup {t} ELSE phantom
  /\ UNCHANGED <<turnVars, rowVars, proc, batch, ids, keepsAlive, editVars,
                 lock, lapsed>>

\* mutant: a record without an ID is matched as well
AnyRecord(s, t) == TRUE

HasID(s, t) == t \in ids[s]

\* the keys of the platform's channels; without them nothing is matched
LoadKeys(s, works) ==
  LET rows == {t \in left[s] : HasID(s, t)}
  IN /\ Move(s, "keys", IF works /\ rows # {} THEN "match" ELSE "release",
             IF works THEN rows ELSE {})
     /\ batch' = [batch EXCEPT ![s] = {}]
     /\ ids' = [ids EXCEPT ![s] = {}]
     /\ IF works THEN UNCHANGED faults ELSE Fault
     /\ befallen' = IF works THEN befallen ELSE befallen \cup left[s]
     /\ UNCHANGED <<turnVars, rowVars, proc, keepsAlive, editVars, lock,
                    phantom, lapsed>>

Taken(l) == attributed[l] # None

Candidates == {l \in logged : ~ Taken(l)}

\* the entries the record may be of: with the same tokens, or the only one there is
Fitting(t) ==
  IF used[t] > 0
    THEN {l \in Candidates : used[l] = used[t]}
    ELSE IF Cardinality(Candidates) = 1 THEN Candidates ELSE {}

Matched(s, t) ==
  /\ t \in left[s]
  /\ Move(s, "match", IF left[s] = {t} THEN "release" ELSE "match", left[s] \ {t})
  /\ UNCHANGED <<turnVars, proc, batch, ids, keepsAlive, editVars, lock, phantom,
                 lapsed>>

\* the row takes its state when it is there; a dropped one has none to change
MarkRow(t, state) ==
  status' = IF status[t] = None THEN status ELSE [status EXCEPT ![t] = state]

Ignore(s, t) ==
  /\ Matched(s, t)
  /\ used[t] = Other
  /\ MarkRow(t, "ignored")
  /\ UNCHANGED <<matchedLog, attributed, estimate, unpriced, befallen, faults>>

Unmatch(s, t) ==
  /\ Matched(s, t)
  /\ used[t] # Other /\ Fitting(t) = {}
  /\ MarkRow(t, "unmatched")
  /\ UNCHANGED <<matchedLog, attributed, estimate, unpriced, befallen, faults>>

\* an entry that cost nothing, or an account without a rate, gets no estimate; and
\* so does one whose account is not read for an error, which nobody hears of
Attribute(s, t, l, priced) ==
  /\ Matched(s, t)
  /\ used[t] # Other /\ l \in Fitting(t)
  /\ attributed' = [attributed EXCEPT ![l] = t]
  /\ IF priced
       THEN /\ estimate' = IF used[l] > 0 /\ rate > 0 THEN [estimate EXCEPT ![l] = rate]
                          ELSE estimate
            /\ UNCHANGED <<unpriced, faults>>
       ELSE /\ Fault
            /\ unpriced' = unpriced \cup {l}
            /\ UNCHANGED estimate
  /\ MarkRow(t, "matched")
  /\ matchedLog' = IF status[t] = None THEN matchedLog ELSE [matchedLog EXCEPT ![t] = l]
  /\ UNCHANGED befallen

\* the transaction fails; the row stays as it is
MatchFails(s, t) ==
  /\ Matched(s, t)
  /\ Fault
  /\ befallen' = befallen \cup {t}
  /\ UNCHANGED rowVars

\* the records the sync is not done with
InHand(s) == batch[s] \cup left[s]

\* the process stops; its goroutines start again in another one
Crash(p) ==
  LET gone == {s \in Syncs : proc[s] = p}
      Reset(f, v) == [s \in Syncs |-> IF s \in gone THEN v ELSE f[s]]
  IN /\ Fault
     /\ gone # {}
     /\ proc' = Reset(proc, Cardinality(Syncs) + faults')
     /\ stage' = Reset(stage, "idle")
     /\ keepsAlive' = Reset(keepsAlive, FALSE)
     /\ batch' = Reset(batch, {}) /\ left' = Reset(left, {}) /\ ids' = Reset(ids, {})
     /\ befallen' = befallen \cup UNION {InHand(s) : s \in gone}
     /\ UNCHANGED <<turnVars, rowVars, editVars, lock, phantom, lapsed>>

-----------------------------------------------------------------------------
(***************************************************************************)
(* The account.  An edit writes the row, and then computes the estimates   *)
(* of the entries attributed to the account with its own copy of the row.  *)
(***************************************************************************)
EditOpen(a) == edit[a].at # "none"

\* mutant: the copy the handler read before it wrote
RateBefore(v) == rate

\* the rate an update computes the estimates with
RateWritten(v) == v

WriteAccount(a, v, next) ==
  /\ ~ EditOpen(a) /\ edits < MaxEdits
  /\ edits' = edits + 1
  /\ rate' = v
  /\ edit' = [edit EXCEPT ![a] = next]
  /\ disturbed' = \E b \in Admins : EditOpen(b)
  /\ UNCHANGED <<turnVars, rowVars, syncVars, lock, befallen, phantom, lapsed,
                 faults>>

\* an account without a rate is done with: its estimates stay
Refreshing(r) == IF r = 0 THEN NoEdit ELSE [at |-> "read", rate |-> r, rows |-> {}]

UpdateUpstreamAccountCost(a, v) == WriteAccount(a, v, Refreshing(RateWritten(v)))

\* creating one and many at once write over a row there is, and read it back
UpsertUpstreamAccountCost(a, v) == WriteAccount(a, v, [NoEdit EXCEPT !.at = "refetch"])

DeleteUpstreamAccountCost(a) == WriteAccount(a, 0, NoEdit)

EditGoes(a, from, to) ==
  /\ edit[a].at = from
  /\ edit' = [edit EXCEPT ![a] = to]
  /\ UNCHANGED <<turnVars, status, matchedLog, attributed, syncVars, rate, edits,
                 lock, befallen, phantom, lapsed>>

Refetch(a) ==
  /\ EditGoes(a, "refetch", Refreshing(rate))
  /\ UNCHANGED <<estimate, unpriced, disturbed, faults>>

\* the entries with a cost that are attributed to the account under its own name
OfAccount(l) == attributed[l] \in Plain /\ used[l] > 0

ReadRows(a) ==
  /\ EditGoes(a, "read", [edit[a] EXCEPT !.at = "write",
                            !.rows = {l \in Turns : OfAccount(l)}])
  /\ UNCHANGED <<estimate, unpriced, disturbed, faults>>

WriteEstimates(a) ==
  /\ EditGoes(a, "write", NoEdit)
  /\ estimate' = [l \in Turns |-> IF l \in edit[a].rows THEN edit[a].rate ELSE estimate[l]]
  /\ unpriced' = unpriced \ edit[a].rows
  /\ UNCHANGED <<disturbed, faults>>

\* an error, or the end of the process: the row is written, the estimates are not
EditFails(a) ==
  /\ EditOpen(a)
  /\ Fault
  /\ EditGoes(a, edit[a].at, NoEdit)
  /\ disturbed' = TRUE
  /\ UNCHANGED <<estimate, unpriced>>

-----------------------------------------------------------------------------
Handle(s) ==
  \/ ReleaseLock(s, TRUE)
  \/ \E got \in SUBSET queue : Fetch(s, got)
  \/ StoreBatch(s)
  \/ LoadKeys(s, TRUE)
  \/ \E t \in Turns : \/ StoreRow(s, t) \/ Ignore(s, t) \/ Unmatch(s, t)
                      \/ \E l \in Turns : Attribute(s, t, l, TRUE)

Fails(s) ==
  \/ ReleaseLock(s, FALSE)
  \/ \E gone \in SUBSET queue : FetchFails(s, gone)
  \/ \E given \in SUBSET Turns : BatchFails(s, given)
  \/ LoadKeys(s, FALSE)
  \/ \E t \in Turns : \/ DropRow(s, t) \/ MatchFails(s, t)
                      \/ \E l \in Turns : Attribute(s, t, l, FALSE)

Edit(a) ==
  \/ \E v \in Rates \cup {0} : UpdateUpstreamAccountCost(a, v) \/ UpsertUpstreamAccountCost(a, v)
  \/ DeleteUpstreamAccountCost(a)
  \/ Refetch(a) \/ ReadRows(a) \/ WriteEstimates(a) \/ EditFails(a)

UsageNext ==
  \/ \E t \in Turns : WriteLog(t)
  \/ \E s \in Syncs : AcquireLock(s) \/ KeepAliveEnds(s) \/ Handle(s) \/ Fails(s)
  \/ Lapse
  \/ \E p \in 1 .. Cardinality(Syncs) + MaxFaults : Crash(p)
  \/ \E a \in Admins : Edit(a)

(***************************************************************************)
(* The cron tries again and again, every statement and request ends, and   *)
(* a lock nobody renews expires.                                           *)
(***************************************************************************)
UsageSpec ==
  /\ UsageInit /\ [][UsageNext]_usageVars
  /\ \A s \in Crons : WF_usageVars(AcquireLock(s))
  /\ \A s \in Syncs : WF_usageVars(Handle(s))
  /\ WF_usageVars(~ Renewed /\ Lapse)

-----------------------------------------------------------------------------
UsageTypeOK ==
  /\ used \in Uses
  /\ queue \subseteq Turns
  /\ logged \subseteq Turns
  /\ status \in [Turns -> {None, "pending", "matched", "unmatched", "ignored"}]
  /\ matchedLog \in [Turns -> Turns \cup {None}]
  /\ attributed \in [Turns -> Turns \cup {None}]
  /\ {rate} \cup {estimate[t] : t \in Turns} \subseteq Rates \cup {0}
  /\ lock \in [owner : Nat, live : BOOLEAN]
  /\ proc \in [Syncs -> Nat]
  /\ stage \in [Syncs -> {"idle", "fetch", "batch", "rows", "keys", "match", "release"}]
  /\ \A s \in Syncs : ids[s] \subseteq batch[s] /\ InHand(s) \subseteq Turns
  /\ keepsAlive \in [Syncs -> BOOLEAN]
  /\ edit \in [Admins -> [at : {"none", "refetch", "read", "write"},
                          rate : Rates \cup {0}, rows : SUBSET Turns]]
  /\ phantom \subseteq befallen /\ befallen \subseteq Turns /\ unpriced \subseteq Turns
  /\ {lapsed, disturbed} \subseteq BOOLEAN
  /\ edits \in 0 .. MaxEdits /\ faults \in 0 .. MaxFaults

(***************************************************************************)
(* cliproxy_usage_sync.go:217, one sync at a time, the cron's or an        *)
(* admin's, in whichever process: two work side by side only after a lock  *)
(* has expired under one that worked.                                      *)
(***************************************************************************)
OneSyncAtATime == lapsed \/ Cardinality(Working) <= 1

Popped == Turns \ queue

(***************************************************************************)
(* cliproxy_usage_sync.go:198-199 and 380-382: a popped record cannot be   *)
(* fetched again, so it is stored and looked at, however the others of its *)
(* batch fare; only what befell the record itself, or the sync as a whole, *)
(* keeps it from that.                                                     *)
(***************************************************************************)
EachFailsAlone ==
  \A t \in Popped \ befallen :
    \/ \E s \in Syncs : t \in InHand(s)
    \/ status[t] \in {"matched", "unmatched", "ignored"}

(***************************************************************************)
(* Records and log entries agree on who belongs to whom: a matched record  *)
(* names the entry that names it, and an entry is attributed to a stored,  *)
(* matched record of the platform, but for records whose ID is all that a  *)
(* rolled-back batch has left of them.                                     *)
(***************************************************************************)
AttributionsAgree ==
  /\ \A t \in Turns : status[t] = "matched" => attributed[matchedLog[t]] = t
  /\ \A l \in Turns : attributed[l] \notin phantom \cup {None} =>
       /\ status[attributed[l]] = "matched" /\ matchedLog[attributed[l]] = l
       /\ used[attributed[l]] # Other

(***************************************************************************)
(* upstream_cost.go:395 and cliproxy_usage_sync.go:584: when no edit of    *)
(* the account is under way, every attributed entry with a cost has the    *)
(* estimate of the account's rate, whether it was attributed before the    *)
(* edit, during it or after it; unless the last edit overlapped another or *)
(* failed, or no edit has come since the entry was attributed without its  *)
(* account being read (upstream_cost.go:849-852).  Records that spell the  *)
(* provider otherwise get the estimate of their day and no edit finds them *)
(* (cliproxy_usage_sync.go:569 keeps the spelling, upstream_cost.go:786    *)
(* asks for the normal one).                                               *)
(***************************************************************************)
EstimatesFollowAccount ==
  rate > 0 /\ ~ disturbed /\ (\A a \in Admins : ~ EditOpen(a)) =>
    \A l \in Turns : OfAccount(l) /\ l \notin unpriced => estimate[l] = rate

(***************************************************************************)
(* Every record is fetched in the end: a process that stops while it has   *)
(* the lock, a release that fails or an answer that is lost only delay the *)
(* others.                                                                 *)
(***************************************************************************)
EveryRecordFetched == <>(queue = {})
=============================================================================
