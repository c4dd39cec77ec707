---------------------------- MODULE BillingRules -----------------------------
(***************************************************************************)
(* The rules a subscription is charged by: a table of revisions that only  *)
(* grows, a table of cancellations, the rows of sys_configs that say which *)
(* revision is in force, and SysConfigCache, from which requests are       *)
(* charged.  Admins publish a revision at once or for later and cancel one *)
(* that is not yet due, a cron puts the latest due one in force, a         *)
(* settings page writes back every row it was filled with, and every edit  *)
(* of the catalogue, of a user or of a token rebuilds the cache.           *)
(*                                                                         *)
(* The six rows of billing rules are written together and are one value,   *)
(* the revision they come from; a revision's weights are abstracted to its *)
(* number.  Times are compared only with each other: effective_at, and the *)
(* clock as each handler reads it.                                         *)
(***************************************************************************)
EXTENDS Integers, FiniteSets

CONSTANTS
  Admins,        \* requests of admins that are handled at the same time
  Syncs,         \* goroutines in SyncCacheConfig
  Pages,         \* settings pages open in browsers
  MaxRevisions,  \* bounds the rows of billing_rule_revisions
  MaxTime,       \* bounds the clock
  MaxSaves,      \* bounds the saves of settings pages
  MaxCrashes,    \* bounds the restarts
  None

ASSUME BillingRulesAssumption ==
  /\ MaxRevisions \in Nat /\ MaxTime \in Nat /\ MaxSaves \in Nat /\ MaxCrashes \in Nat
  /\ None \notin Nat

Revisions == 1 .. MaxRevisions
Times == 0 .. MaxTime

VARIABLES
  phase,      \* the process: "down", "starting" (main, before it serves) or "up"
  now,        \* the clock
  made,       \* revisions 1 .. made exist: the primary key counts up
  effective,  \* their effective_at
  canceled,   \* revisions with a row in the table of cancellations
  config,     \* the revision sys_configs holds
  cached,     \* the revision SysConfigCache holds, None before it is filled
  everInForce, \* history: the revisions sys_configs has ever held
  job,        \* what each admin request is doing
  sync,       \* what each SyncCacheConfig has read
  page,       \* what each settings page was filled with, and its save
  cron,       \* activateDueBillingRuleRevisions, under its mutex
  saves, crashes

tables == <<made, effective, canceled, config, everInForce>>
work == <<job, sync, page, cron>>
bounds == <<saves, crashes>>
rulesVars == <<phase, now, tables, cached, work, bounds>>

Idle == [at |-> "idle"]
IdlePage == [at |-> "closed"]

Jobs == {Idle}
        \cup [at : {"publish"}, time : Times, immediate : BOOLEAN]
        \cup [at : {"patch", "cancel"}, rev : Revisions]
Activations == {Idle} \cup [at : {"chosen", "applied"}, rev : Revisions]
PageStates == {IdlePage} \cup [at : {"open", "saved", "read"}, rev : Revisions]

RulesInit ==
  /\ phase = "down"
  /\ now = 0
  /\ made = 0
  /\ effective = [r \in Revisions |-> 0]
  /\ canceled = {}
  /\ config = None
  /\ cached = None
  /\ everInForce = {}
  /\ job = [a \in Admins |-> Idle]
  /\ sync = [s \in Syncs |-> None]
  /\ page = [p \in Pages |-> IdlePage]
  /\ cron = Idle
  /\ saves = 0
  /\ crashes = 0

-----------------------------------------------------------------------------
(* Start and crash.  The migration of a database without revisions makes   *)
(* the current rules its first one.                                        *)

NewRevision(time) ==
  /\ made < MaxRevisions
  /\ made' = made + 1
  /\ effective' = [effective EXCEPT ![made + 1] = time]

PutInForce(r) == config' = r /\ everInForce' = everInForce \cup {r}

SeedCurrentBillingRuleRevision ==
  IF made = 0
    THEN NewRevision(now) /\ PutInForce(1) /\ UNCHANGED canceled
    ELSE UNCHANGED tables

\* main: InitDB and SyncCacheConfig, while nothing else runs
Start ==
  /\ phase = "down"
  /\ phase' = "starting"
  /\ SeedCurrentBillingRuleRevision
  /\ cached' = config'
  /\ UNCHANGED <<now, work, bounds>>

\* Everything in memory is lost; a page stays open in its browser.
ProcessEnds ==
  /\ phase # "down" /\ crashes < MaxCrashes
  /\ phase' = "down"
  /\ crashes' = crashes + 1
  /\ cached' = None
  /\ job' = [a \in Admins |-> Idle]
  /\ sync' = [s \in Syncs |-> None]
  /\ page' = [p \in Pages |-> IF page[p].at = "open" THEN page[p] ELSE IdlePage]
  /\ cron' = Idle
  /\ UNCHANGED <<now, tables, saves>>

Tick ==
  /\ now < MaxTime
  /\ now' = now + 1
  /\ UNCHANGED <<phase, tables, cached, work, bounds>>

-----------------------------------------------------------------------------
(* The activation: by the start, by the cron, and by requests that resolve *)
(* the rules or show them; one at a time.                                  *)

\* the order of the query: the latest effective_at, then the highest id
Later(r, s) == effective[r] > effective[s] \/ (effective[r] = effective[s] /\ r > s)

Due == {r \in 1 .. made : effective[r] <= now /\ r \notin canceled}
IsLatest(r) == r \in Due /\ \A s \in Due \ {r} : Later(r, s)

\* the start goes on to serve when its activation is over
Finished == phase' = IF phase = "starting" THEN "up" ELSE phase

Choose(r) ==
  /\ phase # "down"
  /\ cron = Idle
  /\ IsLatest(r)
  /\ cron' = [at |-> "chosen", rev |-> r]
  /\ UNCHANGED <<phase, now, tables, cached, job, sync, page, bounds>>

\* mutant: the transaction trusts the query that chose the revision
MayApplyUnchecked(r) == config # r

\* mutant: an activation never goes back to an older revision
MayApplyForward(r) == r \notin canceled /\ config < r

MayApply(r) == r \notin canceled /\ config # r

\* applyBillingRuleRevision: a transaction that looks at both tables again
Apply ==
  /\ cron.at = "chosen"
  /\ IF MayApply(cron.rev)
       THEN /\ PutInForce(cron.rev)
            /\ cron' = [cron EXCEPT !.at = "applied"]
            /\ UNCHANGED phase
       ELSE /\ cron' = Idle
            /\ Finished
            /\ UNCHANGED <<config, everInForce>>
  /\ UNCHANGED <<now, made, effective, canceled, cached, job, sync, page, bounds>>

\* the transaction fails: the next activation chooses again
ApplyFails ==
  /\ cron.at = "chosen"
  /\ cron' = Idle
  /\ Finished
  /\ UNCHANGED <<now, tables, cached, job, sync, page, bounds>>

\* PatchSysConfigCache, with what was read before the transaction
PatchApplied ==
  /\ cron.at = "applied"
  /\ cached' = cron.rev
  /\ cron' = Idle
  /\ Finished
  /\ UNCHANGED <<now, tables, job, sync, page, bounds>>

-----------------------------------------------------------------------------
(* Admins.                                                                 *)

Becomes(a, from, to) ==
  /\ phase = "up"
  /\ job[a].at = from
  /\ job' = [job EXCEPT ![a] = to]
  /\ UNCHANGED <<phase, now, sync, page, cron, bounds>>

\* UpdateBillingRules reads the clock; a revision for later must be later
UpdateBillingRules(a, time) ==
  /\ time >= now
  /\ Becomes(a, "idle", [at |-> "publish", time |-> time, immediate |-> time = now])
  /\ UNCHANGED <<tables, cached>>

\* persistBillingRulesUpdate: one transaction.  At once means instead of all
\* that was to come later; but the scan for those, and each cancellation,
\* may fail without failing the transaction (F is what it reaches).
PersistBillingRulesUpdate(a) ==
  /\ job[a].at = "publish"
  /\ NewRevision(job[a].time)
  /\ IF job[a].immediate
       THEN /\ \E F \in SUBSET {r \in 1 .. made : effective[r] > job[a].time} :
                 canceled' = canceled \cup F
            /\ PutInForce(made + 1)
            /\ Becomes(a, "publish", [at |-> "patch", rev |-> made + 1])
       ELSE /\ UNCHANGED <<canceled, config, everInForce>>
            /\ Becomes(a, "publish", Idle)
  /\ UNCHANGED cached

\* the transaction fails, and the admin is told
UpdateFails(a) == Becomes(a, "publish", Idle) /\ UNCHANGED <<tables, cached>>

PatchPublished(a) ==
  /\ Becomes(a, "patch", Idle)
  /\ cached' = job[a].rev
  /\ UNCHANGED tables

\* CancelBillingRuleRevision: the revision is read and is not yet due ...
CancelBillingRuleRevision(a, r) ==
  /\ r <= made /\ effective[r] > now
  /\ Becomes(a, "idle", [at |-> "cancel", rev |-> r])
  /\ UNCHANGED <<tables, cached>>

\* ... and then the cancellation is inserted, unless it is there
InsertCancellation(a) ==
  /\ Becomes(a, "cancel", Idle)
  /\ canceled' = canceled \cup {job[a].rev}
  /\ UNCHANGED <<made, effective, config, everInForce, cached>>

-----------------------------------------------------------------------------
(* SyncCacheConfig: the table is read in one statement, the map is         *)
(* replaced later.  Whatever edits a user, a token, a channel calls it.    *)

SyncRead(s) ==
  /\ phase = "up" /\ sync[s] = None
  /\ sync' = [sync EXCEPT ![s] = config]
  /\ UNCHANGED <<phase, now, tables, cached, job, page, cron, bounds>>

\* mutant: the rebuilt map only adds keys
MergedMap(old, read) == IF old = None THEN read ELSE old

RebuiltMap(old, read) == read

SyncStore(s) ==
  /\ sync[s] # None
  /\ cached' = RebuiltMap(cached, sync[s])
  /\ sync' = [sync EXCEPT ![s] = None]
  /\ UNCHANGED <<phase, now, tables, job, page, cron, bounds>>

-----------------------------------------------------------------------------
(* Settings pages.  A page is filled with every row, those of the billing  *)
(* rules among them, and its save sends them all.                          *)

PageBecomes(p, to) ==
  /\ phase = "up"
  /\ page' = [page EXCEPT ![p] = to]
  /\ UNCHANGED <<phase, now, job, sync, cron, crashes>>

GetSysConfigs(p) ==
  /\ page[p].at \in {"closed", "open"}
  /\ PageBecomes(p, [at |-> "open", rev |-> config])
  /\ UNCHANGED <<tables, cached, saves>>

BatchUpdateSysConfigs(p) ==
  /\ page[p].at = "open"
  /\ saves < MaxSaves
  /\ saves' = saves + 1
  /\ PutInForce(page[p].rev)
  /\ PageBecomes(p, [page[p] EXCEPT !.at = "saved"])
  /\ UNCHANGED <<made, effective, canceled, cached>>

\* the SyncCacheConfig of that handler
SavedRead(p) ==
  /\ page[p].at = "saved"
  /\ PageBecomes(p, [at |-> "read", rev |-> config])
  /\ UNCHANGED <<tables, cached, saves>>

SavedStore(p) ==
  /\ page[p].at = "read"
  /\ cached' = RebuiltMap(cached, page[p].rev)
  /\ PageBecomes(p, IdlePage)
  /\ UNCHANGED <<tables, saves>>

-----------------------------------------------------------------------------
AdminStep(a) ==
  PersistBillingRulesUpdate(a) \/ PatchPublished(a) \/ InsertCancellation(a) \/ UpdateFails(a)

SaveStep(p) == SavedRead(p) \/ SavedStore(p)

RulesNext ==
  \/ Start \/ ProcessEnds \/ Tick
  \/ \E r \in Revisions : Choose(r)
  \/ Apply \/ ApplyFails \/ PatchApplied
  \/ \E a \in Admins :
       \/ \E time \in Times : UpdateBillingRules(a, time)
       \/ \E r \in Revisions : CancelBillingRuleRevision(a, r)
       \/ AdminStep(a)
  \/ \E s \in Syncs : SyncRead(s) \/ SyncStore(s)
  \/ \E p \in Pages : GetSysConfigs(p) \/ BatchUpdateSysConfigs(p) \/ SaveStep(p)

(***************************************************************************)
(* The process is started again, the cron runs every minute and goes on,   *)
(* and a transaction that is tried again and again does not fail each      *)
(* time.  Nothing is assumed of admins and their handlers, of the clock,   *)
(* of pages or of syncs: any of them may stop half-way.                    *)
(***************************************************************************)
RulesSpec ==
  /\ RulesInit /\ [][RulesNext]_rulesVars
  /\ WF_rulesVars(Start)
  /\ WF_rulesVars(\E r \in Revisions : Choose(r))
  /\ SF_rulesVars(Apply)
  /\ WF_rulesVars(PatchApplied)

-----------------------------------------------------------------------------
(***************************************************************************)
(* Properties.                                                             *)
(***************************************************************************)

\* The rows refer to revisions that exist, and once the process has started
\* there is something in force and something to charge by.
RulesTypeOK ==
  /\ phase \in {"down", "starting", "up"}
  /\ now \in Times
  /\ made \in 0 .. MaxRevisions
  /\ effective \in [Revisions -> Times]
  /\ canceled \subseteq 1 .. made
  /\ config \in (1 .. made) \cup {None}
  /\ cached \in (1 .. made) \cup {None}
  /\ phase # "down" => config # None /\ cached # None
  /\ everInForce \subseteq 1 .. made
  /\ job \in [Admins -> Jobs]
  /\ sync \in [Syncs -> Revisions \cup {None}]
  /\ page \in [Pages -> PageStates]
  /\ cron \in Activations
  /\ saves \in 0 .. MaxSaves
  /\ crashes \in 0 .. MaxCrashes

\* A revision canceled before it came into force never does, and nobody is
\* charged by it: not by an activation that had chosen it, not by a page, and
\* not by a cache patched or rebuilt from what was read before.
CanceledNeverUsed ==
  [][\A r \in canceled \ everInForce : config' # r /\ cached' # r]_rulesVars

\* Whatever pages wrote back, whoever was late, and wherever the process
\* crashed: when the admins are done, the rules in force become and stay the
\* latest that are due and not canceled.
LatestComesIntoForce == <>[](config # None /\ IsLatest(config))

\* As long as some edit somewhere keeps rebuilding the cache, requests end up
\* charged by the rules in force.
SyncsRepair ==
  (\A s \in Syncs : []<><<SyncStore(s)>>_rulesVars) => <>[](cached = config)
=============================================================================
