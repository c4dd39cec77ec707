----------------------------- MODULE AuthCache -----------------------------
(***************************************************************************)
(* The keys the gateway lets in.                                           *)
(*                                                                         *)
(* An account has a main key and up to MaxTokens sub-keys with a limit of  *)
(* their own.  The gateway only looks into memory: AuthCache says whose a  *)
(* key is, AuthTokenCache what its limit is.  After a change of an account *)
(* or a key a request reads both tables, one after the other, and replaces *)
(* the maps (SyncCacheConfig), or puts one account right                   *)
(* (RefreshUserAuth).  Nothing orders requests that do so at once.         *)
(*                                                                         *)
(* A map is here the set of its keys: every copy of an account that is put *)
(* into AuthCache is of an active one.  What accounts and limits hold,     *)
(* channels and routes, and who may change what are left out.              *)
(***************************************************************************)
EXTENDS Integers, FiniteSets

CONSTANTS
  Users,      \* an account stands for its main key, too
  SubKeys,
  Requests,   \* the requests that are handled at once
  MaxTokens,  \* sub-keys of an account
  QueriesFail,
  None

ASSUME AuthAssumption ==
  /\ Users \cap SubKeys = {}
  /\ MaxTokens \in Nat /\ QueriesFail \in BOOLEAN
  /\ None \notin Users \cup SubKeys

Status == {"none", "active", "banned", "other", "gone"}
Stages == {"idle", "users", "keys", "publish", "evict", "add", "read", "apply"}

\* A request: how far it has got, the account it is about, whether it evicts
\* that account in the end, and what it has read.
Job == [at : Stages, user : Users \cup {None}, ban : BOOLEAN,
        active : SUBSET Users, enabled : SUBSET SubKeys]
Held(a, u, b, us, ks) == [at |-> a, user |-> u, ban |-> b, active |-> us, enabled |-> ks]
Idle == Held("idle", None, FALSE, {}, {})

VARIABLES
  status,     \* of the row of an account; "other" is any number but 1 and 2
  owner,      \* the account of a sub-key that has been created
  enabled,    \* sub-keys with status 1
  deleted,    \* sub-keys whose row is gone
  AuthCache, AuthTokenCache, userSubTokens,
  job,
  behind,     \* <<request, account>>: it has read of the account what is no longer so
  current,    \* accounts that the maps were last put right for from what is still so
  loggedOut,  \* main keys that were evicted though they are good
  barred      \* accounts that an admin has banned, and that were let in

tables == <<status, owner, enabled, deleted, barred>>
caches == <<AuthCache, AuthTokenCache, userSubTokens>>
vars == <<tables, caches, job, behind, current, loggedOut>>

Init ==
  /\ status = [u \in Users |-> "none"]
  /\ owner = [k \in SubKeys |-> None]
  /\ enabled = {} /\ deleted = {} /\ barred = {}
  /\ AuthCache = {} /\ AuthTokenCache = {}
  /\ userSubTokens = [u \in Users |-> {}]
  /\ job = [r \in Requests |-> Idle]
  /\ behind = {} /\ current = {} /\ loggedOut = {}

-----------------------------------------------------------------------------
(* Helpers.                                                                *)

Active == {u \in Users : status[u] = "active"}
Mine(u) == {k \in SubKeys : owner[k] = u}
KeysOf(u) == {u} \cup Mine(u)
Good == Active \cup {k \in enabled : owner[k] \in Active}

Goes(r, j) == job' = [job EXCEPT ![r] = j]
HasRead == {r \in Requests : job[r].at \in {"keys", "publish", "add", "apply"}}

\* A row of u is changed: whoever has read it, and the maps, may be behind.
Changed(r, u) ==
  /\ behind' = (behind \cup HasRead \X {u}) \ {<<r, u>>}
  /\ current' = current \ {u}
  /\ UNCHANGED <<caches, loggedOut>>

UpToDate(r) == behind' = behind \ ({r} \X Users)

\* SyncCacheConfig begins.
Synced(r) == Goes(r, Held("users", None, FALSE, {}, {}))

-----------------------------------------------------------------------------
(* The tables change.                                                      *)

Signup(r, u) ==
  /\ job[r].at = "idle" /\ status[u] = "none"
  /\ status' = [status EXCEPT ![u] = "active"]
  /\ Goes(r, Held("add", u, FALSE, {u}, {}))
  /\ Changed(r, u)
  /\ UNCHANGED <<owner, enabled, deleted, barred>>

\* Whatever the status is set to, everything is read again.
UpdateUser(r, u, s) ==
  /\ job[r].at = "idle" /\ status[u] \notin {"none", "gone"}
  /\ s \in {"active", "banned", "other"}
  /\ status' = [status EXCEPT ![u] = s]
  /\ barred' = IF s = "banned" /\ u \in AuthCache THEN barred \cup {u} ELSE barred \ {u}
  /\ IF s = "banned" THEN Goes(r, Held("users", u, TRUE, {}, {})) ELSE Synced(r)
  /\ Changed(r, u)
  /\ UNCHANGED <<owner, enabled, deleted>>

\* handleModerationRiskAfterAudit: only an active account, and only itself is refreshed.
Autoban(r, u) ==
  /\ job[r].at = "idle" /\ status[u] = "active"
  /\ status' = [status EXCEPT ![u] = "banned"]
  /\ Goes(r, Held("read", u, FALSE, {}, {}))
  /\ Changed(r, u)
  /\ UNCHANGED <<owner, enabled, deleted, barred>>

\* BulkDeleteUsers and AdminPurgeUser end in the same way.
DeleteUser(r, u) ==
  /\ job[r].at = "idle" /\ status[u] \notin {"none", "gone"}
  /\ status' = [status EXCEPT ![u] = "gone"]
  /\ barred' = barred \ {u}
  /\ Synced(r)
  /\ Changed(r, u)
  /\ UNCHANGED <<owner, enabled, deleted>>

CreateToken(r, u, k) ==
  /\ job[r].at = "idle" /\ status[u] \notin {"none", "gone"}
  /\ owner[k] = None
  /\ Cardinality(Mine(u) \ deleted) < MaxTokens
  /\ owner' = [owner EXCEPT ![k] = u]
  /\ enabled' = enabled \cup {k}
  /\ Synced(r)
  /\ Changed(r, u)
  /\ UNCHANGED <<status, deleted, barred>>

UpdateTokenSettings(r, k, on) ==
  /\ job[r].at = "idle" /\ owner[k] # None /\ k \notin deleted
  /\ enabled' = IF on THEN enabled \cup {k} ELSE enabled \ {k}
  /\ Synced(r)
  /\ Changed(r, owner[k])
  /\ UNCHANGED <<status, owner, deleted, barred>>

DeleteToken(r, k) ==
  /\ job[r].at = "idle" /\ owner[k] # None /\ k \notin deleted
  /\ enabled' = enabled \ {k}
  /\ deleted' = deleted \cup {k}
  /\ Synced(r)
  /\ Changed(r, owner[k])
  /\ UNCHANGED <<status, owner, barred>>

-----------------------------------------------------------------------------
(* SyncCacheConfig.                                                        *)

\* Channels, models or settings were saved: the accounts are read again, too.
OtherSave(r) ==
  /\ job[r].at = "idle"
  /\ Synced(r)
  /\ UNCHANGED <<tables, caches, behind, current, loggedOut>>

ReadUsers(r) ==
  /\ job[r].at = "users"
  /\ Goes(r, [job[r] EXCEPT !.at = "keys", !.active = Active])
  /\ UpToDate(r)
  /\ UNCHANGED <<tables, caches, current, loggedOut>>

ReadTokens(r) ==
  /\ job[r].at = "keys"
  /\ Goes(r, [job[r] EXCEPT !.at = "publish", !.enabled = enabled])
  /\ UNCHANGED <<tables, caches, behind, current, loggedOut>>

AfterSync(r) ==
  IF job[r].ban THEN Goes(r, [job[r] EXCEPT !.at = "evict"]) ELSE Goes(r, Idle)

\* A query fails: the maps stay as they are, and the handler goes on.
Abort(r) ==
  /\ QueriesFail /\ job[r].at \in {"users", "keys"}
  /\ AfterSync(r)
  /\ UpToDate(r)
  /\ UNCHANGED <<tables, caches, current, loggedOut>>

\* The sub-keys, of those that were read, whose account was read as active.
Imported(r) == {k \in job[r].enabled : owner[k] \in job[r].active}

\* mutant: a key that is new gets its limit only with the next change
OldTokenMap(r) == AuthTokenCache \cap Imported(r)
NewTokenMap(r) == Imported(r)

NewAuthMap(r) == job[r].active \cup Imported(r)

Publish(r) ==
  /\ job[r].at = "publish"
  /\ AuthCache' = NewAuthMap(r)
  /\ AuthTokenCache' = NewTokenMap(r)
  /\ userSubTokens' = [u \in Users |-> Imported(r) \cap Mine(u)]
  /\ current' = {u \in Users : <<r, u>> \notin behind}
  /\ loggedOut' = {}
  /\ AfterSync(r)
  /\ UpToDate(r)
  /\ UNCHANGED tables

\* After a ban, the main key once more.
EvictUserToken(r) ==
  /\ job[r].at = "evict"
  /\ AuthCache' = AuthCache \ {job[r].user}
  /\ loggedOut' = loggedOut \cup {job[r].user}
  /\ Goes(r, Idle)
  /\ UNCHANGED <<tables, AuthTokenCache, userSubTokens, behind, current>>

-----------------------------------------------------------------------------
(* One account.                                                            *)

AddUserToAuthCache(r) ==
  /\ job[r].at = "add"
  /\ AuthCache' = AuthCache \cup job[r].active
  /\ current' = IF <<r, job[r].user>> \in behind THEN current \ {job[r].user} ELSE current \cup {job[r].user}
  /\ Goes(r, Idle)
  /\ UpToDate(r)
  /\ UNCHANGED <<tables, AuthTokenCache, userSubTokens, loggedOut>>

\* Whatever changes the balance of an account.
RefreshUserAuth(r, u) ==
  /\ job[r].at = "idle" /\ status[u] # "none"
  /\ Goes(r, Held("read", u, FALSE, {}, {}))
  /\ UNCHANGED <<tables, caches, behind, current, loggedOut>>

ReadUser(r) ==
  LET u == job[r].user IN
  /\ job[r].at = "read" /\ status[u] # "gone"
  /\ Goes(r, Held("apply", u, FALSE, {u} \cap Active, {}))
  /\ UpToDate(r)
  /\ UNCHANGED <<tables, caches, current, loggedOut>>

\* The row is not found, or cannot be read.
GiveUp(r) ==
  /\ job[r].at = "read"
  /\ QueriesFail \/ status[job[r].user] = "gone"
  /\ Goes(r, Idle)
  /\ UNCHANGED <<tables, caches, behind, current, loggedOut>>

\* mutant: only the main key is evicted
NoSubKeys(u) == {}
SubKeysOf(u) == userSubTokens[u]

\* Under the lock: an active account gets its keys back, another one loses all.
ApplyRefresh(r) ==
  LET u == job[r].user
      keys == {u} \cup SubKeysOf(u)
  IN
  /\ job[r].at = "apply"
  /\ IF job[r].active # {}
     THEN /\ AuthCache' = AuthCache \cup keys
          /\ loggedOut' = loggedOut \ {u}
          /\ current' = IF <<r, u>> \in behind THEN current \ {u} ELSE current
          /\ UNCHANGED <<AuthTokenCache, userSubTokens>>
     ELSE /\ AuthCache' = AuthCache \ keys
          /\ AuthTokenCache' = AuthTokenCache \ SubKeysOf(u)
          /\ userSubTokens' = [userSubTokens EXCEPT ![u] = {}]
          /\ current' = IF <<r, u>> \in behind THEN current \ {u} ELSE current \cup {u}
          /\ UNCHANGED loggedOut
  /\ Goes(r, Idle)
  /\ UpToDate(r)
  /\ UNCHANGED tables

\* The browser session ends, and with it the main key.
AuthLogout(u) ==
  /\ status[u] \notin {"none", "gone"}
  /\ AuthCache' = AuthCache \ {u}
  /\ loggedOut' = loggedOut \cup {u}
  /\ UNCHANGED <<tables, AuthTokenCache, userSubTokens, job, behind, current>>

-----------------------------------------------------------------------------
\* The process starts again, and reads everything before it serves.
Restart(r) ==
  /\ AuthCache' = {} /\ AuthTokenCache' = {}
  /\ userSubTokens' = [u \in Users |-> {}]
  /\ job' = [q \in Requests |-> IF q = r THEN Held("users", None, FALSE, {}, {}) ELSE Idle]
  /\ behind' = {} /\ current' = {} /\ loggedOut' = {}
  /\ UNCHANGED tables

ChangeUser(r) ==
  \/ \E u \in Users : Signup(r, u) \/ Autoban(r, u) \/ DeleteUser(r, u)
  \/ \E u \in Users, s \in Status : UpdateUser(r, u, s)

ChangeToken(r) ==
  \/ \E u \in Users, k \in SubKeys : CreateToken(r, u, k)
  \/ \E k \in SubKeys, on \in BOOLEAN : UpdateTokenSettings(r, k, on)
  \/ \E k \in SubKeys : DeleteToken(r, k)

CacheStep(r) ==
  \/ OtherSave(r) \/ ReadUsers(r) \/ ReadTokens(r) \/ Abort(r) \/ Publish(r)
  \/ EvictUserToken(r) \/ AddUserToAuthCache(r)
  \/ \E u \in Users : RefreshUserAuth(r, u)
  \/ ReadUser(r) \/ GiveUp(r) \/ ApplyRefresh(r)

Next ==
  \/ \E r \in Requests : ChangeUser(r) \/ ChangeToken(r) \/ CacheStep(r) \/ Restart(r)
  \/ \E u \in Users : AuthLogout(u)

Spec == Init /\ [][Next]_vars

-----------------------------------------------------------------------------
(* Properties.                                                             *)

TypeOK ==
  /\ status \in [Users -> Status]
  /\ owner \in [SubKeys -> Users \cup {None}]
  /\ enabled \subseteq SubKeys /\ deleted \subseteq SubKeys /\ barred \subseteq Users
  /\ AuthCache \subseteq Users \cup SubKeys
  /\ AuthTokenCache \subseteq SubKeys
  /\ userSubTokens \in [Users -> SUBSET SubKeys]
  /\ job \in [Requests -> Job]
  /\ behind \subseteq Requests \X Users /\ current \subseteq Users /\ loggedOut \subseteq Users

\* A sub-key that is let in has its limit and its date of expiry beside it
\* (cache.go, SyncCacheConfig and RefreshUserAuth; the gateway takes a key
\* without a limit for a main key): whatever replaces or puts right the maps,
\* in any order.
SubKeysAreLimited == AuthCache \cap SubKeys \subseteq AuthTokenCache

\* For an account that was put right from what the tables still say, exactly
\* the good keys are let in, but for a main key that was logged out (cache.go,
\* SyncCacheConfig, RefreshUserAuth, AddUserToAuthCache): refreshes neither
\* bring back a key nor drop one, and a ban by the moderation leaves none.
CurrentIsExact ==
  \A u \in current :
    /\ KeysOf(u) \cap AuthCache \subseteq Good
    /\ KeysOf(u) \cap Good \subseteq AuthCache \cup loggedOut
=============================================================================
