-------------------------- MODULE AuthCacheProofs --------------------------
(***************************************************************************)
(* The properties of AuthCache, for any accounts, keys and requests.       *)
(*                                                                         *)
(* userSubTokens lists exactly the sub-keys that have a limit, and no      *)
(* other sub-key is let in.  A request that is not behind on an account    *)
(* has read of it what the tables still say.                               *)
(***************************************************************************)
EXTENDS AuthCache, TLAPS

\* The two maps of sub-keys agree.
Maps ==
  /\ \A u \in Users : userSubTokens[u] \subseteq AuthTokenCache \cap Mine(u)
  /\ \A k \in AuthTokenCache : owner[k] \in Users /\ k \in userSubTokens[owner[k]]
  /\ SubKeysAreLimited

\* What r has read of u, when it is not behind.
Knows(r, u) ==
  /\ job[r].at \in {"keys", "publish"} => (u \in job[r].active <=> u \in Active)
  /\ job[r].at = "publish" => Mine(u) \cap job[r].enabled = Mine(u) \cap enabled
  /\ job[r].at = "add" /\ job[r].user = u => u \in Active /\ Mine(u) = {}
  /\ job[r].at = "apply" /\ job[r].user = u => (job[r].active = {u} <=> u \in Active)

Shaped(r) ==
  /\ job[r].at \in {"add", "read", "apply", "evict"} => job[r].user \in Users
  /\ job[r].at = "add" => job[r].active = {job[r].user}
  /\ job[r].at = "apply" => job[r].active \in {{}, {job[r].user}}
  /\ job[r].ban => job[r].user \in Users

Reads ==
  /\ \A r \in Requests : Shaped(r)
  /\ \A r \in Requests, u \in Users : <<r, u>> \notin behind => Knows(r, u)

NewHasNone == \A u \in Users : status[u] = "none" => Mine(u) = {}

ExactFor(u) ==
  /\ KeysOf(u) \cap AuthCache \subseteq Good
  /\ KeysOf(u) \cap Good \subseteq AuthCache \cup loggedOut
  /\ userSubTokens[u] \subseteq enabled

Exact == \A u \in current : ExactFor(u)

IInv == TypeOK /\ Maps /\ Reads /\ NewHasNone /\ Exact

-----------------------------------------------------------------------------
LEMMA IdleTyped == Idle \in Job /\ Idle.at = "idle" /\ Idle.ban = FALSE
BY DEF Idle, Held, Job, Stages

LEMMA Moved ==
  ASSUME TypeOK, NEW r \in Requests, NEW j \in Job, job' = [job EXCEPT ![r] = j]
  PROVE  /\ job' \in [Requests -> Job]
         /\ job'[r] = j
         /\ \A q \in Requests : q # r => job'[q] = job[q]
BY DEF TypeOK

\* A main key is no sub-key.
LEMMA TwoKinds == \A u \in Users : u \notin SubKeys
BY AuthAssumption

LEMMA InitIInv == Init => IInv
<1> SUFFICES ASSUME Init PROVE IInv
  OBVIOUS
<1>1. TypeOK
  BY IdleTyped DEF Init, TypeOK, Status
<1>2. Maps
  BY DEF Init, Maps, SubKeysAreLimited
<1>3. Reads
  <2>1. \A r \in Requests : job[r].at = "idle" /\ job[r].ban = FALSE
    BY IdleTyped DEF Init
  <2> QED BY <2>1 DEF Reads, Shaped, Knows
<1>4. NewHasNone
  BY AuthAssumption DEF Init, NewHasNone, Mine
<1>5. Exact
  BY DEF Init, Exact
<1> QED BY <1>1, <1>2, <1>3, <1>4, <1>5 DEF IInv

-----------------------------------------------------------------------------
(* A row of u is changed by r, which was idle.                             *)

LEMMA ChangedKeepsAll ==
  ASSUME IInv, TypeOK', NewHasNone', NEW r \in Requests, NEW u \in Users,
         Changed(r, u), job[r].at = "idle",
         \A q \in Requests : q # r => job'[q] = job[q],
         \A v \in Users : v # u => status'[v] = status[v],
         \A k \in SubKeys : owner[k] # None => owner'[k] = owner[k],
         \A k \in SubKeys : owner[k] = None => owner'[k] \in {None, u},
         \A k \in SubKeys : owner[k] \notin {u, None} => (k \in enabled' <=> k \in enabled),
         Shaped(r)',
         job'[r].at \in {"users", "read", "add"},
         job'[r].at = "add" => job'[r].user = u /\ u \in Active' /\ Mine(u)' = {}
  PROVE  IInv'
<1> USE AuthAssumption
<1>1. TypeOK /\ Maps /\ Reads /\ NewHasNone /\ Exact
  BY DEF IInv
<1>2. /\ behind' = (behind \cup HasRead \X {u}) \ {<<r, u>>}
      /\ current' = current \ {u}
      /\ AuthCache' = AuthCache /\ AuthTokenCache' = AuthTokenCache
      /\ userSubTokens' = userSubTokens /\ loggedOut' = loggedOut
  BY DEF Changed, caches
<1>3. \A v \in Users : v # u => Mine(v)' = Mine(v)
  BY <1>1 DEF Mine, TypeOK
<1>4. \A v \in Users : v # u => (v \in Active' <=> v \in Active)
  BY DEF Active
<1>5. \A v \in Users : v # u => \A k \in Mine(v) : k \in enabled' <=> k \in enabled
  BY DEF Mine
<1>6. Maps'
  <2>1. \A v \in Users : Mine(v) \subseteq Mine(v)'
    BY DEF Mine
  <2>2. \A k \in AuthTokenCache : owner'[k] = owner[k]
    BY <1>1 DEF Maps, TypeOK
  <2> QED BY <1>1, <1>2, <2>1, <2>2 DEF Maps, SubKeysAreLimited
<1>7. Reads'
  <2>1. \A q \in Requests : Shaped(q)'
    BY <1>1 DEF Reads, Shaped
  <2>2. SUFFICES ASSUME NEW q \in Requests, NEW v \in Users, <<q, v>> \notin behind'
                 PROVE  Knows(q, v)'
    BY <2>1 DEF Reads
  <2>3. CASE q = r
    BY <2>3 DEF Knows
  <2>4. CASE q # r /\ v = u
    <3>1. q \notin HasRead
      BY <1>2, <2>2, <2>4
    <3> QED BY <2>4, <3>1 DEF HasRead, Knows
  <2>5. CASE q # r /\ v # u
    <3>1. <<q, v>> \notin behind
      BY <1>2, <2>2, <2>5
    <3>2. Knows(q, v) /\ job'[q] = job[q]
      BY <1>1, <2>5, <3>1 DEF Reads
    <3>3. Mine(v)' \cap enabled' = Mine(v) \cap enabled
      BY <1>3, <1>5, <2>5
    <3>4. Mine(v)' = Mine(v) /\ (v \in Active' <=> v \in Active)
      BY <1>3, <1>4, <2>5
    <3> QED BY <3>2, <3>3, <3>4 DEF Knows
  <2> QED BY <2>3, <2>4, <2>5
<1>8. Exact'
  <2> SUFFICES ASSUME NEW v \in current, v # u
               PROVE  ExactFor(v)'
    BY <1>2 DEF Exact
  <2>1. v \in Users /\ ExactFor(v)
    BY <1>1 DEF Exact, TypeOK
  <2>2. KeysOf(v)' = KeysOf(v)
    BY <1>3, <2>1 DEF KeysOf
  <2>3. \A k \in KeysOf(v) : k \in Good' <=> k \in Good
    <3>1. v \in Good' <=> v \in Good
      BY <1>1, <1>4, <2>1 DEF Good, TypeOK
    <3>2. \A k \in Mine(v) : k \in Good' <=> k \in Good
      BY <1>3, <1>4, <1>5, <2>1 DEF Good, Mine, Active
    <3> QED BY <3>1, <3>2 DEF KeysOf
  <2>4. userSubTokens[v] \subseteq Mine(v)
    BY <1>1, <2>1 DEF Maps
  <2> QED BY <1>2, <1>5, <2>1, <2>2, <2>3, <2>4 DEF ExactFor
<1> QED BY <1>6, <1>7, <1>8 DEF IInv

\* What Synced, and the start of a refresh, put into a request.
LEMMA SyncedHeld ==
  ASSUME TypeOK, NEW r \in Requests, Synced(r)
  PROVE  /\ job' \in [Requests -> Job] /\ job'[r].at = "users" /\ Shaped(r)'
         /\ \A q \in Requests : q # r => job'[q] = job[q]
<1> DEFINE h == Held("users", None, FALSE, {}, {})
<1>1. h \in Job /\ h.at = "users" /\ h.ban = FALSE
  BY DEF Held, Job, Stages
<1>2. job' = [job EXCEPT ![r] = h]
  BY DEF Synced, Goes
<1> HIDE DEF h
<1>3. /\ job' \in [Requests -> Job]
      /\ job'[r] = h
      /\ \A q \in Requests : q # r => job'[q] = job[q]
  BY <1>1, <1>2, Moved
<1> QED BY <1>1, <1>3 DEF Shaped

LEMMA SignupIInv ==
  ASSUME IInv, NEW r \in Requests, NEW u \in Users, Signup(r, u)
  PROVE  IInv'
<1> DEFINE h == Held("add", u, FALSE, {u}, {})
<1>1. h \in Job /\ h.at = "add" /\ h.ban = FALSE /\ h.user = u /\ h.active = {u}
  BY DEF Held, Job, Stages
<1>2. job' = [job EXCEPT ![r] = h]
  BY DEF Signup, Goes
<1> HIDE DEF h
<1>3. /\ job' \in [Requests -> Job]
      /\ job'[r] = h
      /\ \A q \in Requests : q # r => job'[q] = job[q]
  BY <1>1, <1>2, Moved DEF IInv
<1>4. /\ status' = [status EXCEPT ![u] = "active"] /\ status[u] = "none"
      /\ owner' = owner /\ enabled' = enabled /\ deleted' = deleted /\ barred' = barred
      /\ Changed(r, u) /\ job[r].at = "idle"
  BY DEF Signup
<1>5. TypeOK'
  BY <1>3, <1>4 DEF IInv, TypeOK, Status, Changed, caches, HasRead
<1>6. NewHasNone' /\ Mine(u)' = {} /\ u \in Active'
  BY <1>4 DEF IInv, TypeOK, NewHasNone, Mine, Active
<1>7. Shaped(r)'
  BY <1>1, <1>3 DEF Shaped
<1> QED BY <1>1, <1>3, <1>4, <1>5, <1>6, <1>7, ChangedKeepsAll DEF IInv, TypeOK

LEMMA UpdateUserIInv ==
  ASSUME IInv, NEW r \in Requests, NEW u \in Users, NEW s \in Status, UpdateUser(r, u, s)
  PROVE  IInv'
<1> DEFINE h == Held("users", u, TRUE, {}, {})
<1>1. /\ job' \in [Requests -> Job] /\ job'[r].at = "users" /\ Shaped(r)'
      /\ \A q \in Requests : q # r => job'[q] = job[q]
  <2>1. CASE s = "banned"
    <3>1. h \in Job /\ h.at = "users" /\ h.user = u
      BY DEF Held, Job, Stages
    <3>2. job' = [job EXCEPT ![r] = h]
      BY <2>1 DEF UpdateUser, Goes
    <3> HIDE DEF h
    <3>3. /\ job' \in [Requests -> Job]
          /\ job'[r] = h
          /\ \A q \in Requests : q # r => job'[q] = job[q]
      BY <3>1, <3>2, Moved DEF IInv
    <3> QED BY <3>1, <3>3 DEF Shaped
  <2>2. CASE s # "banned"
    BY <2>2, SyncedHeld DEF UpdateUser, IInv
  <2> QED BY <2>1, <2>2
<1>2. /\ status' = [status EXCEPT ![u] = s] /\ s \in Status \ {"none"}
      /\ barred' \in {barred \cup {u}, barred \ {u}}
      /\ owner' = owner /\ enabled' = enabled /\ deleted' = deleted
      /\ Changed(r, u) /\ job[r].at = "idle"
  BY DEF UpdateUser
<1>3. TypeOK'
  BY <1>1, <1>2 DEF IInv, TypeOK, Changed, caches, HasRead
<1>4. NewHasNone'
  BY <1>2 DEF IInv, TypeOK, NewHasNone, Mine
<1> QED BY <1>1, <1>2, <1>3, <1>4, ChangedKeepsAll DEF IInv, TypeOK

LEMMA AutobanIInv ==
  ASSUME IInv, NEW r \in Requests, NEW u \in Users, Autoban(r, u)
  PROVE  IInv'
<1> DEFINE h == Held("read", u, FALSE, {}, {})
<1>1. h \in Job /\ h.at = "read" /\ h.ban = FALSE /\ h.user = u
  BY DEF Held, Job, Stages
<1>2. job' = [job EXCEPT ![r] = h]
  BY DEF Autoban, Goes
<1> HIDE DEF h
<1>3. /\ job' \in [Requests -> Job]
      /\ job'[r] = h
      /\ \A q \in Requests : q # r => job'[q] = job[q]
  BY <1>1, <1>2, Moved DEF IInv
<1>4. /\ status' = [status EXCEPT ![u] = "banned"]
      /\ owner' = owner /\ enabled' = enabled /\ deleted' = deleted /\ barred' = barred
      /\ Changed(r, u) /\ job[r].at = "idle"
  BY DEF Autoban
<1>5. TypeOK'
  BY <1>3, <1>4 DEF IInv, TypeOK, Status, Changed, caches, HasRead
<1>6. NewHasNone'
  BY <1>4 DEF IInv, TypeOK, NewHasNone, Mine
<1>7. Shaped(r)'
  BY <1>1, <1>3 DEF Shaped
<1> QED BY <1>1, <1>3, <1>4, <1>5, <1>6, <1>7, ChangedKeepsAll DEF IInv, TypeOK

LEMMA DeleteUserIInv ==
  ASSUME IInv, NEW r \in Requests, NEW u \in Users, DeleteUser(r, u)
  PROVE  IInv'
<1>1. /\ job' \in [Requests -> Job] /\ job'[r].at = "users" /\ Shaped(r)'
      /\ \A q \in Requests : q # r => job'[q] = job[q]
  BY SyncedHeld DEF DeleteUser, IInv
<1>2. /\ status' = [status EXCEPT ![u] = "gone"] /\ barred' = barred \ {u}
      /\ owner' = owner /\ enabled' = enabled /\ deleted' = deleted
      /\ Changed(r, u) /\ job[r].at = "idle"
  BY DEF DeleteUser
<1>3. TypeOK'
  BY <1>1, <1>2 DEF IInv, TypeOK, Status, Changed, caches, HasRead
<1>4. NewHasNone'
  BY <1>2 DEF IInv, TypeOK, NewHasNone, Mine
<1> QED BY <1>1, <1>2, <1>3, <1>4, ChangedKeepsAll DEF IInv, TypeOK

LEMMA CreateTokenIInv ==
  ASSUME IInv, NEW r \in Requests, NEW u \in Users, NEW k \in SubKeys, CreateToken(r, u, k)
  PROVE  IInv'
<1>1. /\ job' \in [Requests -> Job] /\ job'[r].at = "users" /\ Shaped(r)'
      /\ \A q \in Requests : q # r => job'[q] = job[q]
  BY SyncedHeld DEF CreateToken, IInv
<1>2. /\ status' = status /\ status[u] # "none" /\ barred' = barred /\ deleted' = deleted
      /\ owner[k] = None /\ owner' = [owner EXCEPT ![k] = u] /\ enabled' = enabled \cup {k}
      /\ Changed(r, u) /\ job[r].at = "idle"
  BY DEF CreateToken
<1>3. TypeOK'
  BY <1>1, <1>2 DEF IInv, TypeOK, Changed, caches, HasRead
<1>4. NewHasNone'
  BY <1>2, AuthAssumption DEF IInv, TypeOK, NewHasNone, Mine
<1> QED BY <1>1, <1>2, <1>3, <1>4, ChangedKeepsAll DEF IInv, TypeOK

LEMMA UpdateTokenIInv ==
  ASSUME IInv, NEW r \in Requests, NEW k \in SubKeys, NEW on \in BOOLEAN, UpdateTokenSettings(r, k, on)
  PROVE  IInv'
<1>1. /\ job' \in [Requests -> Job] /\ job'[r].at = "users" /\ Shaped(r)'
      /\ \A q \in Requests : q # r => job'[q] = job[q]
  BY SyncedHeld DEF UpdateTokenSettings, IInv
<1>2. /\ status' = status /\ barred' = barred /\ deleted' = deleted /\ owner' = owner
      /\ owner[k] \in Users /\ enabled' \in {enabled \cup {k}, enabled \ {k}}
      /\ Changed(r, owner[k]) /\ job[r].at = "idle"
  BY DEF UpdateTokenSettings, IInv, TypeOK
<1>3. TypeOK'
  BY <1>1, <1>2 DEF IInv, TypeOK, Changed, caches, HasRead
<1>4. NewHasNone'
  BY <1>2 DEF IInv, NewHasNone, Mine
<1> QED BY <1>1, <1>2, <1>3, <1>4, ChangedKeepsAll DEF IInv, TypeOK

LEMMA DeleteTokenIInv ==
  ASSUME IInv, NEW r \in Requests, NEW k \in SubKeys, DeleteToken(r, k)
  PROVE  IInv'
<1>1. /\ job' \in [Requests -> Job] /\ job'[r].at = "users" /\ Shaped(r)'
      /\ \A q \in Requests : q # r => job'[q] = job[q]
  BY SyncedHeld DEF DeleteToken, IInv
<1>2. /\ status' = status /\ barred' = barred /\ deleted' = deleted \cup {k} /\ owner' = owner
      /\ owner[k] \in Users /\ enabled' = enabled \ {k}
      /\ Changed(r, owner[k]) /\ job[r].at = "idle"
  BY DEF DeleteToken, IInv, TypeOK
<1>3. TypeOK'
  BY <1>1, <1>2 DEF IInv, TypeOK, Changed, caches, HasRead
<1>4. NewHasNone'
  BY <1>2 DEF IInv, NewHasNone, Mine
<1> QED BY <1>1, <1>2, <1>3, <1>4, ChangedKeepsAll DEF IInv, TypeOK

-----------------------------------------------------------------------------
(* Requests go on, and the maps change.                                    *)

LEMMA StepKeepsReads ==
  ASSUME IInv, UNCHANGED tables, NEW r \in Requests,
         \A q \in Requests : q # r => job'[q] = job[q],
         \A q \in Requests, v \in Users : q # r /\ <<q, v>> \in behind => <<q, v>> \in behind',
         Shaped(r)',
         \A v \in Users : <<r, v>> \notin behind' => Knows(r, v)'
  PROVE  Reads' /\ NewHasNone'
<1>1. Reads /\ NewHasNone
  BY DEF IInv
<1>2. Active' = Active /\ enabled' = enabled /\ \A v \in Users : Mine(v)' = Mine(v)
  BY DEF tables, Active, Mine
<1>3. \A q \in Requests : Shaped(q)'
  BY <1>1 DEF Reads, Shaped
<1>4. ASSUME NEW q \in Requests, NEW v \in Users, <<q, v>> \notin behind'
      PROVE  Knows(q, v)'
  <2>1. CASE q = r
    BY <1>4, <2>1
  <2>2. CASE q # r
    <3>1. Knows(q, v) /\ job'[q] = job[q]
      BY <1>1, <1>4, <2>2 DEF Reads
    <3> QED BY <1>2, <3>1 DEF Knows
  <2> QED BY <2>1, <2>2
<1> QED BY <1>1, <1>2, <1>3, <1>4 DEF Reads, NewHasNone, tables

LEMMA SameMapsKeepAll ==
  ASSUME IInv, UNCHANGED <<tables, caches, current, loggedOut>>, TypeOK', Reads', NewHasNone'
  PROVE  IInv'
<1>1. Maps'
  BY DEF IInv, Maps, SubKeysAreLimited, Mine, tables, caches
<1>2. Exact'
  BY DEF IInv, Exact, ExactFor, KeysOf, Mine, Good, Active, tables, caches
<1> QED BY <1>1, <1>2 DEF IInv

LEMMA OtherSaveIInv ==
  ASSUME IInv, NEW r \in Requests, OtherSave(r)
  PROVE  IInv'
<1>1. /\ job' \in [Requests -> Job] /\ job'[r].at = "users" /\ Shaped(r)'
      /\ \A q \in Requests : q # r => job'[q] = job[q]
  BY SyncedHeld DEF OtherSave, IInv
<1>2. UNCHANGED <<tables, caches, behind, current, loggedOut>>
  BY DEF OtherSave
<1>3. TypeOK'
  BY <1>1, <1>2 DEF IInv, TypeOK, tables, caches
<1>4. Reads' /\ NewHasNone'
  BY <1>1, <1>2, StepKeepsReads DEF Knows
<1> QED BY <1>2, <1>3, <1>4, SameMapsKeepAll

LEMMA ReadUsersIInv ==
  ASSUME IInv, NEW r \in Requests, ReadUsers(r)
  PROVE  IInv'
<1> DEFINE h == [job[r] EXCEPT !.at = "keys", !.active = Active]
<1>1. /\ h \in Job /\ h.at = "keys" /\ h.active = Active
      /\ h.ban = job[r].ban /\ h.user = job[r].user
  <2>1. job[r] \in Job /\ Active \in SUBSET Users
    BY DEF IInv, TypeOK, Active
  <2> QED BY <2>1 DEF Job, Stages
<1>2. job' = [job EXCEPT ![r] = h]
  BY DEF ReadUsers, Goes
<1> HIDE DEF h
<1>3. /\ job' \in [Requests -> Job]
      /\ job'[r] = h
      /\ \A q \in Requests : q # r => job'[q] = job[q]
  BY <1>1, <1>2, Moved DEF IInv
<1>4. UNCHANGED <<tables, caches, current, loggedOut>> /\ behind' = behind \ ({r} \X Users)
  BY DEF ReadUsers, UpToDate
<1>5. TypeOK'
  BY <1>3, <1>4 DEF IInv, TypeOK, tables, caches
<1>6. Shaped(r)'
  BY <1>1, <1>3 DEF IInv, Reads, Shaped
<1>7. Active' = Active
  BY <1>4 DEF Active, tables
<1>8. \A v \in Users : Knows(r, v)'
  BY <1>1, <1>3, <1>7 DEF Knows
<1>9. Reads' /\ NewHasNone'
  BY <1>3, <1>4, <1>6, <1>8, StepKeepsReads
<1> QED BY <1>4, <1>5, <1>9, SameMapsKeepAll

LEMMA ReadTokensIInv ==
  ASSUME IInv, NEW r \in Requests, ReadTokens(r)
  PROVE  IInv'
<1> DEFINE h == [job[r] EXCEPT !.at = "publish", !.enabled = enabled]
<1>1. /\ h \in Job /\ h.at = "publish" /\ h.enabled = enabled
      /\ h.ban = job[r].ban /\ h.user = job[r].user /\ h.active = job[r].active
  <2>1. job[r] \in Job /\ enabled \in SUBSET SubKeys
    BY DEF IInv, TypeOK
  <2> QED BY <2>1 DEF Job, Stages
<1>2. job' = [job EXCEPT ![r] = h] /\ job[r].at = "keys"
  BY DEF ReadTokens, Goes
<1> HIDE DEF h
<1>3. /\ job' \in [Requests -> Job]
      /\ job'[r] = h
      /\ \A q \in Requests : q # r => job'[q] = job[q]
  BY <1>1, <1>2, Moved DEF IInv
<1>4. UNCHANGED <<tables, caches, behind, current, loggedOut>>
  BY DEF ReadTokens
<1>5. TypeOK'
  BY <1>3, <1>4 DEF IInv, TypeOK, tables, caches
<1>6. Shaped(r)'
  BY <1>1, <1>3 DEF IInv, Reads, Shaped
<1>7. Active' = Active /\ enabled' = enabled
  BY <1>4 DEF Active, tables
<1>8. \A v \in Users : <<r, v>> \notin behind' => Knows(r, v)'
  BY <1>1, <1>2, <1>3, <1>4, <1>7 DEF IInv, Reads, Knows
<1>9. Reads' /\ NewHasNone'
  BY <1>3, <1>4, <1>6, <1>8, StepKeepsReads
<1> QED BY <1>4, <1>5, <1>9, SameMapsKeepAll

\* A request that ends a synchronisation, or is done.
LEMMA AfterSyncHeld ==
  ASSUME IInv, NEW r \in Requests, AfterSync(r) \/ Goes(r, Idle)
  PROVE  /\ job' \in [Requests -> Job] /\ job'[r].at \in {"idle", "evict"} /\ Shaped(r)'
         /\ \A q \in Requests : q # r => job'[q] = job[q]
<1>1. CASE Goes(r, Idle)
  <2>1. /\ job' \in [Requests -> Job]
        /\ job'[r] = Idle
        /\ \A q \in Requests : q # r => job'[q] = job[q]
    BY <1>1, IdleTyped, Moved DEF IInv, Goes
  <2> QED BY <2>1, IdleTyped DEF Shaped
<1>2. CASE job[r].ban /\ Goes(r, [job[r] EXCEPT !.at = "evict"])
  <2> DEFINE h == [job[r] EXCEPT !.at = "evict"]
  <2>1. h \in Job /\ h.at = "evict" /\ h.user = job[r].user /\ h.ban = job[r].ban
    <3>1. job[r] \in Job
      BY DEF IInv, TypeOK
    <3> QED BY <3>1 DEF Job, Stages
  <2>2. job' = [job EXCEPT ![r] = h]
    BY <1>2 DEF Goes
  <2>3. job[r].user \in Users
    BY <1>2 DEF IInv, Reads, Shaped
  <2> HIDE DEF h
  <2>4. /\ job' \in [Requests -> Job]
        /\ job'[r] = h
        /\ \A q \in Requests : q # r => job'[q] = job[q]
    BY <2>1, <2>2, Moved DEF IInv
  <2> QED BY <2>1, <2>3, <2>4 DEF Shaped
<1> QED BY <1>1, <1>2 DEF AfterSync

LEMMA AbortIInv ==
  ASSUME IInv, NEW r \in Requests, Abort(r) \/ GiveUp(r)
  PROVE  IInv'
<1>1. /\ job' \in [Requests -> Job] /\ job'[r].at \in {"idle", "evict"} /\ Shaped(r)'
      /\ \A q \in Requests : q # r => job'[q] = job[q]
  BY AfterSyncHeld DEF Abort, GiveUp
<1>2. /\ UNCHANGED <<tables, caches, current, loggedOut>>
      /\ behind' \in {behind, behind \ ({r} \X Users)}
  BY DEF Abort, GiveUp, UpToDate
<1>3. TypeOK'
  BY <1>1, <1>2 DEF IInv, TypeOK, tables, caches
<1>4. \A v \in Users : Knows(r, v)'
  BY <1>1 DEF Knows
<1>5. Reads' /\ NewHasNone'
  BY <1>1, <1>2, <1>4, StepKeepsReads
<1> QED BY <1>2, <1>3, <1>5, SameMapsKeepAll

LEMMA PublishIInv ==
  ASSUME IInv, NEW r \in Requests, Publish(r)
  PROVE  IInv'
<1>1. /\ job' \in [Requests -> Job] /\ job'[r].at \in {"idle", "evict"} /\ Shaped(r)'
      /\ \A q \in Requests : q # r => job'[q] = job[q]
  BY AfterSyncHeld DEF Publish
<1>2. /\ UNCHANGED tables
      /\ behind' = behind \ ({r} \X Users)
      /\ AuthCache' = job[r].active \cup Imported(r)
      /\ AuthTokenCache' = Imported(r)
      /\ userSubTokens' = [u \in Users |-> Imported(r) \cap Mine(u)]
      /\ current' = {u \in Users : <<r, u>> \notin behind}
      /\ loggedOut' = {}
  BY DEF Publish, UpToDate, NewAuthMap, NewTokenMap
<1>3. job[r].active \subseteq Users /\ job[r].enabled \subseteq SubKeys /\ job[r].at = "publish"
  <2>1. job[r] \in Job
    BY DEF IInv, TypeOK
  <2> QED BY <2>1 DEF Job, Publish
<1>4. TypeOK'
  BY <1>1, <1>2, <1>3 DEF IInv, TypeOK, tables, Imported, Mine
<1>5. \A v \in Users : Knows(r, v)'
  BY <1>1 DEF Knows
<1>6. Reads' /\ NewHasNone'
  BY <1>1, <1>2, <1>5, StepKeepsReads
<1>7. Active' = Active /\ Good' = Good /\ enabled' = enabled /\ owner' = owner /\ \A u \in Users : Mine(u)' = Mine(u) /\ KeysOf(u)' = KeysOf(u)
  BY <1>2 DEF Active, Good, Mine, KeysOf, tables
<1>8. Maps'
  <2>1. \A k \in Imported(r) : k \in SubKeys /\ owner[k] \in Users /\ k \in Mine(owner[k])
    BY <1>3 DEF Imported, Mine
  <2>2. SubKeysAreLimited'
    BY <1>2, <1>3, TwoKinds DEF SubKeysAreLimited
  <2> QED BY <1>2, <1>7, <2>1, <2>2 DEF Maps
<1>9. Exact'
  <2> SUFFICES ASSUME NEW u \in Users, <<r, u>> \notin behind
               PROVE  ExactFor(u)'
    BY <1>2 DEF Exact
  <2>1. /\ u \in job[r].active <=> u \in Active
        /\ Mine(u) \cap job[r].enabled = Mine(u) \cap enabled
    BY <1>3 DEF IInv, Reads, Knows
  <2>2. u \in AuthCache' <=> u \in Good
    BY <1>2, <1>3, <2>1, TwoKinds DEF Good, Imported, IInv, TypeOK
  <2>3. \A k \in Mine(u) : k \in AuthCache' <=> k \in Good
    BY <1>2, <1>3, <2>1, AuthAssumption DEF Good, Imported, Mine, Active
  <2>4. userSubTokens'[u] \subseteq enabled
    BY <1>2, <2>1 DEF Imported, Mine
  <2> QED BY <1>7, <2>2, <2>3, <2>4 DEF ExactFor, KeysOf
<1> QED BY <1>4, <1>6, <1>8, <1>9 DEF IInv

LEMMA EvictIInv ==
  ASSUME IInv, NEW r \in Requests, EvictUserToken(r)
  PROVE  IInv'
<1>1. /\ job' \in [Requests -> Job] /\ job'[r].at \in {"idle", "evict"} /\ Shaped(r)'
      /\ \A q \in Requests : q # r => job'[q] = job[q]
  BY AfterSyncHeld DEF EvictUserToken
<1>2. /\ UNCHANGED <<tables, AuthTokenCache, userSubTokens, behind, current>>
      /\ AuthCache' = AuthCache \ {job[r].user}
      /\ loggedOut' = loggedOut \cup {job[r].user}
      /\ job[r].user \in Users
  BY DEF EvictUserToken, IInv, Reads, Shaped
<1>3. TypeOK'
  BY <1>1, <1>2 DEF IInv, TypeOK, tables
<1>4. Reads' /\ NewHasNone'
  BY <1>1, <1>2, StepKeepsReads DEF Knows
<1>5. Maps'
  BY <1>2 DEF IInv, Maps, SubKeysAreLimited, Mine, tables
<1>6. Exact'
  BY <1>2 DEF IInv, Exact, ExactFor, KeysOf, Mine, Good, Active, tables
<1> QED BY <1>3, <1>4, <1>5, <1>6 DEF IInv

LEMMA AddIInv ==
  ASSUME IInv, NEW r \in Requests, AddUserToAuthCache(r)
  PROVE  IInv'
<1> DEFINE u == job[r].user
<1>1. /\ job' \in [Requests -> Job] /\ job'[r].at \in {"idle", "evict"} /\ Shaped(r)'
      /\ \A q \in Requests : q # r => job'[q] = job[q]
  BY AfterSyncHeld DEF AddUserToAuthCache
<1>2. u \in Users /\ job[r].active = {u} /\ job[r].at = "add"
  BY DEF AddUserToAuthCache, IInv, Reads, Shaped
<1>3. /\ UNCHANGED <<tables, AuthTokenCache, userSubTokens, loggedOut>>
      /\ behind' = behind \ ({r} \X Users)
      /\ AuthCache' = AuthCache \cup {u}
      /\ current' = IF <<r, u>> \in behind THEN current \ {u} ELSE current \cup {u}
  BY <1>2 DEF AddUserToAuthCache, UpToDate
<1>4. <<r, u>> \notin behind => u \in Active /\ Mine(u) = {}
  BY <1>2 DEF IInv, Reads, Knows
<1> HIDE DEF u
<1>5. TypeOK'
  BY <1>1, <1>2, <1>3 DEF IInv, TypeOK, tables
<1>6. Reads' /\ NewHasNone'
  <2>1. \A v \in Users : Knows(r, v)'
    BY <1>1 DEF Knows
  <2> QED BY <1>1, <1>3, <2>1, StepKeepsReads
<1>7. Maps'
  BY <1>2, <1>3, TwoKinds DEF IInv, Maps, SubKeysAreLimited, Mine, tables
<1>8. Exact'
  <2> SUFFICES ASSUME NEW v \in Users, v \in current'
               PROVE  ExactFor(v)'
    BY <1>5 DEF Exact, TypeOK
  <2>1. KeysOf(v)' = KeysOf(v) /\ Good' = Good /\ enabled' = enabled
    BY <1>3 DEF KeysOf, Mine, Good, Active, tables
  <2>2. CASE v = u
    <3>1. u \in Active /\ Mine(u) = {}
      BY <1>3, <1>4, <2>2
    <3>2. userSubTokens[u] = {}
      BY <1>2, <3>1 DEF IInv, Maps
    <3> QED BY <1>3, <2>1, <2>2, <3>1, <3>2 DEF ExactFor, KeysOf, Good
  <2>3. CASE v # u
    <3>1. ExactFor(v)
      BY <1>3, <2>3 DEF IInv, Exact
    <3>2. u \notin KeysOf(v)
      BY <1>2, <2>3, TwoKinds DEF KeysOf, Mine
    <3> QED BY <1>3, <2>1, <3>1, <3>2 DEF ExactFor
  <2> QED BY <2>2, <2>3
<1> QED BY <1>5, <1>6, <1>7, <1>8 DEF IInv

LEMMA RefreshIInv ==
  ASSUME IInv, NEW r \in Requests, NEW u \in Users, RefreshUserAuth(r, u)
  PROVE  IInv'
<1> DEFINE h == Held("read", u, FALSE, {}, {})
<1>1. h \in Job /\ h.at = "read" /\ h.ban = FALSE /\ h.user = u
  BY DEF Held, Job, Stages
<1>2. job' = [job EXCEPT ![r] = h]
  BY DEF RefreshUserAuth, Goes
<1> HIDE DEF h
<1>3. /\ job' \in [Requests -> Job]
      /\ job'[r] = h
      /\ \A q \in Requests : q # r => job'[q] = job[q]
  BY <1>1, <1>2, Moved DEF IInv
<1>4. UNCHANGED <<tables, caches, behind, current, loggedOut>>
  BY DEF RefreshUserAuth
<1>5. TypeOK'
  BY <1>3, <1>4 DEF IInv, TypeOK, tables, caches
<1>6. Shaped(r)' /\ \A v \in Users : Knows(r, v)'
  BY <1>1, <1>3 DEF Shaped, Knows
<1>7. Reads' /\ NewHasNone'
  BY <1>3, <1>4, <1>6, StepKeepsReads
<1> QED BY <1>4, <1>5, <1>7, SameMapsKeepAll

LEMMA ReadUserIInv ==
  ASSUME IInv, NEW r \in Requests, ReadUser(r)
  PROVE  IInv'
<1> DEFINE u == job[r].user
           h == Held("apply", u, FALSE, {u} \cap Active, {})
<1>0. u \in Users
  BY DEF ReadUser, IInv, Reads, Shaped
<1>1. h \in Job /\ h.at = "apply" /\ h.ban = FALSE /\ h.user = u /\ h.active = {u} \cap Active
  <2>1. {u} \cap Active \in SUBSET Users
    BY DEF Active
  <2> HIDE DEF u
  <2> QED BY <1>0, <2>1 DEF Held, Job, Stages
<1>2. job' = [job EXCEPT ![r] = h]
  BY DEF ReadUser, Goes
<1> HIDE DEF u, h
<1>3. /\ job' \in [Requests -> Job]
      /\ job'[r] = h
      /\ \A q \in Requests : q # r => job'[q] = job[q]
  BY <1>1, <1>2, Moved DEF IInv
<1>4. UNCHANGED <<tables, caches, current, loggedOut>> /\ behind' = behind \ ({r} \X Users)
  BY DEF ReadUser, UpToDate
<1>5. TypeOK'
  BY <1>3, <1>4 DEF IInv, TypeOK, tables, caches
<1>6. Active' = Active
  BY <1>4 DEF Active, tables
<1>7. Shaped(r)' /\ \A v \in Users : Knows(r, v)'
  BY <1>0, <1>1, <1>3, <1>6 DEF Shaped, Knows
<1>8. Reads' /\ NewHasNone'
  BY <1>3, <1>4, <1>7, StepKeepsReads
<1> QED BY <1>4, <1>5, <1>8, SameMapsKeepAll

LEMMA ApplyIInv ==
  ASSUME IInv, NEW r \in Requests, ApplyRefresh(r)
  PROVE  IInv'
<1> DEFINE u == job[r].user
<1>1. /\ job' \in [Requests -> Job] /\ job'[r].at \in {"idle", "evict"} /\ Shaped(r)'
      /\ \A q \in Requests : q # r => job'[q] = job[q]
  BY AfterSyncHeld DEF ApplyRefresh
<1>2. u \in Users /\ job[r].active \in {{}, {u}}
  BY DEF ApplyRefresh, IInv, Reads, Shaped
<1>3. UNCHANGED tables /\ behind' = behind \ ({r} \X Users)
  BY DEF ApplyRefresh, UpToDate
<1>4. CASE job[r].active # {}
  <2>1. /\ AuthCache' = AuthCache \cup {u} \cup userSubTokens[u]
        /\ loggedOut' = loggedOut \ {u}
        /\ current' = IF <<r, u>> \in behind THEN current \ {u} ELSE current
        /\ AuthTokenCache' = AuthTokenCache /\ userSubTokens' = userSubTokens
    BY <1>4 DEF ApplyRefresh, SubKeysOf
  <2>2. <<r, u>> \notin behind => u \in Active
    BY <1>2, <1>4 DEF IInv, Reads, Knows, ApplyRefresh
  <2> HIDE DEF u
  <2>3. userSubTokens[u] \subseteq AuthTokenCache \cap Mine(u)
    BY <1>2 DEF IInv, Maps
  <2>4. TypeOK'
    BY <1>1, <1>2, <1>3, <2>1, <2>3 DEF IInv, TypeOK, tables, Mine
  <2>5. Reads' /\ NewHasNone'
    <3>1. \A v \in Users : Knows(r, v)'
      BY <1>1 DEF Knows
    <3> QED BY <1>1, <1>3, <3>1, StepKeepsReads
  <2>6. Maps'
    BY <1>2, <1>3, <2>1, <2>3, TwoKinds DEF IInv, Maps, SubKeysAreLimited, Mine, tables
  <2>7. Exact'
    <3> SUFFICES ASSUME NEW v \in Users, v \in current'
                 PROVE  ExactFor(v)'
      BY <2>4 DEF Exact, TypeOK
    <3>1. KeysOf(v)' = KeysOf(v) /\ Good' = Good /\ enabled' = enabled
      BY <1>3 DEF KeysOf, Mine, Good, Active, tables
    <3>2. ExactFor(v)
      BY <2>1 DEF IInv, Exact
    <3>3. CASE v = u
      <4>1. u \in Active /\ userSubTokens[u] \subseteq enabled
        BY <2>1, <2>2, <3>2, <3>3 DEF ExactFor
      <4>2. {u} \cup userSubTokens[u] \subseteq Good
        BY <2>3, <4>1 DEF Good, Mine
      <4> QED BY <2>1, <3>1, <3>2, <3>3, <4>1, <4>2 DEF ExactFor
    <3>4. CASE v # u
      <4>1. ({u} \cup userSubTokens[u]) \cap KeysOf(v) = {}
        BY <1>2, <2>3, <3>4, TwoKinds DEF KeysOf, Mine
      <4> QED BY <2>1, <3>1, <3>2, <4>1 DEF ExactFor
    <3> QED BY <3>3, <3>4
  <2> QED BY <2>4, <2>5, <2>6, <2>7 DEF IInv
<1>5. CASE job[r].active = {}
  <2>1. /\ AuthCache' = AuthCache \ ({u} \cup userSubTokens[u])
        /\ AuthTokenCache' = AuthTokenCache \ userSubTokens[u]
        /\ userSubTokens' = [userSubTokens EXCEPT ![u] = {}]
        /\ current' = IF <<r, u>> \in behind THEN current \ {u} ELSE current \cup {u}
        /\ loggedOut' = loggedOut
    BY <1>5 DEF ApplyRefresh, SubKeysOf
  <2>2. <<r, u>> \notin behind => u \notin Active
    BY <1>2, <1>5 DEF IInv, Reads, Knows, ApplyRefresh
  <2> HIDE DEF u
  <2>3. \A v \in Users : userSubTokens[v] \subseteq AuthTokenCache \cap Mine(v)
    BY DEF IInv, Maps
  <2>4. TypeOK'
    BY <1>1, <1>2, <1>3, <2>1 DEF IInv, TypeOK, tables
  <2>5. Reads' /\ NewHasNone'
    <3>1. \A v \in Users : Knows(r, v)'
      BY <1>1 DEF Knows
    <3> QED BY <1>1, <1>3, <3>1, StepKeepsReads
  <2>6. userSubTokens'[u] = {} /\ \A v \in Users : v # u => userSubTokens'[v] = userSubTokens[v]
    BY <1>2, <2>1 DEF IInv, TypeOK
  <2>7. owner' = owner /\ \A v \in Users : Mine(v)' = Mine(v)
    BY <1>3 DEF tables, Mine
  <2>8. Maps'
    <3>1. \A v \in Users : userSubTokens'[v] \subseteq AuthTokenCache' \cap Mine(v)
      <4> SUFFICES ASSUME NEW v \in Users, v # u
                   PROVE  userSubTokens[v] \subseteq (AuthTokenCache \ userSubTokens[u]) \cap Mine(v)
        BY <2>1, <2>6
      <4> QED BY <1>2, <2>3 DEF Mine
    <3>2. \A k \in AuthTokenCache' : owner[k] \in Users /\ k \in userSubTokens'[owner[k]]
      BY <1>2, <2>1, <2>6 DEF IInv, Maps
    <3>3. SubKeysAreLimited'
      BY <2>1 DEF IInv, Maps, SubKeysAreLimited
    <3> QED BY <2>7, <3>1, <3>2, <3>3 DEF Maps
  <2>9. Exact'
    <3> SUFFICES ASSUME NEW v \in Users, v \in current'
                 PROVE  ExactFor(v)'
      BY <2>4 DEF Exact, TypeOK
    <3>1. KeysOf(v)' = KeysOf(v) /\ Good' = Good /\ enabled' = enabled
      BY <1>3 DEF KeysOf, Mine, Good, Active, tables
    <3>2. CASE v = u
      <4>1. u \notin Active
        BY <2>1, <2>2, <3>2
      <4>2. KeysOf(u) \cap Good = {}
        <5> SUFFICES ASSUME NEW x \in KeysOf(u), x \in Good
                     PROVE  FALSE
          OBVIOUS
        <5>1. enabled \subseteq SubKeys /\ Active \subseteq Users
          BY DEF IInv, TypeOK, Active
        <5>2. CASE x = u
          BY <1>2, <4>1, <5>1, <5>2, AuthAssumption DEF Good
        <5>3. CASE x \in SubKeys /\ owner[x] = u
          BY <4>1, <5>1, <5>3, AuthAssumption DEF Good
        <5> QED BY <5>2, <5>3 DEF KeysOf, Mine
      <4>3. \A k \in Mine(u) \cap AuthCache : k \in userSubTokens[u]
        <5> SUFFICES ASSUME NEW k \in Mine(u), k \in AuthCache
                     PROVE  k \in userSubTokens[u]
          OBVIOUS
        <5>1. k \in AuthTokenCache /\ owner[k] = u
          BY DEF IInv, Maps, SubKeysAreLimited, Mine
        <5> QED BY <5>1 DEF IInv, Maps
      <4>4. KeysOf(u) \cap AuthCache' = {}
        BY <2>1, <4>3 DEF KeysOf
      <4> QED BY <2>6, <3>1, <3>2, <4>2, <4>4 DEF ExactFor
    <3>3. CASE v # u
      <4>1. ExactFor(v)
        BY <2>1, <3>3 DEF IInv, Exact
      <4>2. ({u} \cup userSubTokens[u]) \cap KeysOf(v) = {}
        BY <1>2, <2>3, <3>3, TwoKinds DEF KeysOf, Mine
      <4> QED BY <2>1, <2>6, <3>1, <3>3, <4>1, <4>2 DEF ExactFor
    <3> QED BY <3>2, <3>3
  <2> QED BY <2>4, <2>5, <2>8, <2>9 DEF IInv
<1> QED BY <1>4, <1>5

LEMMA LogoutIInv ==
  ASSUME IInv, NEW u \in Users, AuthLogout(u)
  PROVE  IInv'
<1>1. /\ UNCHANGED <<tables, AuthTokenCache, userSubTokens, job, behind, current>>
      /\ AuthCache' = AuthCache \ {u}
      /\ loggedOut' = loggedOut \cup {u}
  BY DEF AuthLogout
<1>2. TypeOK'
  BY <1>1 DEF IInv, TypeOK, tables
<1>3. Reads' /\ NewHasNone'
  BY <1>1 DEF IInv, Reads, NewHasNone, Shaped, Knows, Mine, Active, tables
<1>4. Maps'
  BY <1>1 DEF IInv, Maps, SubKeysAreLimited, Mine, tables
<1>5. Exact'
  BY <1>1 DEF IInv, Exact, ExactFor, KeysOf, Mine, Good, Active, tables
<1> QED BY <1>2, <1>3, <1>4, <1>5 DEF IInv

LEMMA RestartIInv ==
  ASSUME IInv, NEW r \in Requests, Restart(r)
  PROVE  IInv'
<1> DEFINE h == Held("users", None, FALSE, {}, {})
<1>1. h \in Job /\ h.at = "users" /\ h.ban = FALSE
  BY DEF Held, Job, Stages
<1>2. job' = [q \in Requests |-> IF q = r THEN h ELSE Idle]
  BY DEF Restart
<1> HIDE DEF h
<1>3. \A q \in Requests : job'[q] \in Job /\ job'[q].at \in {"users", "idle"} /\ job'[q].ban = FALSE
  BY <1>1, <1>2, IdleTyped
<1>4. /\ UNCHANGED tables
      /\ AuthCache' = {} /\ AuthTokenCache' = {} /\ userSubTokens' = [u \in Users |-> {}]
      /\ behind' = {} /\ current' = {} /\ loggedOut' = {}
  BY DEF Restart
<1>5. TypeOK'
  BY <1>2, <1>3, <1>4 DEF IInv, TypeOK, tables
<1>6. Reads' /\ NewHasNone'
  BY <1>3, <1>4 DEF IInv, Reads, NewHasNone, Shaped, Knows, Mine, tables
<1>7. Maps' /\ Exact'
  BY <1>4 DEF Maps, SubKeysAreLimited, Exact
<1> QED BY <1>5, <1>6, <1>7 DEF IInv

LEMMA StutterIInv ==
  ASSUME IInv, UNCHANGED vars
  PROVE  IInv'
<1>1. UNCHANGED <<tables, caches, job, behind, current, loggedOut>>
  BY DEF vars
<1>2. TypeOK'
  BY <1>1 DEF IInv, TypeOK, tables, caches
<1>3. Reads' /\ NewHasNone'
  BY <1>1 DEF IInv, Reads, NewHasNone, Shaped, Knows, Mine, Active, tables
<1> QED BY <1>1, <1>2, <1>3, SameMapsKeepAll

-----------------------------------------------------------------------------
(* The theorems.                                                           *)

LEMMA NextIInv == IInv /\ [Next]_vars => IInv'
<1> SUFFICES ASSUME IInv, [Next]_vars
             PROVE  IInv'
  OBVIOUS
<1>1. CASE UNCHANGED vars
  BY <1>1, StutterIInv
<1>2. ASSUME NEW r \in Requests, ChangeUser(r)
      PROVE  IInv'
  BY <1>2, SignupIInv, AutobanIInv, DeleteUserIInv, UpdateUserIInv DEF ChangeUser
<1>3. ASSUME NEW r \in Requests, ChangeToken(r)
      PROVE  IInv'
  BY <1>3, CreateTokenIInv, UpdateTokenIInv, DeleteTokenIInv DEF ChangeToken
<1>4. ASSUME NEW r \in Requests, CacheStep(r)
      PROVE  IInv'
  BY <1>4, OtherSaveIInv, ReadUsersIInv, ReadTokensIInv, AbortIInv, PublishIInv, EvictIInv,
     AddIInv, RefreshIInv, ReadUserIInv, ApplyIInv DEF CacheStep
<1>5. ASSUME NEW r \in Requests, Restart(r)
      PROVE  IInv'
  BY <1>5, RestartIInv
<1>6. ASSUME NEW u \in Users, AuthLogout(u)
      PROVE  IInv'
  BY <1>6, LogoutIInv
<1> QED BY <1>1, <1>2, <1>3, <1>4, <1>5, <1>6 DEF Next

LEMMA Safe == Spec => []IInv
<1>1. Init => IInv
  BY InitIInv
<1>2. IInv /\ [Next]_vars => IInv'
  BY NextIInv
<1> QED BY <1>1, <1>2, PTL DEF Spec

\* Every variable keeps its type.
THEOREM TypeCorrect == Spec => []TypeOK
<1>1. IInv => TypeOK
  BY DEF IInv
<1> QED BY <1>1, Safe, PTL

\* No sub-key is let in without its limit, however synchronisations and
\* refreshes overlap (cache.go, SyncCacheConfig and RefreshUserAuth).
THEOREM SubKeysAreLimitedAlways == Spec => []SubKeysAreLimited
<1>1. IInv => SubKeysAreLimited
  BY DEF IInv, Maps
<1> QED BY <1>1, Safe, PTL

\* An account that was put right from what the tables still say has exactly its
\* good keys let in, but for a main key that was logged out (cache.go).
THEOREM CurrentIsExactAlways == Spec => []CurrentIsExact
<1>1. IInv => CurrentIsExact
  BY DEF IInv, Exact, ExactFor, CurrentIsExact
<1> QED BY <1>1, Safe, PTL
=============================================================================
