--------------------------- MODULE EmailAccounts ---------------------------
(***************************************************************************)
(* Accounts that are entered with an e-mail address and a password.        *)
(*                                                                         *)
(* An account comes to an address, and to a password, by links that are    *)
(* mailed: a link verifies an address, resets a password or sets the first *)
(* one.  Every handler reads the rows it decides on, and writes in a       *)
(* transaction that comes later; requests of the same account, of another  *)
(* account that wants the same address, and of strangers who only know the *)
(* address meet in between.                                                *)
(*                                                                         *)
(* Whoever reads the mail may open its link, at any time or never: the     *)
(* queue of mails and their limits are not in this module, and an address  *)
(* and its reader are one.  Accounts with a linked identity sign in        *)
(* without a password (module OAuthAccounts).                              *)
(***************************************************************************)
EXTENDS Integers

CONSTANTS
  Users,
  Linked,      \* the users whose accounts were opened through a provider
  Emails,
  Tokens,      \* the rows of links that may be created
  Sessions,    \* the sessions that may exist at once
  Requests,    \* the requests that are handled at once
  None

Purposes == {"verify", "reset", "set"}

ASSUME EmailAssumption ==
  /\ Linked \subseteq Users
  /\ None \notin Users \cup Emails \cup Tokens \cup Purposes

Stages == {"idle", "greet", "issue", "use", "revoke", "login", "toggle", "unbind"}

\* A request: how far its handler has got and what it holds of the rows it read.
Job == [at : Stages, user : Users \cup {None}, addr : Emails \cup {None},
        purpose : Purposes \cup {None}, token : Tokens \cup {None}, on : BOOLEAN]
Held(a, u, e, p, t, on) == [at |-> a, user |-> u, addr |-> e, purpose |-> p, token |-> t, on |-> on]
Idle == Held("idle", None, None, None, None, FALSE)

VARIABLES
  account,     \* the users that have a row
  email,
  verified,    \* email_verified_at is set
  password,    \* 0, or which of its passwords the account has now
  loginOn,     \* email_login_enabled
  entered,     \* has had a session, and so knows its API token
  owner, addr, purpose,   \* a link's columns
  state,       \* "none", "live", "expired" or "consumed"
  uses,        \* how often a link took effect
  session,     \* the user of a session, or None
  born,        \* the password its account had when the session was created
  job,
  proven,      \* <<user, address>>: the account has shown that it reads this mail
  unrevoked    \* accounts whose sessions a handler failed to revoke

users == <<account, email, verified, password, loginOn, entered, proven>>
links == <<owner, addr, purpose, state, uses>>
sessions == <<session, born, unrevoked>>
vars == <<users, links, sessions, job>>

\* Accounts of a provider exist; it may have vouched for an address of theirs.
Init ==
  /\ account = Linked
  /\ verified \in {v \in [Users -> BOOLEAN] : \A u \in Users \ Linked : ~v[u]}
  /\ email \in {m \in [Users -> Emails \cup {None}] :
       /\ \A u \in Users : m[u] # None <=> verified[u]
       /\ \A u, v \in Users : u # v /\ m[u] = m[v] => m[u] = None}
  /\ proven = {x \in Users \X Emails : verified[x[1]] /\ email[x[1]] = x[2]}
  /\ password = [u \in Users |-> 0]
  /\ loginOn = [u \in Users |-> FALSE]
  /\ entered = {}
  /\ owner = [t \in Tokens |-> None]
  /\ addr = [t \in Tokens |-> None]
  /\ purpose = [t \in Tokens |-> None]
  /\ state = [t \in Tokens |-> "none"]
  /\ uses = [t \in Tokens |-> 0]
  /\ session = [s \in Sessions |-> None]
  /\ born = [s \in Sessions |-> 0]
  /\ unrevoked = {}
  /\ job = [r \in Requests |-> Idle]

-----------------------------------------------------------------------------
(* Helpers.                                                                *)

\* Another account holds the address.
TakenByOther(u, e) == \E v \in Users : v # u /\ email[v] = e

\* A request has read the rows, and goes on to stage a.
Begin(r, a, u, e, p) ==
  /\ job[r].at = "idle"
  /\ job' = [job EXCEPT ![r] = Held(a, u, e, p, None, FALSE)]
  /\ UNCHANGED <<users, links, sessions>>

Finish(r) == job' = [job EXCEPT ![r] = Idle]

Create(t, u, e, p) ==
  /\ state[t] = "none"
  /\ owner' = [owner EXCEPT ![t] = u]
  /\ addr' = [addr EXCEPT ![t] = e]
  /\ purpose' = [purpose EXCEPT ![t] = p]
  /\ UNCHANGED uses

Pending(u, p) == {t \in Tokens : owner[t] = u /\ purpose[t] = p /\ state[t] = "live"}

NewSession(s, u) ==
  /\ session[s] = None
  /\ session' = [session EXCEPT ![s] = u]
  /\ born' = [born EXCEPT ![s] = password[u]]
  /\ entered' = entered \cup {u}
  /\ UNCHANGED unrevoked

-----------------------------------------------------------------------------
(* Accounts and sessions.                                                  *)

\* A login through the provider.
SignIn(u, s) ==
  /\ u \in Linked
  /\ NewSession(s, u)
  /\ UNCHANGED <<account, email, verified, password, loginOn, proven, links, job>>

\* Under registerMu, which is held until the first link is stored.
EmailSignup(r, u, e) ==
  /\ u \notin account
  /\ \A x \in Requests : job[x].at # "greet"
  /\ \A v \in Users : email[v] # e
  /\ job[r].at = "idle"
  /\ account' = account \cup {u}
  /\ email' = [email EXCEPT ![u] = e]
  /\ password' = [password EXCEPT ![u] = 1]
  /\ loginOn' = [loginOn EXCEPT ![u] = TRUE]
  /\ job' = [job EXCEPT ![r] = Held("greet", u, e, "verify", None, FALSE)]
  /\ UNCHANGED <<verified, entered, proven, links, sessions>>

SendInitialVerifyEmail(r, t) ==
  /\ job[r].at = "greet"
  /\ Create(t, job[r].user, job[r].addr, "verify")
  /\ state' = [state EXCEPT ![t] = "live"]
  /\ Finish(r)
  /\ UNCHANGED <<users, sessions>>

\* The password was compared with the one of the row that was read.
EmailLogin(r, u) ==
  /\ email[u] # None /\ password[u] # 0
  /\ verified[u] /\ loginOn[u]
  /\ Begin(r, "login", u, None, None)

CreateUserSession(r, s) ==
  /\ job[r].at = "login"
  /\ NewSession(s, job[r].user)
  /\ Finish(r)
  /\ UNCHANGED <<account, email, verified, password, loginOn, proven, links>>

\* A logout, or the end of the session's time.
EndSession(s) ==
  /\ session[s] # None
  /\ session' = [session EXCEPT ![s] = None]
  /\ born' = [born EXCEPT ![s] = 0]
  /\ UNCHANGED <<users, links, unrevoked, job>>

PutMyEmailLoginEnabled(r, u, on) ==
  /\ u \in entered
  /\ email[u] # None /\ verified[u] /\ password[u] # 0
  /\ loginOn[u] # on
  /\ job[r].at = "idle"
  /\ job' = [job EXCEPT ![r] = Held("toggle", u, None, None, None, on)]
  /\ UNCHANGED <<users, links, sessions>>

Toggle(r) ==
  /\ job[r].at = "toggle"
  /\ loginOn' = [loginOn EXCEPT ![job[r].user] = job[r].on]
  /\ Finish(r)
  /\ UNCHANGED <<account, email, verified, password, entered, proven, links, sessions>>

UnbindEmail(r, u) ==
  /\ u \in entered
  /\ email[u] # None
  /\ Begin(r, "unbind", u, None, None)

Unbind(r) ==
  LET u == job[r].user IN
  /\ job[r].at = "unbind"
  /\ state' = [t \in Tokens |-> IF owner[t] = u /\ state[t] # "none" THEN "consumed" ELSE state[t]]
  /\ email' = [email EXCEPT ![u] = None]
  /\ verified' = [verified EXCEPT ![u] = FALSE]
  /\ loginOn' = [loginOn EXCEPT ![u] = FALSE]
  /\ Finish(r)
  /\ UNCHANGED <<account, password, entered, proven, owner, addr, purpose, uses, sessions>>

-----------------------------------------------------------------------------
(* Links are asked for.                                                    *)

BindEmail(r, u, e) ==
  /\ u \in entered
  /\ email[u] \in {None, e} /\ ~verified[u]
  /\ ~TakenByOther(u, e)
  /\ Begin(r, "issue", u, e, "verify")

\* For anyone who knows the address.  (The same from inside, ResendVerificationEmail,
\* never runs: no account with a session has an address that is not verified.)
ResendUnverifiedSignupEmail(r, u) ==
  /\ email[u] # None /\ ~verified[u]
  /\ Begin(r, "issue", u, email[u], "verify")

\* mutant: an address that was never verified will do.
ForgotPasswordUnverified(r, u) ==
  /\ email[u] # None /\ password[u] # 0
  /\ Begin(r, "issue", u, email[u], "reset")

\* For anyone who knows the address; the reading is done in a goroutine.
ForgotPassword(r, u) ==
  /\ email[u] # None /\ verified[u] /\ password[u] # 0
  /\ Begin(r, "issue", u, email[u], "reset")

RequestSetPassword(r, u) ==
  /\ u \in entered
  /\ email[u] # None /\ verified[u] /\ password[u] = 0
  /\ Begin(r, "issue", u, email[u], "set")

\* mutant: the links before it stay.
IssueTokenOnly(r, t) ==
  LET j == job[r] IN
  /\ j.at = "issue"
  /\ Create(t, j.user, j.addr, j.purpose)
  /\ state' = [state EXCEPT ![t] = "live"]
  /\ Finish(r)
  /\ UNCHANGED <<users, sessions>>

\* One transaction: the links before it are consumed, and a new one is stored.
IssueToken(r, t) ==
  LET j == job[r] IN
  /\ j.at = "issue"
  /\ Create(t, j.user, j.addr, j.purpose)
  /\ state' = [x \in Tokens |->
       IF x = t THEN "live" ELSE IF x \in Pending(j.user, j.purpose) THEN "consumed" ELSE state[x]]
  /\ Finish(r)
  /\ UNCHANGED <<users, sessions>>

-----------------------------------------------------------------------------
(* Links are used.                                                         *)

\* mutant: whoever is logged in may open it.
OpenLinkOfOthers(r, t) ==
  /\ job[r].at = "idle"
  /\ state[t] = "live"
  /\ \E u \in entered :
       job' = [job EXCEPT ![r] =
         Held("use", u, addr[t], purpose[t], t, FALSE)]
  /\ UNCHANGED <<users, links, sessions>>

\* The link is read; one that verifies must be its owner's, who is logged in.
OpenLink(r, t) ==
  /\ job[r].at = "idle"
  /\ state[t] = "live"
  /\ purpose[t] = "verify" => owner[t] \in entered
  /\ job' = [job EXCEPT ![r] = Held("use", owner[t], addr[t], purpose[t], t, FALSE)]
  /\ UNCHANGED <<users, links, sessions>>

\* mutant: the row is updated whether or not it was consumed since it was read.
ConsumeAnyway(t) ==
  /\ state' = [state EXCEPT ![t] = "consumed"]
  /\ uses' = [uses EXCEPT ![t] = @ + 1]
  /\ UNCHANGED <<owner, addr, purpose>>

\* WHERE consumed_at IS NULL, and one row must be affected.
Consume(t) ==
  /\ state[t] \in {"live", "expired"}
  /\ state' = [state EXCEPT ![t] = "consumed"]
  /\ uses' = [uses EXCEPT ![t] = @ + 1]
  /\ UNCHANGED <<owner, addr, purpose>>

VerifyEmail(r) ==
  LET j == job[r] IN
  /\ j.at = "use" /\ j.purpose = "verify"
  /\ ~TakenByOther(j.user, j.addr)
  /\ Consume(j.token)
  /\ email' = [email EXCEPT ![j.user] = j.addr]
  /\ verified' = [verified EXCEPT ![j.user] = TRUE]
  /\ proven' = proven \cup {<<owner[j.token], addr[j.token]>>}
  /\ Finish(r)
  /\ UNCHANGED <<account, password, loginOn, entered, sessions>>

\* mutant: the handler ends without revoking.
NewPasswordOnly(r) ==
  /\ Consume(job[r].token)
  /\ password' = [password EXCEPT ![job[r].user] = @ + 1]
  /\ Finish(r)

NewPassword(r) ==
  LET u == job[r].user IN
  /\ Consume(job[r].token)
  /\ password' = [password EXCEPT ![u] = @ + 1]
  /\ job' = [job EXCEPT ![r] = Held("revoke", u, None, None, None, FALSE)]

ResetPassword(r) ==
  /\ job[r].at = "use" /\ job[r].purpose = "reset"
  /\ NewPassword(r)
  /\ UNCHANGED <<account, email, verified, loginOn, entered, proven, sessions>>

\* Only while the account has no password, which is read again.
SetPassword(r) ==
  /\ job[r].at = "use" /\ job[r].purpose = "set"
  /\ password[job[r].user] = 0
  /\ NewPassword(r)
  /\ loginOn' = [loginOn EXCEPT ![job[r].user] = TRUE]
  /\ UNCHANGED <<account, email, verified, entered, proven, sessions>>

RevokeSessionsForUser(r) ==
  LET u == job[r].user
      gone == {s \in Sessions : session[s] = u} IN
  /\ job[r].at = "revoke"
  /\ session' = [s \in Sessions |-> IF s \in gone THEN None ELSE session[s]]
  /\ born' = [s \in Sessions |-> IF s \in gone THEN 0 ELSE born[s]]
  /\ unrevoked' = unrevoked \ {u}
  /\ Finish(r)
  /\ UNCHANGED <<users, links>>

-----------------------------------------------------------------------------
(* Trouble.                                                                *)

Expire(t) ==
  /\ state[t] = "live"
  /\ state' = [state EXCEPT ![t] = "expired"]
  /\ UNCHANGED <<users, owner, addr, purpose, uses, sessions, job>>

\* The handler stops: refused, by an error of the database, or with the process.
Fail(r) ==
  /\ job[r].at # "idle"
  /\ unrevoked' = IF job[r].at = "revoke" THEN unrevoked \cup {job[r].user} ELSE unrevoked
  /\ Finish(r)
  /\ UNCHANGED <<users, links, session, born>>

-----------------------------------------------------------------------------
AccountStep ==
  \/ \E u \in Users, s \in Sessions : SignIn(u, s)
  \/ \E s \in Sessions : EndSession(s)
  \/ \E r \in Requests, u \in Users, e \in Emails : EmailSignup(r, u, e)
  \/ \E r \in Requests, u \in Users :
       EmailLogin(r, u) \/ UnbindEmail(r, u) \/ \E on \in BOOLEAN : PutMyEmailLoginEnabled(r, u, on)
  \/ \E r \in Requests, s \in Sessions : CreateUserSession(r, s)
  \/ \E r \in Requests : Toggle(r) \/ Unbind(r)

AskStep ==
  \/ \E r \in Requests, u \in Users, e \in Emails : BindEmail(r, u, e)
  \/ \E r \in Requests, u \in Users :
       ResendUnverifiedSignupEmail(r, u) \/ ForgotPassword(r, u) \/ RequestSetPassword(r, u)
  \/ \E r \in Requests, t \in Tokens : SendInitialVerifyEmail(r, t) \/ IssueToken(r, t)

UseStep ==
  \/ \E r \in Requests, t \in Tokens : OpenLink(r, t)
  \/ \E r \in Requests :
       VerifyEmail(r) \/ ResetPassword(r) \/ SetPassword(r) \/ RevokeSessionsForUser(r)

Next ==
  \/ AccountStep
  \/ AskStep
  \/ UseStep
  \/ \E t \in Tokens : Expire(t)
  \/ \E r \in Requests : Fail(r)

Spec == Init /\ [][Next]_vars

-----------------------------------------------------------------------------
(* Properties.                                                             *)

\* Every variable has its type.
TypeOK ==
  /\ account \subseteq Users
  /\ email \in [Users -> Emails \cup {None}]
  /\ verified \in [Users -> BOOLEAN]
  /\ password \in [Users -> Nat]
  /\ loginOn \in [Users -> BOOLEAN]
  /\ entered \subseteq Users
  /\ owner \in [Tokens -> Users \cup {None}]
  /\ addr \in [Tokens -> Emails \cup {None}]
  /\ purpose \in [Tokens -> Purposes \cup {None}]
  /\ state \in [Tokens -> {"none", "live", "expired", "consumed"}]
  /\ uses \in [Tokens -> Nat]
  /\ session \in [Sessions -> Users \cup {None}]
  /\ born \in [Sessions -> Nat]
  /\ job \in [Requests -> Job]
  /\ proven \subseteq Users \X Emails
  /\ unrevoked \subseteq Users

\* However many requests open a link at once, or while it is being replaced, it
\* takes effect at most once.
TokenUsedOnce == \A t \in Tokens : uses[t] <= 1

\* An account has at most one link that changes its password and still works:
\* asking again, and asking twice at once, ends the ones before.
OnePasswordLink ==
  \A t, x \in Tokens :
    /\ state[t] = "live" /\ state[x] = "live"
    /\ owner[t] = owner[x] /\ purpose[t] = purpose[x] /\ purpose[t] # "verify"
    => t = x

\* An address counts as verified only for an account that opened a link mailed to
\* that very address, or whose provider vouched for it.
VerifiedIsProven ==
  \A u \in Users : verified[u] => email[u] # None /\ <<u, email[u]>> \in proven

\* A link that changes a password is mailed only to an address that its account has
\* proven: an address that somebody else signed up with gives nobody the account.
PasswordLinksGoToProven ==
  \A t \in Tokens : purpose[t] \in {"reset", "set"} => <<owner[t], addr[t]>> \in proven

\* Two accounts that ask for the same address do not both get it.
OneAccountPerEmail ==
  \A u, v \in Users : u # v /\ email[u] # None => email[u] # email[v]

\* A session older than the account's password is on its way out: the handler that
\* changed the password has yet to revoke, or failed to.
StaleSessionsEnd ==
  \A s \in Sessions :
    session[s] # None /\ born[s] # password[session[s]] =>
      \/ session[s] \in unrevoked
      \/ \E r \in Requests : job[r].at = "revoke" /\ job[r].user = session[s]

\* A link to set a first password never replaces a password that was set meanwhile.
SetNeverOverwrites ==
  [][\A t \in Tokens : purpose[t] = "set" /\ uses'[t] # uses[t] => password[owner[t]] = 0]_vars
=============================================================================
