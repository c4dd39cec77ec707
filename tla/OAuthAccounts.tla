--------------------------- MODULE OAuthAccounts ---------------------------
(***************************************************************************)
(* Accounts that are opened over an identity of a provider.                *)
(*                                                                         *)
(* The callback of a provider finds the account that owns the identity, or *)
(* links the identity to the account that asked for it, or hands out a     *)
(* ticket.  With the ticket, and a phone number where the risk rules ask   *)
(* for one, the visitor opens an account.  Tickets may be replayed, limits *)
(* change and several requests are under way; what opens accounts goes     *)
(* through one lock, links and unlinks do not.                             *)
(*                                                                         *)
(* Left out is what only refuses: an address that is taken, a phone code   *)
(* that is wrong, an account that is banned, the one-time state a callback *)
(* brings.  Addresses and passwords are in module EmailAccounts: here an   *)
(* account can be entered with them or it cannot.                          *)
(***************************************************************************)
EXTENDS Integers, FiniteSets

CONSTANTS
  Users,       \* ids of accounts, given out once
  Externals,   \* accounts at the providers
  Providers,
  ProviderOf,  \* the provider of an external account
  Phones, Tickets,
  Strings,     \* what visitors present as tmp_token
  TicketOf,    \* the ticket each decrypts to: base64 reads several alike
  Requests,    \* the requests that are handled at once
  MaxCap,      \* bound: the highest limit of accounts an admin sets
  None

Kinds == {"sms", "clean"}
Issued == [ext : Externals, kind : Kinds, fresh : BOOLEAN]

ASSUME OAuthAssumption ==
  /\ IsFiniteSet(Users)
  /\ ProviderOf \in [Externals -> Providers]
  /\ TicketOf \in [Strings -> Tickets]
  /\ MaxCap \in Nat
  /\ None \notin Users \cup Externals \cup Providers \cup Phones \cup Strings \cup Requests \cup Issued

Registering == {"lock", "checks", "cap", "create"}
Stages == {"idle", "mark", "insert", "unlink"} \cup Registering

\* A request: how far its handler has got, and what it holds.
Job == [at : Stages, token : Strings \cup {None}, ext : Externals \cup {None},
        phone : Phones \cup {None}, cap : 0..MaxCap, user : Users \cup {None},
        prov : Providers \cup {None}, copy : BOOLEAN]
Held(a, s, x, p, n, u, q, c) ==
  [at |-> a, token |-> s, ext |-> x, phone |-> p, cap |-> n, user |-> u, prov |-> q, copy |-> c]
Idle == Held("idle", None, None, None, 0, None, None, FALSE)
Registration(a, s, x, p) == Held(a, s, x, p, 0, None, None, FALSE)
Linking(u, x) == Held("insert", None, x, None, 0, u, None, FALSE)
Unlinking(u, p, c) == Held("unlink", None, None, None, 0, u, p, c)

VARIABLES
  state,       \* of an account: "free", "open" or "deleted"
  phone,
  mailLogin,   \* accounts with a verified address and a password
  owner,       \* the account of an external account's active identity row
  ticket,      \* a ticket that was issued, or None
  consumed,    \* tmpTokenConsumedStore: the strings that were used; in memory
  cap,         \* the limit of accounts, 0: none
  registerMu,
  job,
  origin,      \* the external account an account was opened with, until it unlinks it
  mailed,      \* accounts that had a password and an address
  opened       \* <<string, account>> since the process started

accounts == <<state, phone, mailLogin, origin, mailed>>
tickets == <<ticket, consumed, opened>>
vars == <<accounts, owner, tickets, cap, registerMu, job>>

Init ==
  /\ state = [u \in Users |-> "free"]
  /\ phone = [u \in Users |-> None]
  /\ mailLogin = {}
  /\ owner = [x \in Externals |-> None]
  /\ ticket = [t \in Tickets |-> None]
  /\ consumed = {} /\ cap = 0
  /\ registerMu = None
  /\ job = [r \in Requests |-> Idle]
  /\ origin = [u \in Users |-> None]
  /\ mailed = {} /\ opened = {}

-----------------------------------------------------------------------------
(* Helpers.                                                                *)

Exists(u) == state[u] = "open"
Counted == {u \in Users : Exists(u)}

\* lookupActiveUserByOAuthIdentity: a row of a deleted user counts as none.
Found(x) == owner[x] # None /\ Exists(owner[x])

HasIdentity(u, p) == \E x \in Externals : owner[x] = u /\ ProviderOf[x] = p
CapReached == cap > 0 /\ Cardinality(Counted) >= cap
\* isPlatformUserCapReached: a limit that cannot be read or decrypted is none.
HasRoom(readable) == readable => ~CapReached

Goes(r, j) == job' = [job EXCEPT ![r] = j]
At(r, a, b) == job[r].at = a /\ Goes(r, [job[r] EXCEPT !.at = b])

\* mutant: the answer of the store is not looked at
MarkAnyway(s) == consumed' = consumed \cup {s}
\* A string works once, for whoever marks it first; the key is its hash, not what
\* it decrypts to.
MarkTmpTokenConsumed(s) == s \notin consumed /\ consumed' = consumed \cup {s}

-----------------------------------------------------------------------------
(* The callback without a link hands out a ticket.                         *)

OAuthCallback(t, x, kind, readable) ==
  /\ ticket[t] = None
  /\ ~Found(x) /\ HasRoom(readable)
  /\ ticket' = [ticket EXCEPT ![t] = [ext |-> x, kind |-> kind, fresh |-> TRUE]]
  /\ UNCHANGED <<accounts, owner, consumed, opened, cap, registerMu, job>>

Read(s) == ticket[TicketOf[s]]
Usable(s, kind) == Read(s) # None /\ Read(s).kind = kind /\ Read(s).fresh

\* tmpTokenTTL is over
Expire(t) ==
  /\ ticket[t] # None /\ ticket[t].fresh
  /\ ticket' = [ticket EXCEPT ![t].fresh = FALSE]
  /\ UNCHANGED <<accounts, owner, consumed, opened, cap, registerMu, job>>

\* The janitor forgets a string after the time a ticket is good for; a request is
\* not between reading and marking it for as long.
Forget(s) ==
  /\ s \in consumed /\ ~Read(s).fresh
  /\ \A r \in Requests : job[r].at = "mark" => job[r].token # s
  /\ consumed' = consumed \ {s}
  /\ UNCHANGED <<accounts, owner, ticket, opened, cap, registerMu, job>>

-----------------------------------------------------------------------------
(* An account is opened.                                                   *)

CompleteProfile(r, s) ==
  /\ job[r].at = "idle" /\ Usable(s, "clean")
  /\ MarkTmpTokenConsumed(s)
  /\ Goes(r, Registration("lock", s, Read(s).ext, None))
  /\ UNCHANGED <<accounts, owner, ticket, opened, cap, registerMu>>

\* The code of the phone is right, verifySMSCode has taken it from its store.
CompleteRisk(r, s, p) ==
  /\ job[r].at = "idle" /\ Usable(s, "sms")
  /\ s \notin consumed
  /\ Goes(r, Registration("mark", s, Read(s).ext, p))
  /\ UNCHANGED <<accounts, owner, tickets, cap, registerMu>>

MarkTicket(r) ==
  /\ At(r, "mark", "lock")
  /\ MarkTmpTokenConsumed(job[r].token)
  /\ UNCHANGED <<accounts, owner, ticket, opened, cap, registerMu>>

EmailSignup(r) ==
  /\ job[r].at = "idle"
  /\ Goes(r, Registration("lock", None, None, None))
  /\ UNCHANGED <<accounts, owner, tickets, cap, registerMu>>

MayLock == registerMu = None

Lock(r) ==
  /\ MayLock
  /\ At(r, "lock", IF job[r].ext # None THEN "checks" ELSE "cap")
  /\ registerMu' = r
  /\ UNCHANGED <<accounts, owner, tickets, cap>>

\* Neither the phone number nor the identity belongs to an account.
CheckFree(r) ==
  /\ At(r, "checks", "cap")
  /\ job[r].phone # None => \A u \in Users : Exists(u) => phone[u] # job[r].phone
  /\ ~Found(job[r].ext)
  /\ UNCHANGED <<accounts, owner, tickets, cap, registerMu>>

CheckCap(r, readable) ==
  /\ job[r].at = "cap" /\ HasRoom(readable)
  /\ Goes(r, [job[r] EXCEPT !.at = "create", !.cap = IF readable THEN cap ELSE 0])
  /\ UNCHANGED <<accounts, owner, tickets, cap, registerMu>>

\* mutant: the row is written after the transaction, and the failure is only logged
LinkLost(x, u) == owner
\* The row of an identity is part of the transaction.
LinkOAuthIdentityTx(x, u) == IF x # None THEN [owner EXCEPT ![x] = u] ELSE owner

\* The unique indexes: rows of deleted users count too.
Unique(p, x) ==
  /\ p # None => \A u \in Users : phone[u] # p
  /\ x # None => owner[x] = None

\* createUserWithSignupBonus: user and identity in one transaction.
CreateUser(r, u) ==
  LET j == job[r] IN
  /\ j.at = "create" /\ state[u] = "free"
  /\ Unique(j.phone, j.ext)
  /\ state' = [state EXCEPT ![u] = "open"]
  /\ phone' = [phone EXCEPT ![u] = j.phone]
  /\ origin' = [origin EXCEPT ![u] = j.ext]
  /\ mailed' = IF j.ext = None THEN mailed \cup {u} ELSE mailed
  /\ owner' = LinkOAuthIdentityTx(j.ext, u)
  /\ opened' = IF j.token # None THEN opened \cup {<<j.token, u>>} ELSE opened
  /\ registerMu' = None
  /\ Goes(r, Idle)
  /\ UNCHANGED <<mailLogin, ticket, consumed, cap>>

\* A check says no, a row is not unique, or the database fails.
Refuse(r) ==
  /\ job[r].at # "idle"
  /\ registerMu' = IF registerMu = r THEN None ELSE registerMu
  /\ Goes(r, Idle)
  /\ UNCHANGED <<accounts, owner, tickets, cap>>

-----------------------------------------------------------------------------
(* Identities are linked and unlinked.                                     *)

\* A callback whose state was asked for by u, some time ago; the insert does not
\* repeat its three reads.
LinkCallback(r, u, x) ==
  /\ job[r].at = "idle"
  /\ Exists(u)
  /\ ~HasIdentity(u, ProviderOf[x])
  /\ Found(x) => owner[x] = u
  /\ Goes(r, Linking(u, x))
  /\ UNCHANGED <<accounts, owner, tickets, cap, registerMu>>

LinkIdentity(r) ==
  /\ job[r].at = "insert"
  /\ Unique(None, job[r].ext)
  /\ owner' = LinkOAuthIdentityTx(job[r].ext, job[r].user)
  /\ Goes(r, Idle)
  /\ UNCHANGED <<accounts, tickets, cap, registerMu>>

\* mutant: the other identities are looked for before the transaction
CopyHasLoginEarly(u, p) ==
  phone[u] # None \/ u \in mailLogin \/ \E q \in Providers \ {p} : HasIdentity(u, q)
\* What the copy of the user that the session brought says.
CopyHasLogin(u, p) == phone[u] # None \/ u \in mailLogin

UnlinkMyOAuthIdentity(r, u, p) ==
  /\ job[r].at = "idle" /\ state[u] = "open"
  /\ \E c \in BOOLEAN : (c <=> CopyHasLogin(u, p)) /\ Goes(r, Unlinking(u, p, c))
  /\ UNCHANGED <<accounts, owner, tickets, cap, registerMu>>

\* The row and the identities of other providers are read in the transaction.
Unlink(r, x) ==
  LET j == job[r] IN
  /\ j.at = "unlink"
  /\ owner[x] = j.user /\ ProviderOf[x] = j.prov
  /\ j.copy \/ \E q \in Providers \ {j.prov} : HasIdentity(j.user, q)
  /\ owner' = [owner EXCEPT ![x] = None]
  /\ origin' = IF origin[j.user] = x THEN [origin EXCEPT ![j.user] = None] ELSE origin
  /\ Goes(r, Idle)
  /\ UNCHANGED <<state, phone, mailLogin, mailed, tickets, cap, registerMu>>

-----------------------------------------------------------------------------
(* Around them.                                                            *)

\* Module EmailAccounts: an address is verified and a password set, or the address unbound.
EmailStep(u) ==
  /\ Exists(u)
  /\ mailLogin' = IF u \in mailLogin THEN mailLogin \ {u} ELSE mailLogin \cup {u}
  /\ mailed' = mailed \cup mailLogin'
  /\ UNCHANGED <<state, phone, origin, owner, tickets, cap, registerMu, job>>

\* The row stays, marked as deleted.
DeleteUser(u) ==
  /\ Exists(u)
  /\ state' = [state EXCEPT ![u] = "deleted"]
  /\ UNCHANGED <<phone, mailLogin, origin, mailed, owner, tickets, cap, registerMu, job>>

\* The row goes; the identities that point to it stay.
AdminPurgeUser(u) ==
  /\ state[u] # "free"
  /\ state' = [state EXCEPT ![u] = "deleted"]
  /\ phone' = [phone EXCEPT ![u] = None]
  /\ mailLogin' = mailLogin \ {u}
  /\ UNCHANGED <<origin, mailed, owner, tickets, cap, registerMu, job>>

SetCap(n) ==
  /\ n # cap
  /\ cap' = n
  /\ UNCHANGED <<accounts, owner, tickets, registerMu, job>>

\* What was in memory is gone, tickets outlive it.
Restart ==
  /\ consumed' = {} /\ opened' = {}
  /\ registerMu' = None
  /\ job' = [r \in Requests |-> Idle]
  /\ UNCHANGED <<accounts, owner, ticket, cap>>

-----------------------------------------------------------------------------
Register(r) ==
  \/ \E s \in Strings : CompleteProfile(r, s) \/ \E p \in Phones : CompleteRisk(r, s, p)
  \/ MarkTicket(r) \/ EmailSignup(r)
  \/ Lock(r) \/ CheckFree(r)
  \/ \E readable \in BOOLEAN : CheckCap(r, readable)
  \/ \E u \in Users : CreateUser(r, u)
  \/ Refuse(r)

LinkOrUnlink(r) ==
  \/ \E u \in Users, x \in Externals : LinkCallback(r, u, x)
  \/ LinkIdentity(r)
  \/ \E u \in Users, p \in Providers : UnlinkMyOAuthIdentity(r, u, p)
  \/ \E x \in Externals : Unlink(r, x)

Environment ==
  \/ \E t \in Tickets, x \in Externals, k \in Kinds, readable \in BOOLEAN :
        OAuthCallback(t, x, k, readable)
  \/ \E t \in Tickets : Expire(t)
  \/ \E s \in Strings : Forget(s)
  \/ \E u \in Users : EmailStep(u) \/ DeleteUser(u) \/ AdminPurgeUser(u)
  \/ \E n \in 0..MaxCap : SetCap(n)
  \/ Restart

Next == Environment \/ \E r \in Requests : Register(r) \/ LinkOrUnlink(r)

Spec == Init /\ [][Next]_vars

-----------------------------------------------------------------------------
(* Properties.                                                             *)

TypeOK ==
  /\ state \in [Users -> {"free", "open", "deleted"}]
  /\ phone \in [Users -> Phones \cup {None}]
  /\ mailLogin \subseteq Users /\ mailed \subseteq Users
  /\ owner \in [Externals -> Users \cup {None}]
  /\ ticket \in [Tickets -> {None} \cup Issued]
  /\ consumed \subseteq Strings
  /\ cap \in 0..MaxCap
  /\ registerMu \in Requests \cup {None}
  /\ job \in [Requests -> Job]
  /\ origin \in [Users -> Externals \cup {None}]
  /\ opened \subseteq Strings \X Users

\* A string that is presented opens one account (oauth.go, markTmpTokenConsumed),
\* although its ticket stays valid and the identity may have been unlinked from the
\* first, and whichever requests present it at once: until the process restarts.
\* Of a ticket the code promises less: it may be presented as another string.
StringOpensOnce == \A a, b \in opened : a[1] = b[1] => a = b

\* An account that was opened over an identity owns it until it unlinks it
\* (oauth.go, createUserWithSignupBonus): whoever signs in over the identity
\* again comes to this account and never opens a second.
RegisteredOwns ==
  \A u \in Users : origin[u] # None => owner[origin[u]] = u

\* An account that was opened over a provider keeps a way to sign in, whichever
\* of its identities are linked and unlinked at once (user_oauth_identities.go,
\* UnlinkMyOAuthIdentity); accounts that once had a password to log in with may
\* unbind its address.
LoginIsKept ==
  \A u \in Users : Exists(u) /\ u \notin mailed =>
     phone[u] # None \/ \E x \in Externals : owner[x] = u

\* The limit that was read when an account was let in, if it could be read, still
\* holds when its row is written (oauth.go, registerMu and rejectIfUserCapReached):
\* two requests never take the last place.
CapKept ==
  [][\A r \in Requests, u \in Users : CreateUser(r, u) =>
       job[r].cap = 0 \/ Cardinality(Counted) < job[r].cap]_vars
=============================================================================
