------------------------ MODULE EmailAccountsProofs ------------------------
(***************************************************************************)
(* The invariants of EmailAccounts, for any accounts, addresses, links,    *)
(* sessions and requests.                                                  *)
(*                                                                         *)
(* Shape says what the rows and the requests in hand know of each other;   *)
(* with it the properties are inductive together.                          *)
(***************************************************************************)
EXTENDS EmailAccounts, TLAPS

Steps ==
  \/ \E u \in Users, s \in Sessions : SignIn(u, s)
  \/ \E s \in Sessions : EndSession(s)
  \/ \E r \in Requests, u \in Users, e \in Emails : EmailSignup(r, u, e)
  \/ \E r \in Requests, u \in Users : EmailLogin(r, u)
  \/ \E r \in Requests, u \in Users, on \in BOOLEAN : PutMyEmailLoginEnabled(r, u, on)
  \/ \E r \in Requests, u \in Users : UnbindEmail(r, u)
  \/ \E r \in Requests, s \in Sessions : CreateUserSession(r, s)
  \/ \E r \in Requests : Toggle(r)
  \/ \E r \in Requests : Unbind(r)
  \/ \E r \in Requests, u \in Users, e \in Emails : BindEmail(r, u, e)
  \/ \E r \in Requests, u \in Users : ResendUnverifiedSignupEmail(r, u)
  \/ \E r \in Requests, u \in Users : ForgotPassword(r, u)
  \/ \E r \in Requests, u \in Users : RequestSetPassword(r, u)
  \/ \E r \in Requests, t \in Tokens : SendInitialVerifyEmail(r, t)
  \/ \E r \in Requests, t \in Tokens : IssueToken(r, t)
  \/ \E r \in Requests, t \in Tokens : OpenLink(r, t)
  \/ \E r \in Requests : VerifyEmail(r)
  \/ \E r \in Requests : ResetPassword(r)
  \/ \E r \in Requests : SetPassword(r)
  \/ \E r \in Requests : RevokeSessionsForUser(r)
  \/ \E t \in Tokens : Expire(t)
  \/ \E r \in Requests : Fail(r)

LEMMA NextIsSteps == Next => Steps
BY DEF Next, AccountStep, AskStep, UseStep, Steps

\* Rows know of each other: only accounts have addresses, sessions and links.
Known ==
  /\ \A u \in Users : verified[u] \/ email[u] # None => u \in account
  /\ entered \subseteq account
  /\ Linked \subseteq account
  /\ \A s \in Sessions : session[s] # None => session[s] \in account
  /\ \A r \in Requests : job[r].at # "idle" => job[r].user \in account
  /\ \A t \in Tokens : state[t] # "none" => owner[t] \in account

\* Links are complete, and a link that never worked is unused.
LinksComplete ==
  \A t \in Tokens :
    /\ state[t] # "none" => owner[t] \in Users /\ addr[t] \in Emails /\ purpose[t] \in Purposes
    /\ state[t] = "none" => purpose[t] = None
    /\ state[t] # "consumed" => uses[t] = 0

\* A request holds what the links say, and what has been proven.
JobHolds(r) ==
  /\ job[r].at \in {"issue", "greet"} => job[r].addr \in Emails /\ job[r].purpose \in Purposes
  /\ job[r].at = "issue" /\ job[r].purpose \in {"reset", "set"} => <<job[r].user, job[r].addr>> \in proven
  /\ job[r].at = "use" =>
       /\ job[r].token \in Tokens
       /\ state[job[r].token] # "none"
       /\ owner[job[r].token] = job[r].user
       /\ addr[job[r].token] = job[r].addr
       /\ purpose[job[r].token] = job[r].purpose

JobsHold == \A r \in Requests : JobHolds(r)

Shape == TypeOK /\ Known /\ LinksComplete /\ JobsHold /\ VerifiedIsProven

-----------------------------------------------------------------------------
(* Types.                                                                  *)

LEMMA IdleTyped == Idle \in Job /\ Idle.at = "idle"
BY DEF Idle, Held, Job, Stages

LEMMA InitShape == Init => Shape
<1> SUFFICES ASSUME Init PROVE Shape
  OBVIOUS
<1> USE EmailAssumption, IdleTyped
<1>1. TypeOK
  BY DEF Init, TypeOK
<1>2. Known
  BY DEF Init, Known
<1>3. LinksComplete
  BY DEF Init, LinksComplete
<1>4. JobsHold
  BY DEF Init, JobsHold, JobHolds
<1>5. VerifiedIsProven
  BY DEF Init, VerifiedIsProven
<1> QED BY <1>1, <1>2, <1>3, <1>4, <1>5 DEF Shape

LEMMA SignInShape ==
  ASSUME Shape, NEW u \in Users, NEW s \in Sessions, SignIn(u, s)
  PROVE  Shape'
<1> USE EmailAssumption, IdleTyped
<1>1. TypeOK /\ Known /\ LinksComplete /\ JobsHold /\ VerifiedIsProven
  BY DEF Shape
<1>4. TypeOK'
  <2>1. session' \in [Sessions -> Users \cup {None}]
    BY <1>1 DEF TypeOK, Known, JobsHold, JobHolds, SignIn, NewSession, users, links, sessions, Job, Purposes
  <2>2. born' \in [Sessions -> Nat]
    BY <1>1 DEF TypeOK, Known, JobsHold, JobHolds, SignIn, NewSession, users, links, sessions, Job, Purposes
  <2>3. entered' \subseteq Users
    BY <1>1 DEF TypeOK, Known, JobsHold, JobHolds, SignIn, NewSession, users, links, sessions, Job, Purposes
  <2> QED BY <1>1, <2>1, <2>2, <2>3 DEF TypeOK, SignIn, NewSession, users, links, sessions
<1>5. Known'
  BY <1>1 DEF Known, SignIn, NewSession, users, links, sessions, TypeOK
<1>6. LinksComplete'
  BY <1>1 DEF LinksComplete, JobsHold, JobHolds, SignIn, NewSession, users, links, sessions, TypeOK
<1>7. JobsHold'
  BY <1>1 DEF JobsHold, JobHolds, SignIn, NewSession, users, links, sessions, TypeOK
<1>8. VerifiedIsProven'
  BY <1>1 DEF VerifiedIsProven, Known, LinksComplete, JobsHold, JobHolds, SignIn, NewSession, users, links, sessions, TypeOK
<1> QED BY <1>4, <1>5, <1>6, <1>7, <1>8 DEF Shape

LEMMA EndSessionShape ==
  ASSUME Shape, NEW s \in Sessions, EndSession(s)
  PROVE  Shape'
<1> USE EmailAssumption, IdleTyped
<1>1. TypeOK /\ Known /\ LinksComplete /\ JobsHold /\ VerifiedIsProven
  BY DEF Shape
<1>4. TypeOK'
  <2>1. session' \in [Sessions -> Users \cup {None}]
    BY <1>1 DEF TypeOK, Known, JobsHold, JobHolds, EndSession, users, links, sessions, Job, Purposes
  <2>2. born' \in [Sessions -> Nat]
    BY <1>1 DEF TypeOK, Known, JobsHold, JobHolds, EndSession, users, links, sessions, Job, Purposes
  <2> QED BY <1>1, <2>1, <2>2 DEF TypeOK, EndSession, users, links, sessions
<1>5. Known'
  BY <1>1 DEF Known, EndSession, users, links, sessions, TypeOK
<1>6. LinksComplete'
  BY <1>1 DEF LinksComplete, JobsHold, JobHolds, EndSession, users, links, sessions, TypeOK
<1>7. JobsHold'
  BY <1>1 DEF JobsHold, JobHolds, EndSession, users, links, sessions, TypeOK
<1>8. VerifiedIsProven'
  BY <1>1 DEF VerifiedIsProven, Known, LinksComplete, JobsHold, JobHolds, EndSession, users, links, sessions, TypeOK
<1> QED BY <1>4, <1>5, <1>6, <1>7, <1>8 DEF Shape

LEMMA EmailSignupShape ==
  ASSUME Shape, NEW r \in Requests, NEW u \in Users, NEW e \in Emails, EmailSignup(r, u, e)
  PROVE  Shape'
<1> USE EmailAssumption, IdleTyped
<1>1. TypeOK /\ Known /\ LinksComplete /\ JobsHold /\ VerifiedIsProven
  BY DEF Shape
<1> DEFINE h == Held("greet", u, e, "verify", None, FALSE)
<1>2. /\ h \in Job
      /\ h.at = "greet"
      /\ h.user = u
      /\ h.addr = e
      /\ h.purpose = "verify"
      /\ h.token = None
  <2>1. job[r] \in Job
    BY <1>1 DEF TypeOK
  <2>2. "greet" \in Stages
    BY <1>1, <2>1 DEF EmailSignup, users, links, sessions, TypeOK, Known, LinksComplete, Stages, Purposes, Job
  <2>3. u \in Users \cup {None}
    BY <1>1, <2>1 DEF EmailSignup, users, links, sessions, TypeOK, Known, LinksComplete, Stages, Purposes, Job
  <2>4. e \in Emails \cup {None}
    BY <1>1, <2>1 DEF EmailSignup, users, links, sessions, TypeOK, Known, LinksComplete, Stages, Purposes, Job
  <2>5. "verify" \in Purposes \cup {None}
    BY <1>1, <2>1 DEF EmailSignup, users, links, sessions, TypeOK, Known, LinksComplete, Stages, Purposes, Job
  <2>6. None \in Tokens \cup {None}
    BY <1>1, <2>1 DEF EmailSignup, users, links, sessions, TypeOK, Known, LinksComplete, Stages, Purposes, Job
  <2>7. FALSE \in BOOLEAN
    BY <1>1, <2>1 DEF EmailSignup, users, links, sessions, TypeOK, Known, LinksComplete, Stages, Purposes, Job
  <2> QED BY <2>2, <2>3, <2>4, <2>5, <2>6, <2>7 DEF Held, Job
<1>3. job' \in [Requests -> Job] /\ job'[r] = h /\ (\A x \in Requests : x # r => job'[x] = job[x])
  <2>1. job' = [job EXCEPT ![r] = h]
    BY DEF EmailSignup, users, links, sessions
  <2> HIDE DEF h
  <2> QED BY <1>1, <1>2, <2>1 DEF TypeOK
<1> HIDE DEF h
<1>4. TypeOK'
  <2>0. job[r] \in Job
    BY <1>1 DEF TypeOK
  <2>1. account' \subseteq Users
    BY <1>1, <2>0 DEF TypeOK, Known, JobsHold, JobHolds, EmailSignup, users, links, sessions, Job, Purposes
  <2>2. email' \in [Users -> Emails \cup {None}]
    BY <1>1, <2>0 DEF TypeOK, Known, JobsHold, JobHolds, EmailSignup, users, links, sessions, Job, Purposes
  <2>3. password' \in [Users -> Nat]
    BY <1>1, <2>0 DEF TypeOK, Known, JobsHold, JobHolds, EmailSignup, users, links, sessions, Job, Purposes
  <2>4. loginOn' \in [Users -> BOOLEAN]
    BY <1>1, <2>0 DEF TypeOK, Known, JobsHold, JobHolds, EmailSignup, users, links, sessions, Job, Purposes
  <2> QED BY <1>1, <1>2, <1>3, <2>1, <2>2, <2>3, <2>4 DEF TypeOK, EmailSignup, users, links, sessions
<1>5. Known'
  BY <1>1, <1>2, <1>3 DEF Known, EmailSignup, users, links, sessions, TypeOK
<1>6. LinksComplete'
  BY <1>1, <1>2, <1>3 DEF LinksComplete, JobsHold, JobHolds, EmailSignup, users, links, sessions, TypeOK
<1>7. JobsHold'
  <2> SUFFICES ASSUME NEW x \in Requests PROVE JobHolds(x)'
    BY DEF JobsHold
  <2>1. JobHolds(x) /\ JobHolds(r)
    BY <1>1 DEF JobsHold
  <2>2. CASE x = r
    BY <1>1, <1>2, <1>3, <2>1, <2>2 DEF JobHolds, EmailSignup, users, links, sessions, TypeOK, LinksComplete, Purposes, VerifiedIsProven
  <2>3. CASE x # r
    BY <1>1, <1>2, <1>3, <2>1, <2>3 DEF JobHolds, EmailSignup, users, links, sessions, TypeOK
  <2> QED BY <2>2, <2>3
<1>8. VerifiedIsProven'
  BY <1>1, <1>2, <1>3 DEF VerifiedIsProven, Known, LinksComplete, JobsHold, JobHolds, EmailSignup, users, links, sessions, TypeOK
<1> QED BY <1>4, <1>5, <1>6, <1>7, <1>8 DEF Shape

LEMMA EmailLoginShape ==
  ASSUME Shape, NEW r \in Requests, NEW u \in Users, EmailLogin(r, u)
  PROVE  Shape'
<1> USE EmailAssumption, IdleTyped
<1>1. TypeOK /\ Known /\ LinksComplete /\ JobsHold /\ VerifiedIsProven
  BY DEF Shape
<1> DEFINE h == Held("login", u, None, None, None, FALSE)
<1>2. /\ h \in Job
      /\ h.at = "login"
      /\ h.user = u
      /\ h.addr = None
      /\ h.purpose = None
      /\ h.token = None
  <2>1. job[r] \in Job
    BY <1>1 DEF TypeOK
  <2>2. "login" \in Stages
    BY <1>1, <2>1 DEF EmailLogin, Begin, users, links, sessions, TypeOK, Known, LinksComplete, Stages, Purposes, Job
  <2>3. u \in Users \cup {None}
    BY <1>1, <2>1 DEF EmailLogin, Begin, users, links, sessions, TypeOK, Known, LinksComplete, Stages, Purposes, Job
  <2>4. None \in Emails \cup {None}
    BY <1>1, <2>1 DEF EmailLogin, Begin, users, links, sessions, TypeOK, Known, LinksComplete, Stages, Purposes, Job
  <2>5. None \in Purposes \cup {None}
    BY <1>1, <2>1 DEF EmailLogin, Begin, users, links, sessions, TypeOK, Known, LinksComplete, Stages, Purposes, Job
  <2>6. None \in Tokens \cup {None}
    BY <1>1, <2>1 DEF EmailLogin, Begin, users, links, sessions, TypeOK, Known, LinksComplete, Stages, Purposes, Job
  <2>7. FALSE \in BOOLEAN
    BY <1>1, <2>1 DEF EmailLogin, Begin, users, links, sessions, TypeOK, Known, LinksComplete, Stages, Purposes, Job
  <2> QED BY <2>2, <2>3, <2>4, <2>5, <2>6, <2>7 DEF Held, Job
<1>3. job' \in [Requests -> Job] /\ job'[r] = h /\ (\A x \in Requests : x # r => job'[x] = job[x])
  <2>1. job' = [job EXCEPT ![r] = h]
    BY DEF EmailLogin, Begin, users, links, sessions
  <2> HIDE DEF h
  <2> QED BY <1>1, <1>2, <2>1 DEF TypeOK
<1> HIDE DEF h
<1>4. TypeOK'
  BY <1>1, <1>2, <1>3 DEF TypeOK, EmailLogin, Begin, users, links, sessions
<1>5. Known'
  BY <1>1, <1>2, <1>3 DEF Known, EmailLogin, Begin, users, links, sessions, TypeOK
<1>6. LinksComplete'
  BY <1>1, <1>2, <1>3 DEF LinksComplete, JobsHold, JobHolds, EmailLogin, Begin, users, links, sessions, TypeOK
<1>7. JobsHold'
  <2> SUFFICES ASSUME NEW x \in Requests PROVE JobHolds(x)'
    BY DEF JobsHold
  <2>1. JobHolds(x) /\ JobHolds(r)
    BY <1>1 DEF JobsHold
  <2>2. CASE x = r
    BY <1>1, <1>2, <1>3, <2>1, <2>2 DEF JobHolds, EmailLogin, Begin, users, links, sessions, TypeOK, LinksComplete, Purposes, VerifiedIsProven
  <2>3. CASE x # r
    BY <1>1, <1>2, <1>3, <2>1, <2>3 DEF JobHolds, EmailLogin, Begin, users, links, sessions, TypeOK
  <2> QED BY <2>2, <2>3
<1>8. VerifiedIsProven'
  BY <1>1, <1>2, <1>3 DEF VerifiedIsProven, Known, LinksComplete, JobsHold, JobHolds, EmailLogin, Begin, users, links, sessions, TypeOK
<1> QED BY <1>4, <1>5, <1>6, <1>7, <1>8 DEF Shape

LEMMA PutMyEmailLoginEnabledShape ==
  ASSUME Shape, NEW r \in Requests, NEW u \in Users, NEW on \in BOOLEAN, PutMyEmailLoginEnabled(r, u, on)
  PROVE  Shape'
<1> USE EmailAssumption, IdleTyped
<1>1. TypeOK /\ Known /\ LinksComplete /\ JobsHold /\ VerifiedIsProven
  BY DEF Shape
<1> DEFINE h == Held("toggle", u, None, None, None, on)
<1>2. /\ h \in Job
      /\ h.at = "toggle"
      /\ h.user = u
      /\ h.addr = None
      /\ h.purpose = None
      /\ h.token = None
  <2>1. job[r] \in Job
    BY <1>1 DEF TypeOK
  <2>2. "toggle" \in Stages
    BY <1>1, <2>1 DEF PutMyEmailLoginEnabled, users, links, sessions, TypeOK, Known, LinksComplete, Stages, Purposes, Job
  <2>3. u \in Users \cup {None}
    BY <1>1, <2>1 DEF PutMyEmailLoginEnabled, users, links, sessions, TypeOK, Known, LinksComplete, Stages, Purposes, Job
  <2>4. None \in Emails \cup {None}
    BY <1>1, <2>1 DEF PutMyEmailLoginEnabled, users, links, sessions, TypeOK, Known, LinksComplete, Stages, Purposes, Job
  <2>5. None \in Purposes \cup {None}
    BY <1>1, <2>1 DEF PutMyEmailLoginEnabled, users, links, sessions, TypeOK, Known, LinksComplete, Stages, Purposes, Job
  <2>6. None \in Tokens \cup {None}
    BY <1>1, <2>1 DEF PutMyEmailLoginEnabled, users, links, sessions, TypeOK, Known, LinksComplete, Stages, Purposes, Job
  <2>7. on \in BOOLEAN
    BY <1>1, <2>1 DEF PutMyEmailLoginEnabled, users, links, sessions, TypeOK, Known, LinksComplete, Stages, Purposes, Job
  <2> QED BY <2>2, <2>3, <2>4, <2>5, <2>6, <2>7 DEF Held, Job
<1>3. job' \in [Requests -> Job] /\ job'[r] = h /\ (\A x \in Requests : x # r => job'[x] = job[x])
  <2>1. job' = [job EXCEPT ![r] = h]
    BY DEF PutMyEmailLoginEnabled, users, links, sessions
  <2> HIDE DEF h
  <2> QED BY <1>1, <1>2, <2>1 DEF TypeOK
<1> HIDE DEF h
<1>4. TypeOK'
  BY <1>1, <1>2, <1>3 DEF TypeOK, PutMyEmailLoginEnabled, users, links, sessions
<1>5. Known'
  BY <1>1, <1>2, <1>3 DEF Known, PutMyEmailLoginEnabled, users, links, sessions, TypeOK
<1>6. LinksComplete'
  BY <1>1, <1>2, <1>3 DEF LinksComplete, JobsHold, JobHolds, PutMyEmailLoginEnabled, users, links, sessions, TypeOK
<1>7. JobsHold'
  <2> SUFFICES ASSUME NEW x \in Requests PROVE JobHolds(x)'
    BY DEF JobsHold
  <2>1. JobHolds(x) /\ JobHolds(r)
    BY <1>1 DEF JobsHold
  <2>2. CASE x = r
    BY <1>1, <1>2, <1>3, <2>1, <2>2 DEF JobHolds, PutMyEmailLoginEnabled, users, links, sessions, TypeOK, LinksComplete, Purposes, VerifiedIsProven
  <2>3. CASE x # r
    BY <1>1, <1>2, <1>3, <2>1, <2>3 DEF JobHolds, PutMyEmailLoginEnabled, users, links, sessions, TypeOK
  <2> QED BY <2>2, <2>3
<1>8. VerifiedIsProven'
  BY <1>1, <1>2, <1>3 DEF VerifiedIsProven, Known, LinksComplete, JobsHold, JobHolds, PutMyEmailLoginEnabled, users, links, sessions, TypeOK
<1> QED BY <1>4, <1>5, <1>6, <1>7, <1>8 DEF Shape

LEMMA UnbindEmailShape ==
  ASSUME Shape, NEW r \in Requests, NEW u \in Users, UnbindEmail(r, u)
  PROVE  Shape'
<1> USE EmailAssumption, IdleTyped
<1>1. TypeOK /\ Known /\ LinksComplete /\ JobsHold /\ VerifiedIsProven
  BY DEF Shape
<1> DEFINE h == Held("unbind", u, None, None, None, FALSE)
<1>2. /\ h \in Job
      /\ h.at = "unbind"
      /\ h.user = u
      /\ h.addr = None
      /\ h.purpose = None
      /\ h.token = None
  <2>1. job[r] \in Job
    BY <1>1 DEF TypeOK
  <2>2. "unbind" \in Stages
    BY <1>1, <2>1 DEF UnbindEmail, Begin, users, links, sessions, TypeOK, Known, LinksComplete, Stages, Purposes, Job
  <2>3. u \in Users \cup {None}
    BY <1>1, <2>1 DEF UnbindEmail, Begin, users, links, sessions, TypeOK, Known, LinksComplete, Stages, Purposes, Job
  <2>4. None \in Emails \cup {None}
    BY <1>1, <2>1 DEF UnbindEmail, Begin, users, links, sessions, TypeOK, Known, LinksComplete, Stages, Purposes, Job
  <2>5. None \in Purposes \cup {None}
    BY <1>1, <2>1 DEF UnbindEmail, Begin, users, links, sessions, TypeOK, Known, LinksComplete, Stages, Purposes, Job
  <2>6. None \in Tokens \cup {None}
    BY <1>1, <2>1 DEF UnbindEmail, Begin, users, links, sessions, TypeOK, Known, LinksComplete, Stages, Purposes, Job
  <2>7. FALSE \in BOOLEAN
    BY <1>1, <2>1 DEF UnbindEmail, Begin, users, links, sessions, TypeOK, Known, LinksComplete, Stages, Purposes, Job
  <2> QED BY <2>2, <2>3, <2>4, <2>5, <2>6, <2>7 DEF Held, Job
<1>3. job' \in [Requests -> Job] /\ job'[r] = h /\ (\A x \in Requests : x # r => job'[x] = job[x])
  <2>1. job' = [job EXCEPT ![r] = h]
    BY DEF UnbindEmail, Begin, users, links, sessions
  <2> HIDE DEF h
  <2> QED BY <1>1, <1>2, <2>1 DEF TypeOK
<1> HIDE DEF h
<1>4. TypeOK'
  BY <1>1, <1>2, <1>3 DEF TypeOK, UnbindEmail, Begin, users, links, sessions
<1>5. Known'
  BY <1>1, <1>2, <1>3 DEF Known, UnbindEmail, Begin, users, links, sessions, TypeOK
<1>6. LinksComplete'
  BY <1>1, <1>2, <1>3 DEF LinksComplete, JobsHold, JobHolds, UnbindEmail, Begin, users, links, sessions, TypeOK
<1>7. JobsHold'
  <2> SUFFICES ASSUME NEW x \in Requests PROVE JobHolds(x)'
    BY DEF JobsHold
  <2>1. JobHolds(x) /\ JobHolds(r)
    BY <1>1 DEF JobsHold
  <2>2. CASE x = r
    BY <1>1, <1>2, <1>3, <2>1, <2>2 DEF JobHolds, UnbindEmail, Begin, users, links, sessions, TypeOK, LinksComplete, Purposes, VerifiedIsProven
  <2>3. CASE x # r
    BY <1>1, <1>2, <1>3, <2>1, <2>3 DEF JobHolds, UnbindEmail, Begin, users, links, sessions, TypeOK
  <2> QED BY <2>2, <2>3
<1>8. VerifiedIsProven'
  BY <1>1, <1>2, <1>3 DEF VerifiedIsProven, Known, LinksComplete, JobsHold, JobHolds, UnbindEmail, Begin, users, links, sessions, TypeOK
<1> QED BY <1>4, <1>5, <1>6, <1>7, <1>8 DEF Shape

LEMMA CreateUserSessionShape ==
  ASSUME Shape, NEW r \in Requests, NEW s \in Sessions, CreateUserSession(r, s)
  PROVE  Shape'
<1> USE EmailAssumption, IdleTyped
<1>1. TypeOK /\ Known /\ LinksComplete /\ JobsHold /\ VerifiedIsProven
  BY DEF Shape
<1> DEFINE h == Idle
<1>2. h \in Job /\ h.at = "idle"
  BY IdleTyped
<1>3. job' \in [Requests -> Job] /\ job'[r] = h /\ (\A x \in Requests : x # r => job'[x] = job[x])
  <2>1. job' = [job EXCEPT ![r] = h]
    BY DEF CreateUserSession, NewSession, Finish, users, links, sessions
  <2> HIDE DEF h
  <2> QED BY <1>1, <1>2, <2>1 DEF TypeOK
<1> HIDE DEF h
<1>4. TypeOK'
  <2>0. job[r] \in Job
    BY <1>1 DEF TypeOK
  <2>1. session' \in [Sessions -> Users \cup {None}]
    BY <1>1, <2>0 DEF TypeOK, Known, JobsHold, JobHolds, CreateUserSession, NewSession, users, links, sessions, Job, Purposes
  <2>2. born' \in [Sessions -> Nat]
    BY <1>1, <2>0 DEF TypeOK, Known, JobsHold, JobHolds, CreateUserSession, NewSession, users, links, sessions, Job, Purposes
  <2>3. entered' \subseteq Users
    BY <1>1, <2>0 DEF TypeOK, Known, JobsHold, JobHolds, CreateUserSession, NewSession, users, links, sessions, Job, Purposes
  <2> QED BY <1>1, <1>2, <1>3, <2>1, <2>2, <2>3 DEF TypeOK, CreateUserSession, NewSession, users, links, sessions
<1>5. Known'
  BY <1>1, <1>2, <1>3 DEF Known, CreateUserSession, NewSession, users, links, sessions, TypeOK
<1>6. LinksComplete'
  BY <1>1, <1>2, <1>3 DEF LinksComplete, JobsHold, JobHolds, CreateUserSession, NewSession, users, links, sessions, TypeOK
<1>7. JobsHold'
  <2> SUFFICES ASSUME NEW x \in Requests PROVE JobHolds(x)'
    BY DEF JobsHold
  <2>1. JobHolds(x) /\ JobHolds(r)
    BY <1>1 DEF JobsHold
  <2>2. CASE x = r
    BY <1>1, <1>2, <1>3, <2>1, <2>2 DEF JobHolds, CreateUserSession, NewSession, users, links, sessions, TypeOK, LinksComplete, Purposes, VerifiedIsProven
  <2>3. CASE x # r
    BY <1>1, <1>2, <1>3, <2>1, <2>3 DEF JobHolds, CreateUserSession, NewSession, users, links, sessions, TypeOK
  <2> QED BY <2>2, <2>3
<1>8. VerifiedIsProven'
  BY <1>1, <1>2, <1>3 DEF VerifiedIsProven, Known, LinksComplete, JobsHold, JobHolds, CreateUserSession, NewSession, users, links, sessions, TypeOK
<1> QED BY <1>4, <1>5, <1>6, <1>7, <1>8 DEF Shape

LEMMA ToggleShape ==
  ASSUME Shape, NEW r \in Requests, Toggle(r)
  PROVE  Shape'
<1> USE EmailAssumption, IdleTyped
<1>1. TypeOK /\ Known /\ LinksComplete /\ JobsHold /\ VerifiedIsProven
  BY DEF Shape
<1> DEFINE h == Idle
<1>2. h \in Job /\ h.at = "idle"
  BY IdleTyped
<1>3. job' \in [Requests -> Job] /\ job'[r] = h /\ (\A x \in Requests : x # r => job'[x] = job[x])
  <2>1. job' = [job EXCEPT ![r] = h]
    BY DEF Toggle, Finish, users, links, sessions
  <2> HIDE DEF h
  <2> QED BY <1>1, <1>2, <2>1 DEF TypeOK
<1> HIDE DEF h
<1>4. TypeOK'
  <2>0. job[r] \in Job
    BY <1>1 DEF TypeOK
  <2>1. loginOn' \in [Users -> BOOLEAN]
    BY <1>1, <2>0 DEF TypeOK, Known, JobsHold, JobHolds, Toggle, users, links, sessions, Job, Purposes
  <2> QED BY <1>1, <1>2, <1>3, <2>1 DEF TypeOK, Toggle, users, links, sessions
<1>5. Known'
  BY <1>1, <1>2, <1>3 DEF Known, Toggle, users, links, sessions, TypeOK
<1>6. LinksComplete'
  BY <1>1, <1>2, <1>3 DEF LinksComplete, JobsHold, JobHolds, Toggle, users, links, sessions, TypeOK
<1>7. JobsHold'
  <2> SUFFICES ASSUME NEW x \in Requests PROVE JobHolds(x)'
    BY DEF JobsHold
  <2>1. JobHolds(x) /\ JobHolds(r)
    BY <1>1 DEF JobsHold
  <2>2. CASE x = r
    BY <1>1, <1>2, <1>3, <2>1, <2>2 DEF JobHolds, Toggle, users, links, sessions, TypeOK, LinksComplete, Purposes, VerifiedIsProven
  <2>3. CASE x # r
    BY <1>1, <1>2, <1>3, <2>1, <2>3 DEF JobHolds, Toggle, users, links, sessions, TypeOK
  <2> QED BY <2>2, <2>3
<1>8. VerifiedIsProven'
  BY <1>1, <1>2, <1>3 DEF VerifiedIsProven, Known, LinksComplete, JobsHold, JobHolds, Toggle, users, links, sessions, TypeOK
<1> QED BY <1>4, <1>5, <1>6, <1>7, <1>8 DEF Shape

LEMMA UnbindShape ==
  ASSUME Shape, NEW r \in Requests, Unbind(r)
  PROVE  Shape'
<1> USE EmailAssumption, IdleTyped
<1>1. TypeOK /\ Known /\ LinksComplete /\ JobsHold /\ VerifiedIsProven
  BY DEF Shape
<1> DEFINE h == Idle
<1>2. h \in Job /\ h.at = "idle"
  BY IdleTyped
<1>3. job' \in [Requests -> Job] /\ job'[r] = h /\ (\A x \in Requests : x # r => job'[x] = job[x])
  <2>1. job' = [job EXCEPT ![r] = h]
    BY DEF Unbind, Finish, users, links, sessions
  <2> HIDE DEF h
  <2> QED BY <1>1, <1>2, <2>1 DEF TypeOK
<1> HIDE DEF h
<1>4. TypeOK'
  <2>0. job[r] \in Job
    BY <1>1 DEF TypeOK
  <2>1. state' \in [Tokens -> {"none", "live", "expired", "consumed"}]
    BY <1>1, <2>0 DEF TypeOK, Known, JobsHold, JobHolds, Unbind, users, links, sessions, Job, Purposes
  <2>2. email' \in [Users -> Emails \cup {None}]
    BY <1>1, <2>0 DEF TypeOK, Known, JobsHold, JobHolds, Unbind, users, links, sessions, Job, Purposes
  <2>3. verified' \in [Users -> BOOLEAN]
    BY <1>1, <2>0 DEF TypeOK, Known, JobsHold, JobHolds, Unbind, users, links, sessions, Job, Purposes
  <2>4. loginOn' \in [Users -> BOOLEAN]
    BY <1>1, <2>0 DEF TypeOK, Known, JobsHold, JobHolds, Unbind, users, links, sessions, Job, Purposes
  <2> QED BY <1>1, <1>2, <1>3, <2>1, <2>2, <2>3, <2>4 DEF TypeOK, Unbind, users, links, sessions
<1>5. Known'
  BY <1>1, <1>2, <1>3 DEF Known, Unbind, users, links, sessions, TypeOK
<1>6. LinksComplete'
  BY <1>1, <1>2, <1>3 DEF LinksComplete, JobsHold, JobHolds, Unbind, users, links, sessions, TypeOK
<1>7. JobsHold'
  <2> SUFFICES ASSUME NEW x \in Requests PROVE JobHolds(x)'
    BY DEF JobsHold
  <2>1. JobHolds(x) /\ JobHolds(r)
    BY <1>1 DEF JobsHold
  <2>2. CASE x = r
    BY <1>1, <1>2, <1>3, <2>1, <2>2 DEF JobHolds, Unbind, users, links, sessions, TypeOK, LinksComplete, Purposes, VerifiedIsProven
  <2>3. CASE x # r
    BY <1>1, <1>2, <1>3, <2>1, <2>3 DEF JobHolds, Unbind, users, links, sessions, TypeOK
  <2> QED BY <2>2, <2>3
<1>8. VerifiedIsProven'
  BY <1>1, <1>2, <1>3 DEF VerifiedIsProven, Known, LinksComplete, JobsHold, JobHolds, Unbind, users, links, sessions, TypeOK
<1> QED BY <1>4, <1>5, <1>6, <1>7, <1>8 DEF Shape

LEMMA BindEmailShape ==
  ASSUME Shape, NEW r \in Requests, NEW u \in Users, NEW e \in Emails, BindEmail(r, u, e)
  PROVE  Shape'
<1> USE EmailAssumption, IdleTyped
<1>1. TypeOK /\ Known /\ LinksComplete /\ JobsHold /\ VerifiedIsProven
  BY DEF Shape
<1> DEFINE h == Held("issue", u, e, "verify", None, FALSE)
<1>2. /\ h \in Job
      /\ h.at = "issue"
      /\ h.user = u
      /\ h.addr = e
      /\ h.purpose = "verify"
      /\ h.token = None
  <2>1. job[r] \in Job
    BY <1>1 DEF TypeOK
  <2>2. "issue" \in Stages
    BY <1>1, <2>1 DEF BindEmail, Begin, users, links, sessions, TypeOK, Known, LinksComplete, Stages, Purposes, Job
  <2>3. u \in Users \cup {None}
    BY <1>1, <2>1 DEF BindEmail, Begin, users, links, sessions, TypeOK, Known, LinksComplete, Stages, Purposes, Job
  <2>4. e \in Emails \cup {None}
    BY <1>1, <2>1 DEF BindEmail, Begin, users, links, sessions, TypeOK, Known, LinksComplete, Stages, Purposes, Job
  <2>5. "verify" \in Purposes \cup {None}
    BY <1>1, <2>1 DEF BindEmail, Begin, users, links, sessions, TypeOK, Known, LinksComplete, Stages, Purposes, Job
  <2>6. None \in Tokens \cup {None}
    BY <1>1, <2>1 DEF BindEmail, Begin, users, links, sessions, TypeOK, Known, LinksComplete, Stages, Purposes, Job
  <2>7. FALSE \in BOOLEAN
    BY <1>1, <2>1 DEF BindEmail, Begin, users, links, sessions, TypeOK, Known, LinksComplete, Stages, Purposes, Job
  <2> QED BY <2>2, <2>3, <2>4, <2>5, <2>6, <2>7 DEF Held, Job
<1>3. job' \in [Requests -> Job] /\ job'[r] = h /\ (\A x \in Requests : x # r => job'[x] = job[x])
  <2>1. job' = [job EXCEPT ![r] = h]
    BY DEF BindEmail, Begin, users, links, sessions
  <2> HIDE DEF h
  <2> QED BY <1>1, <1>2, <2>1 DEF TypeOK
<1> HIDE DEF h
<1>4. TypeOK'
  BY <1>1, <1>2, <1>3 DEF TypeOK, BindEmail, Begin, users, links, sessions
<1>5. Known'
  BY <1>1, <1>2, <1>3 DEF Known, BindEmail, Begin, users, links, sessions, TypeOK
<1>6. LinksComplete'
  BY <1>1, <1>2, <1>3 DEF LinksComplete, JobsHold, JobHolds, BindEmail, Begin, users, links, sessions, TypeOK
<1>7. JobsHold'
  <2> SUFFICES ASSUME NEW x \in Requests PROVE JobHolds(x)'
    BY DEF JobsHold
  <2>1. JobHolds(x) /\ JobHolds(r)
    BY <1>1 DEF JobsHold
  <2>2. CASE x = r
    BY <1>1, <1>2, <1>3, <2>1, <2>2 DEF JobHolds, BindEmail, Begin, users, links, sessions, TypeOK, LinksComplete, Purposes, VerifiedIsProven
  <2>3. CASE x # r
    BY <1>1, <1>2, <1>3, <2>1, <2>3 DEF JobHolds, BindEmail, Begin, users, links, sessions, TypeOK
  <2> QED BY <2>2, <2>3
<1>8. VerifiedIsProven'
  BY <1>1, <1>2, <1>3 DEF VerifiedIsProven, Known, LinksComplete, JobsHold, JobHolds, BindEmail, Begin, users, links, sessions, TypeOK
<1> QED BY <1>4, <1>5, <1>6, <1>7, <1>8 DEF Shape

LEMMA ResendShape ==
  ASSUME Shape, NEW r \in Requests, NEW u \in Users, ResendUnverifiedSignupEmail(r, u)
  PROVE  Shape'
<1> USE EmailAssumption, IdleTyped
<1>1. TypeOK /\ Known /\ LinksComplete /\ JobsHold /\ VerifiedIsProven
  BY DEF Shape
<1> DEFINE h == Held("issue", u, email[u], "verify", None, FALSE)
<1>2. /\ h \in Job
      /\ h.at = "issue"
      /\ h.user = u
      /\ h.addr = email[u]
      /\ h.purpose = "verify"
      /\ h.token = None
  <2>1. job[r] \in Job
    BY <1>1 DEF TypeOK
  <2>2. "issue" \in Stages
    BY <1>1, <2>1 DEF ResendUnverifiedSignupEmail, Begin, users, links, sessions, TypeOK, Known, LinksComplete, Stages, Purposes, Job
  <2>3. u \in Users \cup {None}
    BY <1>1, <2>1 DEF ResendUnverifiedSignupEmail, Begin, users, links, sessions, TypeOK, Known, LinksComplete, Stages, Purposes, Job
  <2>4. email[u] \in Emails \cup {None}
    BY <1>1, <2>1 DEF ResendUnverifiedSignupEmail, Begin, users, links, sessions, TypeOK, Known, LinksComplete, Stages, Purposes, Job
  <2>5. "verify" \in Purposes \cup {None}
    BY <1>1, <2>1 DEF ResendUnverifiedSignupEmail, Begin, users, links, sessions, TypeOK, Known, LinksComplete, Stages, Purposes, Job
  <2>6. None \in Tokens \cup {None}
    BY <1>1, <2>1 DEF ResendUnverifiedSignupEmail, Begin, users, links, sessions, TypeOK, Known, LinksComplete, Stages, Purposes, Job
  <2>7. FALSE \in BOOLEAN
    BY <1>1, <2>1 DEF ResendUnverifiedSignupEmail, Begin, users, links, sessions, TypeOK, Known, LinksComplete, Stages, Purposes, Job
  <2> QED BY <2>2, <2>3, <2>4, <2>5, <2>6, <2>7 DEF Held, Job
<1>3. job' \in [Requests -> Job] /\ job'[r] = h /\ (\A x \in Requests : x # r => job'[x] = job[x])
  <2>1. job' = [job EXCEPT ![r] = h]
    BY DEF ResendUnverifiedSignupEmail, Begin, users, links, sessions
  <2> HIDE DEF h
  <2> QED BY <1>1, <1>2, <2>1 DEF TypeOK
<1> HIDE DEF h
<1>4. TypeOK'
  BY <1>1, <1>2, <1>3 DEF TypeOK, ResendUnverifiedSignupEmail, Begin, users, links, sessions
<1>5. Known'
  BY <1>1, <1>2, <1>3 DEF Known, ResendUnverifiedSignupEmail, Begin, users, links, sessions, TypeOK
<1>6. LinksComplete'
  BY <1>1, <1>2, <1>3 DEF LinksComplete, JobsHold, JobHolds, ResendUnverifiedSignupEmail, Begin, users, links, sessions, TypeOK
<1>7. JobsHold'
  <2> SUFFICES ASSUME NEW x \in Requests PROVE JobHolds(x)'
    BY DEF JobsHold
  <2>1. JobHolds(x) /\ JobHolds(r)
    BY <1>1 DEF JobsHold
  <2>2. CASE x = r
    <3>1. email[u] \in Emails /\ email'[u] = email[u] /\ proven' = proven
      BY <1>1 DEF TypeOK, ResendUnverifiedSignupEmail, Begin, users, links, sessions
    <3>2. job'[x] = h
      BY <1>3, <2>2
    <3>3. h.purpose \in {"reset", "set"} => <<u, email[u]>> \in proven
      BY <1>1, <1>2 DEF VerifiedIsProven, ResendUnverifiedSignupEmail, Begin, users, links, sessions
    <3>4. h.purpose \in Purposes
      BY <1>2 DEF Purposes
    <3> QED BY <1>2, <3>1, <3>2, <3>3, <3>4 DEF JobHolds
  <2>3. CASE x # r
    BY <1>1, <1>2, <1>3, <2>1, <2>3 DEF JobHolds, ResendUnverifiedSignupEmail, Begin, users, links, sessions, TypeOK
  <2> QED BY <2>2, <2>3
<1>8. VerifiedIsProven'
  BY <1>1, <1>2, <1>3 DEF VerifiedIsProven, Known, LinksComplete, JobsHold, JobHolds, ResendUnverifiedSignupEmail, Begin, users, links, sessions, TypeOK
<1> QED BY <1>4, <1>5, <1>6, <1>7, <1>8 DEF Shape

LEMMA ForgotPasswordShape ==
  ASSUME Shape, NEW r \in Requests, NEW u \in Users, ForgotPassword(r, u)
  PROVE  Shape'
<1> USE EmailAssumption, IdleTyped
<1>1. TypeOK /\ Known /\ LinksComplete /\ JobsHold /\ VerifiedIsProven
  BY DEF Shape
<1> DEFINE h == Held("issue", u, email[u], "reset", None, FALSE)
<1>2. /\ h \in Job
      /\ h.at = "issue"
      /\ h.user = u
      /\ h.addr = email[u]
      /\ h.purpose = "reset"
      /\ h.token = None
  <2>1. job[r] \in Job
    BY <1>1 DEF TypeOK
  <2>2. "issue" \in Stages
    BY <1>1, <2>1 DEF ForgotPassword, Begin, users, links, sessions, TypeOK, Known, LinksComplete, Stages, Purposes, Job
  <2>3. u \in Users \cup {None}
    BY <1>1, <2>1 DEF ForgotPassword, Begin, users, links, sessions, TypeOK, Known, LinksComplete, Stages, Purposes, Job
  <2>4. email[u] \in Emails \cup {None}
    BY <1>1, <2>1 DEF ForgotPassword, Begin, users, links, sessions, TypeOK, Known, LinksComplete, Stages, Purposes, Job
  <2>5. "reset" \in Purposes \cup {None}
    BY <1>1, <2>1 DEF ForgotPassword, Begin, users, links, sessions, TypeOK, Known, LinksComplete, Stages, Purposes, Job
  <2>6. None \in Tokens \cup {None}
    BY <1>1, <2>1 DEF ForgotPassword, Begin, users, links, sessions, TypeOK, Known, LinksComplete, Stages, Purposes, Job
  <2>7. FALSE \in BOOLEAN
    BY <1>1, <2>1 DEF ForgotPassword, Begin, users, links, sessions, TypeOK, Known, LinksComplete, Stages, Purposes, Job
  <2> QED BY <2>2, <2>3, <2>4, <2>5, <2>6, <2>7 DEF Held, Job
<1>3. job' \in [Requests -> Job] /\ job'[r] = h /\ (\A x \in Requests : x # r => job'[x] = job[x])
  <2>1. job' = [job EXCEPT ![r] = h]
    BY DEF ForgotPassword, Begin, users, links, sessions
  <2> HIDE DEF h
  <2> QED BY <1>1, <1>2, <2>1 DEF TypeOK
<1> HIDE DEF h
<1>4. TypeOK'
  BY <1>1, <1>2, <1>3 DEF TypeOK, ForgotPassword, Begin, users, links, sessions
<1>5. Known'
  BY <1>1, <1>2, <1>3 DEF Known, ForgotPassword, Begin, users, links, sessions, TypeOK
<1>6. LinksComplete'
  BY <1>1, <1>2, <1>3 DEF LinksComplete, JobsHold, JobHolds, ForgotPassword, Begin, users, links, sessions, TypeOK
<1>7. JobsHold'
  <2> SUFFICES ASSUME NEW x \in Requests PROVE JobHolds(x)'
    BY DEF JobsHold
  <2>1. JobHolds(x) /\ JobHolds(r)
    BY <1>1 DEF JobsHold
  <2>2. CASE x = r
    <3>1. email[u] \in Emails /\ email'[u] = email[u] /\ proven' = proven
      BY <1>1 DEF TypeOK, ForgotPassword, Begin, users, links, sessions
    <3>2. job'[x] = h
      BY <1>3, <2>2
    <3>3. h.purpose \in {"reset", "set"} => <<u, email[u]>> \in proven
      BY <1>1, <1>2 DEF VerifiedIsProven, ForgotPassword, Begin, users, links, sessions
    <3>4. h.purpose \in Purposes
      BY <1>2 DEF Purposes
    <3> QED BY <1>2, <3>1, <3>2, <3>3, <3>4 DEF JobHolds
  <2>3. CASE x # r
    BY <1>1, <1>2, <1>3, <2>1, <2>3 DEF JobHolds, ForgotPassword, Begin, users, links, sessions, TypeOK
  <2> QED BY <2>2, <2>3
<1>8. VerifiedIsProven'
  BY <1>1, <1>2, <1>3 DEF VerifiedIsProven, Known, LinksComplete, JobsHold, JobHolds, ForgotPassword, Begin, users, links, sessions, TypeOK
<1> QED BY <1>4, <1>5, <1>6, <1>7, <1>8 DEF Shape

LEMMA RequestSetPasswordShape ==
  ASSUME Shape, NEW r \in Requests, NEW u \in Users, RequestSetPassword(r, u)
  PROVE  Shape'
<1> USE EmailAssumption, IdleTyped
<1>1. TypeOK /\ Known /\ LinksComplete /\ JobsHold /\ VerifiedIsProven
  BY DEF Shape
<1> DEFINE h == Held("issue", u, email[u], "set", None, FALSE)
<1>2. /\ h \in Job
      /\ h.at = "issue"
      /\ h.user = u
      /\ h.addr = email[u]
      /\ h.purpose = "set"
      /\ h.token = None
  <2>1. job[r] \in Job
    BY <1>1 DEF TypeOK
  <2>2. "issue" \in Stages
    BY <1>1, <2>1 DEF RequestSetPassword, Begin, users, links, sessions, TypeOK, Known, LinksComplete, Stages, Purposes, Job
  <2>3. u \in Users \cup {None}
    BY <1>1, <2>1 DEF RequestSetPassword, Begin, users, links, sessions, TypeOK, Known, LinksComplete, Stages, Purposes, Job
  <2>4. email[u] \in Emails \cup {None}
    BY <1>1, <2>1 DEF RequestSetPassword, Begin, users, links, sessions, TypeOK, Known, LinksComplete, Stages, Purposes, Job
  <2>5. "set" \in Purposes \cup {None}
    BY <1>1, <2>1 DEF RequestSetPassword, Begin, users, links, sessions, TypeOK, Known, LinksComplete, Stages, Purposes, Job
  <2>6. None \in Tokens \cup {None}
    BY <1>1, <2>1 DEF RequestSetPassword, Begin, users, links, sessions, TypeOK, Known, LinksComplete, Stages, Purposes, Job
  <2>7. FALSE \in BOOLEAN
    BY <1>1, <2>1 DEF RequestSetPassword, Begin, users, links, sessions, TypeOK, Known, LinksComplete, Stages, Purposes, Job
  <2> QED BY <2>2, <2>3, <2>4, <2>5, <2>6, <2>7 DEF Held, Job
<1>3. job' \in [Requests -> Job] /\ job'[r] = h /\ (\A x \in Requests : x # r => job'[x] = job[x])
  <2>1. job' = [job EXCEPT ![r] = h]
    BY DEF RequestSetPassword, Begin, users, links, sessions
  <2> HIDE DEF h
  <2> QED BY <1>1, <1>2, <2>1 DEF TypeOK
<1> HIDE DEF h
<1>4. TypeOK'
  BY <1>1, <1>2, <1>3 DEF TypeOK, RequestSetPassword, Begin, users, links, sessions
<1>5. Known'
  BY <1>1, <1>2, <1>3 DEF Known, RequestSetPassword, Begin, users, links, sessions, TypeOK
<1>6. LinksComplete'
  BY <1>1, <1>2, <1>3 DEF LinksComplete, JobsHold, JobHolds, RequestSetPassword, Begin, users, links, sessions, TypeOK
<1>7. JobsHold'
  <2> SUFFICES ASSUME NEW x \in Requests PROVE JobHolds(x)'
    BY DEF JobsHold
  <2>1. JobHolds(x) /\ JobHolds(r)
    BY <1>1 DEF JobsHold
  <2>2. CASE x = r
    <3>1. email[u] \in Emails /\ email'[u] = email[u] /\ proven' = proven
      BY <1>1 DEF TypeOK, RequestSetPassword, Begin, users, links, sessions
    <3>2. job'[x] = h
      BY <1>3, <2>2
    <3>3. h.purpose \in {"reset", "set"} => <<u, email[u]>> \in proven
      BY <1>1, <1>2 DEF VerifiedIsProven, RequestSetPassword, Begin, users, links, sessions
    <3>4. h.purpose \in Purposes
      BY <1>2 DEF Purposes
    <3> QED BY <1>2, <3>1, <3>2, <3>3, <3>4 DEF JobHolds
  <2>3. CASE x # r
    BY <1>1, <1>2, <1>3, <2>1, <2>3 DEF JobHolds, RequestSetPassword, Begin, users, links, sessions, TypeOK
  <2> QED BY <2>2, <2>3
<1>8. VerifiedIsProven'
  BY <1>1, <1>2, <1>3 DEF VerifiedIsProven, Known, LinksComplete, JobsHold, JobHolds, RequestSetPassword, Begin, users, links, sessions, TypeOK
<1> QED BY <1>4, <1>5, <1>6, <1>7, <1>8 DEF Shape

LEMMA SendInitialVerifyEmailShape ==
  ASSUME Shape, NEW r \in Requests, NEW t \in Tokens, SendInitialVerifyEmail(r, t)
  PROVE  Shape'
<1> USE EmailAssumption, IdleTyped
<1>1. TypeOK /\ Known /\ LinksComplete /\ JobsHold /\ VerifiedIsProven
  BY DEF Shape
<1> DEFINE h == Idle
<1>2. h \in Job /\ h.at = "idle"
  BY IdleTyped
<1>3. job' \in [Requests -> Job] /\ job'[r] = h /\ (\A x \in Requests : x # r => job'[x] = job[x])
  <2>1. job' = [job EXCEPT ![r] = h]
    BY DEF SendInitialVerifyEmail, Create, Finish, users, links, sessions
  <2> HIDE DEF h
  <2> QED BY <1>1, <1>2, <2>1 DEF TypeOK
<1> HIDE DEF h
<1>4. TypeOK'
  <2>0. job[r] \in Job
    BY <1>1 DEF TypeOK
  <2>1. owner' \in [Tokens -> Users \cup {None}]
    BY <1>1, <2>0 DEF TypeOK, Known, JobsHold, JobHolds, SendInitialVerifyEmail, Create, users, links, sessions, Job, Purposes
  <2>2. addr' \in [Tokens -> Emails \cup {None}]
    BY <1>1, <2>0 DEF TypeOK, Known, JobsHold, JobHolds, SendInitialVerifyEmail, Create, users, links, sessions, Job, Purposes
  <2>3. purpose' \in [Tokens -> Purposes \cup {None}]
    BY <1>1, <2>0 DEF TypeOK, Known, JobsHold, JobHolds, SendInitialVerifyEmail, Create, users, links, sessions, Job, Purposes
  <2>4. state' \in [Tokens -> {"none", "live", "expired", "consumed"}]
    BY <1>1, <2>0 DEF TypeOK, Known, JobsHold, JobHolds, SendInitialVerifyEmail, Create, users, links, sessions, Job, Purposes
  <2> QED BY <1>1, <1>2, <1>3, <2>1, <2>2, <2>3, <2>4 DEF TypeOK, SendInitialVerifyEmail, Create, users, links, sessions
<1>5. Known'
  BY <1>1, <1>2, <1>3 DEF Known, SendInitialVerifyEmail, Create, users, links, sessions, TypeOK
<1>6. LinksComplete'
  <2>1. job[r].user \in Users /\ job[r].addr \in Emails /\ job[r].purpose \in Purposes
    BY <1>1 DEF TypeOK, Known, JobsHold, JobHolds, SendInitialVerifyEmail, Create, users, links, sessions
  <2> SUFFICES ASSUME NEW x \in Tokens
               PROVE  /\ state'[x] # "none" => owner'[x] \in Users /\ addr'[x] \in Emails /\ purpose'[x] \in Purposes
                      /\ state'[x] = "none" => purpose'[x] = None
                      /\ state'[x] # "consumed" => uses'[x] = 0
    BY DEF LinksComplete
  <2>2. CASE x = t
    BY <1>1, <2>1, <2>2 DEF TypeOK, LinksComplete, SendInitialVerifyEmail, Create, users, links, sessions, Purposes
  <2>3. CASE x # t
    BY <1>1, <2>3 DEF TypeOK, LinksComplete, SendInitialVerifyEmail, Create, users, links, sessions
  <2> QED BY <2>2, <2>3
<1>7. JobsHold'
  <2> SUFFICES ASSUME NEW x \in Requests PROVE JobHolds(x)'
    BY DEF JobsHold
  <2>1. JobHolds(x) /\ JobHolds(r)
    BY <1>1 DEF JobsHold
  <2>2. CASE x = r
    BY <1>1, <1>2, <1>3, <2>1, <2>2 DEF JobHolds, SendInitialVerifyEmail, Create, users, links, sessions, TypeOK, LinksComplete, Purposes, VerifiedIsProven
  <2>3. CASE x # r
    BY <1>1, <1>2, <1>3, <2>1, <2>3 DEF JobHolds, SendInitialVerifyEmail, Create, users, links, sessions, TypeOK
  <2> QED BY <2>2, <2>3
<1>8. VerifiedIsProven'
  BY <1>1, <1>2, <1>3 DEF VerifiedIsProven, Known, LinksComplete, JobsHold, JobHolds, SendInitialVerifyEmail, Create, users, links, sessions, TypeOK
<1> QED BY <1>4, <1>5, <1>6, <1>7, <1>8 DEF Shape

LEMMA IssueTokenShape ==
  ASSUME Shape, NEW r \in Requests, NEW t \in Tokens, IssueToken(r, t)
  PROVE  Shape'
<1> USE EmailAssumption, IdleTyped
<1>1. TypeOK /\ Known /\ LinksComplete /\ JobsHold /\ VerifiedIsProven
  BY DEF Shape
<1> DEFINE h == Idle
<1>2. h \in Job /\ h.at = "idle"
  BY IdleTyped
<1>3. job' \in [Requests -> Job] /\ job'[r] = h /\ (\A x \in Requests : x # r => job'[x] = job[x])
  <2>1. job' = [job EXCEPT ![r] = h]
    BY DEF IssueToken, Create, Finish, Pending, users, links, sessions
  <2> HIDE DEF h
  <2> QED BY <1>1, <1>2, <2>1 DEF TypeOK
<1> HIDE DEF h
<1>4. TypeOK'
  <2>0. job[r] \in Job
    BY <1>1 DEF TypeOK
  <2>1. owner' \in [Tokens -> Users \cup {None}]
    BY <1>1, <2>0 DEF TypeOK, Known, JobsHold, JobHolds, IssueToken, Create, Pending, users, links, sessions, Job, Purposes
  <2>2. addr' \in [Tokens -> Emails \cup {None}]
    BY <1>1, <2>0 DEF TypeOK, Known, JobsHold, JobHolds, IssueToken, Create, Pending, users, links, sessions, Job, Purposes
  <2>3. purpose' \in [Tokens -> Purposes \cup {None}]
    BY <1>1, <2>0 DEF TypeOK, Known, JobsHold, JobHolds, IssueToken, Create, Pending, users, links, sessions, Job, Purposes
  <2>4. state' \in [Tokens -> {"none", "live", "expired", "consumed"}]
    BY <1>1, <2>0 DEF TypeOK, Known, JobsHold, JobHolds, IssueToken, Create, Pending, users, links, sessions, Job, Purposes
  <2> QED BY <1>1, <1>2, <1>3, <2>1, <2>2, <2>3, <2>4 DEF TypeOK, IssueToken, Create, Pending, users, links, sessions
<1>5. Known'
  BY <1>1, <1>2, <1>3 DEF Known, IssueToken, Create, Pending, users, links, sessions, TypeOK
<1>6. LinksComplete'
  <2>1. job[r].user \in Users /\ job[r].addr \in Emails /\ job[r].purpose \in Purposes
    BY <1>1 DEF TypeOK, Known, JobsHold, JobHolds, IssueToken, Create, Pending, users, links, sessions
  <2> SUFFICES ASSUME NEW x \in Tokens
               PROVE  /\ state'[x] # "none" => owner'[x] \in Users /\ addr'[x] \in Emails /\ purpose'[x] \in Purposes
                      /\ state'[x] = "none" => purpose'[x] = None
                      /\ state'[x] # "consumed" => uses'[x] = 0
    BY DEF LinksComplete
  <2>2. CASE x = t
    BY <1>1, <2>1, <2>2 DEF TypeOK, LinksComplete, IssueToken, Create, Pending, users, links, sessions, Purposes
  <2>3. CASE x # t
    BY <1>1, <2>3 DEF TypeOK, LinksComplete, IssueToken, Create, Pending, users, links, sessions
  <2> QED BY <2>2, <2>3
<1>7. JobsHold'
  <2> SUFFICES ASSUME NEW x \in Requests PROVE JobHolds(x)'
    BY DEF JobsHold
  <2>1. JobHolds(x) /\ JobHolds(r)
    BY <1>1 DEF JobsHold
  <2>2. CASE x = r
    BY <1>1, <1>2, <1>3, <2>1, <2>2 DEF JobHolds, IssueToken, Create, Pending, users, links, sessions, TypeOK, LinksComplete, Purposes, VerifiedIsProven
  <2>3. CASE x # r
    BY <1>1, <1>2, <1>3, <2>1, <2>3 DEF JobHolds, IssueToken, Create, Pending, users, links, sessions, TypeOK
  <2> QED BY <2>2, <2>3
<1>8. VerifiedIsProven'
  BY <1>1, <1>2, <1>3 DEF VerifiedIsProven, Known, LinksComplete, JobsHold, JobHolds, IssueToken, Create, Pending, users, links, sessions, TypeOK
<1> QED BY <1>4, <1>5, <1>6, <1>7, <1>8 DEF Shape

LEMMA OpenLinkShape ==
  ASSUME Shape, NEW r \in Requests, NEW t \in Tokens, OpenLink(r, t)
  PROVE  Shape'
<1> USE EmailAssumption, IdleTyped
<1>1. TypeOK /\ Known /\ LinksComplete /\ JobsHold /\ VerifiedIsProven
  BY DEF Shape
<1> DEFINE h == Held("use", owner[t], addr[t], purpose[t], t, FALSE)
<1>2. /\ h \in Job
      /\ h.at = "use"
      /\ h.user = owner[t]
      /\ h.addr = addr[t]
      /\ h.purpose = purpose[t]
      /\ h.token = t
  <2>1. job[r] \in Job
    BY <1>1 DEF TypeOK
  <2>2. "use" \in Stages
    BY <1>1, <2>1 DEF OpenLink, users, links, sessions, TypeOK, Known, LinksComplete, Stages, Purposes, Job
  <2>3. owner[t] \in Users \cup {None}
    BY <1>1, <2>1 DEF OpenLink, users, links, sessions, TypeOK, Known, LinksComplete, Stages, Purposes, Job
  <2>4. addr[t] \in Emails \cup {None}
    BY <1>1, <2>1 DEF OpenLink, users, links, sessions, TypeOK, Known, LinksComplete, Stages, Purposes, Job
  <2>5. purpose[t] \in Purposes \cup {None}
    BY <1>1, <2>1 DEF OpenLink, users, links, sessions, TypeOK, Known, LinksComplete, Stages, Purposes, Job
  <2>6. t \in Tokens \cup {None}
    BY <1>1, <2>1 DEF OpenLink, users, links, sessions, TypeOK, Known, LinksComplete, Stages, Purposes, Job
  <2>7. FALSE \in BOOLEAN
    BY <1>1, <2>1 DEF OpenLink, users, links, sessions, TypeOK, Known, LinksComplete, Stages, Purposes, Job
  <2> QED BY <2>2, <2>3, <2>4, <2>5, <2>6, <2>7 DEF Held, Job
<1>3. job' \in [Requests -> Job] /\ job'[r] = h /\ (\A x \in Requests : x # r => job'[x] = job[x])
  <2>1. job' = [job EXCEPT ![r] = h]
    BY DEF OpenLink, users, links, sessions
  <2> HIDE DEF h
  <2> QED BY <1>1, <1>2, <2>1 DEF TypeOK
<1> HIDE DEF h
<1>4. TypeOK'
  BY <1>1, <1>2, <1>3 DEF TypeOK, OpenLink, users, links, sessions
<1>5. Known'
  BY <1>1, <1>2, <1>3 DEF Known, OpenLink, users, links, sessions, TypeOK
<1>6. LinksComplete'
  BY <1>1, <1>2, <1>3 DEF LinksComplete, JobsHold, JobHolds, OpenLink, users, links, sessions, TypeOK
<1>7. JobsHold'
  <2> SUFFICES ASSUME NEW x \in Requests PROVE JobHolds(x)'
    BY DEF JobsHold
  <2>1. JobHolds(x) /\ JobHolds(r)
    BY <1>1 DEF JobsHold
  <2>2. CASE x = r
    BY <1>1, <1>2, <1>3, <2>1, <2>2 DEF JobHolds, OpenLink, users, links, sessions, TypeOK, LinksComplete, Purposes, VerifiedIsProven
  <2>3. CASE x # r
    BY <1>1, <1>2, <1>3, <2>1, <2>3 DEF JobHolds, OpenLink, users, links, sessions, TypeOK
  <2> QED BY <2>2, <2>3
<1>8. VerifiedIsProven'
  BY <1>1, <1>2, <1>3 DEF VerifiedIsProven, Known, LinksComplete, JobsHold, JobHolds, OpenLink, users, links, sessions, TypeOK
<1> QED BY <1>4, <1>5, <1>6, <1>7, <1>8 DEF Shape

LEMMA VerifyEmailShape ==
  ASSUME Shape, NEW r \in Requests, VerifyEmail(r)
  PROVE  Shape'
<1> USE EmailAssumption, IdleTyped
<1>1. TypeOK /\ Known /\ LinksComplete /\ JobsHold /\ VerifiedIsProven
  BY DEF Shape
<1> DEFINE h == Idle
<1>2. h \in Job /\ h.at = "idle"
  BY IdleTyped
<1>3. job' \in [Requests -> Job] /\ job'[r] = h /\ (\A x \in Requests : x # r => job'[x] = job[x])
  <2>1. job' = [job EXCEPT ![r] = h]
    BY DEF VerifyEmail, Consume, Finish, users, links, sessions
  <2> HIDE DEF h
  <2> QED BY <1>1, <1>2, <2>1 DEF TypeOK
<1> HIDE DEF h
<1>4. TypeOK'
  <2>0. job[r] \in Job
    BY <1>1 DEF TypeOK
  <2> DEFINE k == job[r].token
  <2>a. k \in Tokens /\ state[k] # "none"
    BY <1>1 DEF JobsHold, JobHolds, VerifyEmail, Consume, users, links, sessions
  <2>b. uses[k] \in Nat /\ owner[k] \in Users /\ addr[k] \in Emails
    BY <1>1, <2>a DEF TypeOK, LinksComplete
  <2>1. state' \in [Tokens -> {"none", "live", "expired", "consumed"}]
    BY <1>1, <2>0 DEF TypeOK, Known, JobsHold, JobHolds, VerifyEmail, Consume, users, links, sessions, Job, Purposes
  <2>2. uses' \in [Tokens -> Nat]
    <3>1. uses' = [uses EXCEPT ![k] = uses[k] + 1]
      BY DEF VerifyEmail, Consume, users, links, sessions
    <3>2. uses \in [Tokens -> Nat] /\ uses[k] + 1 \in Nat
      BY <1>1, <2>b DEF TypeOK
    <3> HIDE DEF k
    <3> QED BY <3>1, <3>2, <2>a
  <2>3. email' \in [Users -> Emails \cup {None}]
    BY <1>1, <2>0 DEF TypeOK, Known, JobsHold, JobHolds, VerifyEmail, Consume, users, links, sessions, Job, Purposes
  <2>4. verified' \in [Users -> BOOLEAN]
    BY <1>1, <2>0 DEF TypeOK, Known, JobsHold, JobHolds, VerifyEmail, Consume, users, links, sessions, Job, Purposes
  <2>5. proven' \subseteq Users \X Emails
    <3>1. proven' = proven \cup {<<owner[k], addr[k]>>}
      BY DEF VerifyEmail, Consume, users, links, sessions
    <3> QED BY <1>1, <2>b, <3>1 DEF TypeOK
  <2> QED BY <1>1, <1>2, <1>3, <2>1, <2>2, <2>3, <2>4, <2>5 DEF TypeOK, VerifyEmail, Consume, users, links, sessions
<1>5. Known'
  BY <1>1, <1>2, <1>3 DEF Known, VerifyEmail, Consume, users, links, sessions, TypeOK
<1>6. LinksComplete'
  BY <1>1, <1>2, <1>3 DEF LinksComplete, JobsHold, JobHolds, VerifyEmail, Consume, users, links, sessions, TypeOK
<1>7. JobsHold'
  <2> SUFFICES ASSUME NEW x \in Requests PROVE JobHolds(x)'
    BY DEF JobsHold
  <2>1. JobHolds(x) /\ JobHolds(r)
    BY <1>1 DEF JobsHold
  <2>2. CASE x = r
    BY <1>1, <1>2, <1>3, <2>1, <2>2 DEF JobHolds, VerifyEmail, Consume, users, links, sessions, TypeOK, LinksComplete, Purposes, VerifiedIsProven
  <2>3. CASE x # r
    BY <1>1, <1>2, <1>3, <2>1, <2>3 DEF JobHolds, VerifyEmail, Consume, users, links, sessions, TypeOK
  <2> QED BY <2>2, <2>3
<1>8. VerifiedIsProven'
  BY <1>1, <1>2, <1>3 DEF VerifiedIsProven, Known, LinksComplete, JobsHold, JobHolds, VerifyEmail, Consume, users, links, sessions, TypeOK
<1> QED BY <1>4, <1>5, <1>6, <1>7, <1>8 DEF Shape

LEMMA ResetPasswordShape ==
  ASSUME Shape, NEW r \in Requests, ResetPassword(r)
  PROVE  Shape'
<1> USE EmailAssumption, IdleTyped
<1>1. TypeOK /\ Known /\ LinksComplete /\ JobsHold /\ VerifiedIsProven
  BY DEF Shape
<1> DEFINE h == Held("revoke", job[r].user, None, None, None, FALSE)
<1>2. /\ h \in Job
      /\ h.at = "revoke"
      /\ h.user = job[r].user
      /\ h.addr = None
      /\ h.purpose = None
      /\ h.token = None
  <2>1. job[r] \in Job
    BY <1>1 DEF TypeOK
  <2>2. "revoke" \in Stages
    BY <1>1, <2>1 DEF ResetPassword, NewPassword, Consume, users, links, sessions, TypeOK, Known, LinksComplete, Stages, Purposes, Job
  <2>3. job[r].user \in Users \cup {None}
    BY <1>1, <2>1 DEF ResetPassword, NewPassword, Consume, users, links, sessions, TypeOK, Known, LinksComplete, Stages, Purposes, Job
  <2>4. None \in Emails \cup {None}
    BY <1>1, <2>1 DEF ResetPassword, NewPassword, Consume, users, links, sessions, TypeOK, Known, LinksComplete, Stages, Purposes, Job
  <2>5. None \in Purposes \cup {None}
    BY <1>1, <2>1 DEF ResetPassword, NewPassword, Consume, users, links, sessions, TypeOK, Known, LinksComplete, Stages, Purposes, Job
  <2>6. None \in Tokens \cup {None}
    BY <1>1, <2>1 DEF ResetPassword, NewPassword, Consume, users, links, sessions, TypeOK, Known, LinksComplete, Stages, Purposes, Job
  <2>7. FALSE \in BOOLEAN
    BY <1>1, <2>1 DEF ResetPassword, NewPassword, Consume, users, links, sessions, TypeOK, Known, LinksComplete, Stages, Purposes, Job
  <2> QED BY <2>2, <2>3, <2>4, <2>5, <2>6, <2>7 DEF Held, Job
<1>3. job' \in [Requests -> Job] /\ job'[r] = h /\ (\A x \in Requests : x # r => job'[x] = job[x])
  <2>1. job' = [job EXCEPT ![r] = h]
    BY DEF ResetPassword, NewPassword, Consume, users, links, sessions
  <2> HIDE DEF h
  <2> QED BY <1>1, <1>2, <2>1 DEF TypeOK
<1> HIDE DEF h
<1>4. TypeOK'
  <2>0. job[r] \in Job
    BY <1>1 DEF TypeOK
  <2> DEFINE k == job[r].token
  <2>a. k \in Tokens /\ state[k] # "none"
    BY <1>1 DEF JobsHold, JobHolds, ResetPassword, NewPassword, Consume, users, links, sessions
  <2>b. uses[k] \in Nat /\ owner[k] \in Users /\ addr[k] \in Emails
    BY <1>1, <2>a DEF TypeOK, LinksComplete
  <2>1. state' \in [Tokens -> {"none", "live", "expired", "consumed"}]
    BY <1>1, <2>0 DEF TypeOK, Known, JobsHold, JobHolds, ResetPassword, NewPassword, Consume, users, links, sessions, Job, Purposes
  <2>2. uses' \in [Tokens -> Nat]
    <3>1. uses' = [uses EXCEPT ![k] = uses[k] + 1]
      BY DEF ResetPassword, NewPassword, Consume, users, links, sessions
    <3>2. uses \in [Tokens -> Nat] /\ uses[k] + 1 \in Nat
      BY <1>1, <2>b DEF TypeOK
    <3> HIDE DEF k
    <3> QED BY <3>1, <3>2, <2>a
  <2>3. password' \in [Users -> Nat]
    BY <1>1, <2>0 DEF TypeOK, Known, JobsHold, JobHolds, ResetPassword, NewPassword, Consume, users, links, sessions, Job, Purposes
  <2> QED BY <1>1, <1>2, <1>3, <2>1, <2>2, <2>3 DEF TypeOK, ResetPassword, NewPassword, Consume, users, links, sessions
<1>5. Known'
  BY <1>1, <1>2, <1>3 DEF Known, ResetPassword, NewPassword, Consume, users, links, sessions, TypeOK
<1>6. LinksComplete'
  BY <1>1, <1>2, <1>3 DEF LinksComplete, JobsHold, JobHolds, ResetPassword, NewPassword, Consume, users, links, sessions, TypeOK
<1>7. JobsHold'
  <2> SUFFICES ASSUME NEW x \in Requests PROVE JobHolds(x)'
    BY DEF JobsHold
  <2>1. JobHolds(x) /\ JobHolds(r)
    BY <1>1 DEF JobsHold
  <2>2. CASE x = r
    BY <1>1, <1>2, <1>3, <2>1, <2>2 DEF JobHolds, ResetPassword, NewPassword, Consume, users, links, sessions, TypeOK, LinksComplete, Purposes, VerifiedIsProven
  <2>3. CASE x # r
    BY <1>1, <1>2, <1>3, <2>1, <2>3 DEF JobHolds, ResetPassword, NewPassword, Consume, users, links, sessions, TypeOK
  <2> QED BY <2>2, <2>3
<1>8. VerifiedIsProven'
  BY <1>1, <1>2, <1>3 DEF VerifiedIsProven, Known, LinksComplete, JobsHold, JobHolds, ResetPassword, NewPassword, Consume, users, links, sessions, TypeOK
<1> QED BY <1>4, <1>5, <1>6, <1>7, <1>8 DEF Shape

LEMMA SetPasswordShape ==
  ASSUME Shape, NEW r \in Requests, SetPassword(r)
  PROVE  Shape'
<1> USE EmailAssumption, IdleTyped
<1>1. TypeOK /\ Known /\ LinksComplete /\ JobsHold /\ VerifiedIsProven
  BY DEF Shape
<1> DEFINE h == Held("revoke", job[r].user, None, None, None, FALSE)
<1>2. /\ h \in Job
      /\ h.at = "revoke"
      /\ h.user = job[r].user
      /\ h.addr = None
      /\ h.purpose = None
      /\ h.token = None
  <2>1. job[r] \in Job
    BY <1>1 DEF TypeOK
  <2>2. "revoke" \in Stages
    BY <1>1, <2>1 DEF SetPassword, NewPassword, Consume, users, links, sessions, TypeOK, Known, LinksComplete, Stages, Purposes, Job
  <2>3. job[r].user \in Users \cup {None}
    BY <1>1, <2>1 DEF SetPassword, NewPassword, Consume, users, links, sessions, TypeOK, Known, LinksComplete, Stages, Purposes, Job
  <2>4. None \in Emails \cup {None}
    BY <1>1, <2>1 DEF SetPassword, NewPassword, Consume, users, links, sessions, TypeOK, Known, LinksComplete, Stages, Purposes, Job
  <2>5. None \in Purposes \cup {None}
    BY <1>1, <2>1 DEF SetPassword, NewPassword, Consume, users, links, sessions, TypeOK, Known, LinksComplete, Stages, Purposes, Job
  <2>6. None \in Tokens \cup {None}
    BY <1>1, <2>1 DEF SetPassword, NewPassword, Consume, users, links, sessions, TypeOK, Known, LinksComplete, Stages, Purposes, Job
  <2>7. FALSE \in BOOLEAN
    BY <1>1, <2>1 DEF SetPassword, NewPassword, Consume, users, links, sessions, TypeOK, Known, LinksComplete, Stages, Purposes, Job
  <2> QED BY <2>2, <2>3, <2>4, <2>5, <2>6, <2>7 DEF Held, Job
<1>3. job' \in [Requests -> Job] /\ job'[r] = h /\ (\A x \in Requests : x # r => job'[x] = job[x])
  <2>1. job' = [job EXCEPT ![r] = h]
    BY DEF SetPassword, NewPassword, Consume, users, links, sessions
  <2> HIDE DEF h
  <2> QED BY <1>1, <1>2, <2>1 DEF TypeOK
<1> HIDE DEF h
<1>4. TypeOK'
  <2>0. job[r] \in Job
    BY <1>1 DEF TypeOK
  <2> DEFINE k == job[r].token
  <2>a. k \in Tokens /\ state[k] # "none"
    BY <1>1 DEF JobsHold, JobHolds, SetPassword, NewPassword, Consume, users, links, sessions
  <2>b. uses[k] \in Nat /\ owner[k] \in Users /\ addr[k] \in Emails
    BY <1>1, <2>a DEF TypeOK, LinksComplete
  <2>1. state' \in [Tokens -> {"none", "live", "expired", "consumed"}]
    BY <1>1, <2>0 DEF TypeOK, Known, JobsHold, JobHolds, SetPassword, NewPassword, Consume, users, links, sessions, Job, Purposes
  <2>2. uses' \in [Tokens -> Nat]
    <3>1. uses' = [uses EXCEPT ![k] = uses[k] + 1]
      BY DEF SetPassword, NewPassword, Consume, users, links, sessions
    <3>2. uses \in [Tokens -> Nat] /\ uses[k] + 1 \in Nat
      BY <1>1, <2>b DEF TypeOK
    <3> HIDE DEF k
    <3> QED BY <3>1, <3>2, <2>a
  <2>3. password' \in [Users -> Nat]
    BY <1>1, <2>0 DEF TypeOK, Known, JobsHold, JobHolds, SetPassword, NewPassword, Consume, users, links, sessions, Job, Purposes
  <2>4. loginOn' \in [Users -> BOOLEAN]
    BY <1>1, <2>0 DEF TypeOK, Known, JobsHold, JobHolds, SetPassword, NewPassword, Consume, users, links, sessions, Job, Purposes
  <2> QED BY <1>1, <1>2, <1>3, <2>1, <2>2, <2>3, <2>4 DEF TypeOK, SetPassword, NewPassword, Consume, users, links, sessions
<1>5. Known'
  BY <1>1, <1>2, <1>3 DEF Known, SetPassword, NewPassword, Consume, users, links, sessions, TypeOK
<1>6. LinksComplete'
  BY <1>1, <1>2, <1>3 DEF LinksComplete, JobsHold, JobHolds, SetPassword, NewPassword, Consume, users, links, sessions, TypeOK
<1>7. JobsHold'
  <2> SUFFICES ASSUME NEW x \in Requests PROVE JobHolds(x)'
    BY DEF JobsHold
  <2>1. JobHolds(x) /\ JobHolds(r)
    BY <1>1 DEF JobsHold
  <2>2. CASE x = r
    BY <1>1, <1>2, <1>3, <2>1, <2>2 DEF JobHolds, SetPassword, NewPassword, Consume, users, links, sessions, TypeOK, LinksComplete, Purposes, VerifiedIsProven
  <2>3. CASE x # r
    BY <1>1, <1>2, <1>3, <2>1, <2>3 DEF JobHolds, SetPassword, NewPassword, Consume, users, links, sessions, TypeOK
  <2> QED BY <2>2, <2>3
<1>8. VerifiedIsProven'
  BY <1>1, <1>2, <1>3 DEF VerifiedIsProven, Known, LinksComplete, JobsHold, JobHolds, SetPassword, NewPassword, Consume, users, links, sessions, TypeOK
<1> QED BY <1>4, <1>5, <1>6, <1>7, <1>8 DEF Shape

LEMMA RevokeSessionsForUserShape ==
  ASSUME Shape, NEW r \in Requests, RevokeSessionsForUser(r)
  PROVE  Shape'
<1> USE EmailAssumption, IdleTyped
<1>1. TypeOK /\ Known /\ LinksComplete /\ JobsHold /\ VerifiedIsProven
  BY DEF Shape
<1> DEFINE h == Idle
<1>2. h \in Job /\ h.at = "idle"
  BY IdleTyped
<1>3. job' \in [Requests -> Job] /\ job'[r] = h /\ (\A x \in Requests : x # r => job'[x] = job[x])
  <2>1. job' = [job EXCEPT ![r] = h]
    BY DEF RevokeSessionsForUser, Finish, users, links, sessions
  <2> HIDE DEF h
  <2> QED BY <1>1, <1>2, <2>1 DEF TypeOK
<1> HIDE DEF h
<1>4. TypeOK'
  <2>0. job[r] \in Job
    BY <1>1 DEF TypeOK
  <2>1. session' \in [Sessions -> Users \cup {None}]
    BY <1>1, <2>0 DEF TypeOK, Known, JobsHold, JobHolds, RevokeSessionsForUser, users, links, sessions, Job, Purposes
  <2>2. born' \in [Sessions -> Nat]
    BY <1>1, <2>0 DEF TypeOK, Known, JobsHold, JobHolds, RevokeSessionsForUser, users, links, sessions, Job, Purposes
  <2>3. unrevoked' \subseteq Users
    BY <1>1, <2>0 DEF TypeOK, Known, JobsHold, JobHolds, RevokeSessionsForUser, users, links, sessions, Job, Purposes
  <2> QED BY <1>1, <1>2, <1>3, <2>1, <2>2, <2>3 DEF TypeOK, RevokeSessionsForUser, users, links, sessions
<1>5. Known'
  BY <1>1, <1>2, <1>3 DEF Known, RevokeSessionsForUser, users, links, sessions, TypeOK
<1>6. LinksComplete'
  BY <1>1, <1>2, <1>3 DEF LinksComplete, JobsHold, JobHolds, RevokeSessionsForUser, users, links, sessions, TypeOK
<1>7. JobsHold'
  <2> SUFFICES ASSUME NEW x \in Requests PROVE JobHolds(x)'
    BY DEF JobsHold
  <2>1. JobHolds(x) /\ JobHolds(r)
    BY <1>1 DEF JobsHold
  <2>2. CASE x = r
    BY <1>1, <1>2, <1>3, <2>1, <2>2 DEF JobHolds, RevokeSessionsForUser, users, links, sessions, TypeOK, LinksComplete, Purposes, VerifiedIsProven
  <2>3. CASE x # r
    BY <1>1, <1>2, <1>3, <2>1, <2>3 DEF JobHolds, RevokeSessionsForUser, users, links, sessions, TypeOK
  <2> QED BY <2>2, <2>3
<1>8. VerifiedIsProven'
  BY <1>1, <1>2, <1>3 DEF VerifiedIsProven, Known, LinksComplete, JobsHold, JobHolds, RevokeSessionsForUser, users, links, sessions, TypeOK
<1> QED BY <1>4, <1>5, <1>6, <1>7, <1>8 DEF Shape

LEMMA ExpireShape ==
  ASSUME Shape, NEW t \in Tokens, Expire(t)
  PROVE  Shape'
<1> USE EmailAssumption, IdleTyped
<1>1. TypeOK /\ Known /\ LinksComplete /\ JobsHold /\ VerifiedIsProven
  BY DEF Shape
<1>4. TypeOK'
  <2>1. state' \in [Tokens -> {"none", "live", "expired", "consumed"}]
    BY <1>1 DEF TypeOK, Known, JobsHold, JobHolds, Expire, users, links, sessions, Job, Purposes
  <2> QED BY <1>1, <2>1 DEF TypeOK, Expire, users, links, sessions
<1>5. Known'
  BY <1>1 DEF Known, Expire, users, links, sessions, TypeOK
<1>6. LinksComplete'
  BY <1>1 DEF LinksComplete, JobsHold, JobHolds, Expire, users, links, sessions, TypeOK
<1>7. JobsHold'
  BY <1>1 DEF JobsHold, JobHolds, Expire, users, links, sessions, TypeOK
<1>8. VerifiedIsProven'
  BY <1>1 DEF VerifiedIsProven, Known, LinksComplete, JobsHold, JobHolds, Expire, users, links, sessions, TypeOK
<1> QED BY <1>4, <1>5, <1>6, <1>7, <1>8 DEF Shape

LEMMA FailShape ==
  ASSUME Shape, NEW r \in Requests, Fail(r)
  PROVE  Shape'
<1> USE EmailAssumption, IdleTyped
<1>1. TypeOK /\ Known /\ LinksComplete /\ JobsHold /\ VerifiedIsProven
  BY DEF Shape
<1> DEFINE h == Idle
<1>2. h \in Job /\ h.at = "idle"
  BY IdleTyped
<1>3. job' \in [Requests -> Job] /\ job'[r] = h /\ (\A x \in Requests : x # r => job'[x] = job[x])
  <2>1. job' = [job EXCEPT ![r] = h]
    BY DEF Fail, Finish, users, links, sessions
  <2> HIDE DEF h
  <2> QED BY <1>1, <1>2, <2>1 DEF TypeOK
<1> HIDE DEF h
<1>4. TypeOK'
  <2>0. job[r] \in Job
    BY <1>1 DEF TypeOK
  <2>1. unrevoked' \subseteq Users
    BY <1>1, <2>0 DEF TypeOK, Known, JobsHold, JobHolds, Fail, users, links, sessions, Job, Purposes
  <2> QED BY <1>1, <1>2, <1>3, <2>1 DEF TypeOK, Fail, users, links, sessions
<1>5. Known'
  BY <1>1, <1>2, <1>3 DEF Known, Fail, users, links, sessions, TypeOK
<1>6. LinksComplete'
  BY <1>1, <1>2, <1>3 DEF LinksComplete, JobsHold, JobHolds, Fail, users, links, sessions, TypeOK
<1>7. JobsHold'
  <2> SUFFICES ASSUME NEW x \in Requests PROVE JobHolds(x)'
    BY DEF JobsHold
  <2>1. JobHolds(x) /\ JobHolds(r)
    BY <1>1 DEF JobsHold
  <2>2. CASE x = r
    BY <1>1, <1>2, <1>3, <2>1, <2>2 DEF JobHolds, Fail, users, links, sessions, TypeOK, LinksComplete, Purposes, VerifiedIsProven
  <2>3. CASE x # r
    BY <1>1, <1>2, <1>3, <2>1, <2>3 DEF JobHolds, Fail, users, links, sessions, TypeOK
  <2> QED BY <2>2, <2>3
<1>8. VerifiedIsProven'
  BY <1>1, <1>2, <1>3 DEF VerifiedIsProven, Known, LinksComplete, JobsHold, JobHolds, Fail, users, links, sessions, TypeOK
<1> QED BY <1>4, <1>5, <1>6, <1>7, <1>8 DEF Shape

LEMMA ShapeNext == Shape /\ [Next]_vars => Shape'
<1> SUFFICES ASSUME Shape, [Next]_vars PROVE Shape'
  OBVIOUS
<1>1. CASE \E u \in Users, s \in Sessions : SignIn(u, s)
  BY <1>1, SignInShape
<1>2. CASE \E s \in Sessions : EndSession(s)
  BY <1>2, EndSessionShape
<1>3. CASE \E r \in Requests, u \in Users, e \in Emails : EmailSignup(r, u, e)
  BY <1>3, EmailSignupShape
<1>4. CASE \E r \in Requests, u \in Users : EmailLogin(r, u)
  BY <1>4, EmailLoginShape
<1>5. CASE \E r \in Requests, u \in Users, on \in BOOLEAN : PutMyEmailLoginEnabled(r, u, on)
  BY <1>5, PutMyEmailLoginEnabledShape
<1>6. CASE \E r \in Requests, u \in Users : UnbindEmail(r, u)
  BY <1>6, UnbindEmailShape
<1>7. CASE \E r \in Requests, s \in Sessions : CreateUserSession(r, s)
  BY <1>7, CreateUserSessionShape
<1>8. CASE \E r \in Requests : Toggle(r)
  BY <1>8, ToggleShape
<1>9. CASE \E r \in Requests : Unbind(r)
  BY <1>9, UnbindShape
<1>10. CASE \E r \in Requests, u \in Users, e \in Emails : BindEmail(r, u, e)
  BY <1>10, BindEmailShape
<1>11. CASE \E r \in Requests, u \in Users : ResendUnverifiedSignupEmail(r, u)
  BY <1>11, ResendShape
<1>12. CASE \E r \in Requests, u \in Users : ForgotPassword(r, u)
  BY <1>12, ForgotPasswordShape
<1>13. CASE \E r \in Requests, u \in Users : RequestSetPassword(r, u)
  BY <1>13, RequestSetPasswordShape
<1>14. CASE \E r \in Requests, t \in Tokens : SendInitialVerifyEmail(r, t)
  BY <1>14, SendInitialVerifyEmailShape
<1>15. CASE \E r \in Requests, t \in Tokens : IssueToken(r, t)
  BY <1>15, IssueTokenShape
<1>16. CASE \E r \in Requests, t \in Tokens : OpenLink(r, t)
  BY <1>16, OpenLinkShape
<1>17. CASE \E r \in Requests : VerifyEmail(r)
  BY <1>17, VerifyEmailShape
<1>18. CASE \E r \in Requests : ResetPassword(r)
  BY <1>18, ResetPasswordShape
<1>19. CASE \E r \in Requests : SetPassword(r)
  BY <1>19, SetPasswordShape
<1>20. CASE \E r \in Requests : RevokeSessionsForUser(r)
  BY <1>20, RevokeSessionsForUserShape
<1>21. CASE \E t \in Tokens : Expire(t)
  BY <1>21, ExpireShape
<1>22. CASE \E r \in Requests : Fail(r)
  BY <1>22, FailShape
<1>23. CASE UNCHANGED vars
  BY <1>23 DEF vars, users, links, sessions, Shape, TypeOK, Known, LinksComplete, JobsHold, JobHolds, VerifiedIsProven
<1>24. Steps \/ UNCHANGED vars
  BY NextIsSteps
<1> QED BY <1>1, <1>2, <1>3, <1>4, <1>5, <1>6, <1>7, <1>8, <1>9, <1>10, <1>11, <1>12, <1>13, <1>14, <1>15, <1>16, <1>17, <1>18, <1>19, <1>20, <1>21, <1>22, <1>23, <1>24 DEF Steps

LEMMA ShapeAlways == Spec => []Shape
BY InitShape, ShapeNext, PTL DEF Spec

\* Every variable keeps its type, for any accounts, links, sessions and requests.
THEOREM TypeOKHolds == Spec => []TypeOK
<1>1. Shape => TypeOK
  BY DEF Shape
<1> QED BY <1>1, ShapeAlways, PTL

\* An account's verified address was proven by a link of its own mailed to that
\* address, or by its provider, however many accounts ask for the same address.
THEOREM VerifiedIsProvenHolds == Spec => []VerifiedIsProven
<1>1. Shape => VerifiedIsProven
  BY DEF Shape
<1> QED BY <1>1, ShapeAlways, PTL

-----------------------------------------------------------------------------
(* What the steps change.                                                  *)

\* Only the three transactions that use a link consume one, and the link is the
\* one that the request has read.
Using(r) == VerifyEmail(r) \/ ResetPassword(r) \/ SetPassword(r)

LEMMA UsingConsumes ==
  ASSUME Shape, NEW r \in Requests, Using(r)
  PROVE  /\ job[r].token \in Tokens
         /\ Consume(job[r].token)
         /\ purpose[job[r].token] = job[r].purpose
         /\ owner[job[r].token] = job[r].user
         /\ job[r].at = "use"
BY DEF Shape, Using, VerifyEmail, ResetPassword, SetPassword, NewPassword, JobsHold, JobHolds

LEMMA LinkSteps ==
  ASSUME Steps
  PROVE  \/ UNCHANGED links
         \/ \E r \in Requests, t \in Tokens : SendInitialVerifyEmail(r, t)
         \/ \E r \in Requests, t \in Tokens : IssueToken(r, t)
         \/ \E r \in Requests : Using(r)
         \/ \E r \in Requests : Unbind(r)
         \/ \E t \in Tokens : Expire(t)
<1>1. CASE \E u \in Users, s \in Sessions : SignIn(u, s)
  BY <1>1 DEF SignIn, NewSession
<1>2. CASE \E s \in Sessions : EndSession(s)
  BY <1>2 DEF EndSession
<1>3. CASE \E r \in Requests, u \in Users, e \in Emails : EmailSignup(r, u, e)
  BY <1>3 DEF EmailSignup
<1>4. CASE \E r \in Requests, u \in Users : EmailLogin(r, u)
  BY <1>4 DEF EmailLogin, Begin
<1>5. CASE \E r \in Requests, u \in Users, on \in BOOLEAN : PutMyEmailLoginEnabled(r, u, on)
  BY <1>5 DEF PutMyEmailLoginEnabled
<1>6. CASE \E r \in Requests, u \in Users : UnbindEmail(r, u)
  BY <1>6 DEF UnbindEmail, Begin
<1>7. CASE \E r \in Requests, s \in Sessions : CreateUserSession(r, s)
  BY <1>7 DEF CreateUserSession, NewSession
<1>8. CASE \E r \in Requests : Toggle(r)
  BY <1>8 DEF Toggle
<1>9. CASE \E r \in Requests : Unbind(r)
  BY <1>9
<1>10. CASE \E r \in Requests, u \in Users, e \in Emails : BindEmail(r, u, e)
  BY <1>10 DEF BindEmail, Begin
<1>11. CASE \E r \in Requests, u \in Users : ResendUnverifiedSignupEmail(r, u)
  BY <1>11 DEF ResendUnverifiedSignupEmail, Begin
<1>12. CASE \E r \in Requests, u \in Users : ForgotPassword(r, u)
  BY <1>12 DEF ForgotPassword, Begin
<1>13. CASE \E r \in Requests, u \in Users : RequestSetPassword(r, u)
  BY <1>13 DEF RequestSetPassword, Begin
<1>14. CASE \E r \in Requests, t \in Tokens : SendInitialVerifyEmail(r, t)
  BY <1>14
<1>15. CASE \E r \in Requests, t \in Tokens : IssueToken(r, t)
  BY <1>15
<1>16. CASE \E r \in Requests, t \in Tokens : OpenLink(r, t)
  BY <1>16 DEF OpenLink
<1>17. CASE \E r \in Requests : VerifyEmail(r)
  BY <1>17 DEF Using
<1>18. CASE \E r \in Requests : ResetPassword(r)
  BY <1>18 DEF Using
<1>19. CASE \E r \in Requests : SetPassword(r)
  BY <1>19 DEF Using
<1>20. CASE \E r \in Requests : RevokeSessionsForUser(r)
  BY <1>20 DEF RevokeSessionsForUser
<1>21. CASE \E t \in Tokens : Expire(t)
  BY <1>21
<1>22. CASE \E r \in Requests : Fail(r)
  BY <1>22 DEF Fail
<1> QED BY <1>1, <1>2, <1>3, <1>4, <1>5, <1>6, <1>7, <1>8, <1>9, <1>10, <1>11, <1>12, <1>13, <1>14, <1>15, <1>16, <1>17, <1>18, <1>19, <1>20, <1>21, <1>22 DEF Steps

-----------------------------------------------------------------------------
(* Links.                                                                  *)

LEMMA TokenUsedOnceNext == Shape /\ TokenUsedOnce /\ [Next]_vars => TokenUsedOnce'
<1> SUFFICES ASSUME Shape, TokenUsedOnce, [Next]_vars PROVE TokenUsedOnce'
  OBVIOUS
<1> USE DEF Shape
<1>1. CASE UNCHANGED links
  BY <1>1 DEF links, TokenUsedOnce
<1>2. CASE \E r \in Requests, t \in Tokens : SendInitialVerifyEmail(r, t)
  BY <1>2 DEF SendInitialVerifyEmail, Create, TokenUsedOnce
<1>3. CASE \E r \in Requests, t \in Tokens : IssueToken(r, t)
  BY <1>3 DEF IssueToken, Create, TokenUsedOnce
<1>4. CASE \E r \in Requests : Using(r)
  <2> PICK r \in Requests : Using(r)
    BY <1>4
  <2>1. job[r].token \in Tokens /\ Consume(job[r].token)
    BY UsingConsumes
  <2> DEFINE k == job[r].token
  <2>2. uses[k] = 0 /\ uses' = [uses EXCEPT ![k] = uses[k] + 1]
    BY <2>1 DEF Consume, LinksComplete
  <2> HIDE DEF k
  <2> QED BY <2>1, <2>2 DEF TokenUsedOnce, TypeOK, k
<1>5. CASE \E r \in Requests : Unbind(r)
  BY <1>5 DEF Unbind, TokenUsedOnce
<1>6. CASE \E t \in Tokens : Expire(t)
  BY <1>6 DEF Expire, TokenUsedOnce
<1>7. Steps \/ UNCHANGED vars
  BY NextIsSteps
<1>8. UNCHANGED vars => UNCHANGED links
  BY DEF vars, links
<1> QED BY <1>1, <1>2, <1>3, <1>4, <1>5, <1>6, <1>7, <1>8, LinkSteps

\* A link takes effect at most once, for any number of requests that open it.
THEOREM TokenUsedOnceHolds == Spec => []TokenUsedOnce
<1>1. Init => TokenUsedOnce
  BY DEF Init, TokenUsedOnce
<1> QED BY <1>1, TokenUsedOnceNext, ShapeAlways, PTL DEF Spec

LEMMA OnePasswordLinkNext == Shape /\ OnePasswordLink /\ [Next]_vars => OnePasswordLink'
<1> SUFFICES ASSUME Shape, OnePasswordLink, [Next]_vars PROVE OnePasswordLink'
  OBVIOUS
<1> USE DEF Shape
<1>1. CASE UNCHANGED links
  BY <1>1 DEF links, OnePasswordLink
<1>2. CASE \E r \in Requests, t \in Tokens : SendInitialVerifyEmail(r, t)
  BY <1>2 DEF SendInitialVerifyEmail, Create, OnePasswordLink, TypeOK
<1>3. CASE \E r \in Requests, t \in Tokens : IssueToken(r, t)
  BY <1>3 DEF IssueToken, Create, Pending, OnePasswordLink, TypeOK
<1>4. CASE \E r \in Requests : Using(r)
  <2> PICK r \in Requests : Using(r)
    BY <1>4
  <2>1. job[r].token \in Tokens /\ Consume(job[r].token)
    BY UsingConsumes
  <2>2. UNCHANGED <<owner, purpose>> /\ \A t \in Tokens : state'[t] = "live" => state[t] = "live"
    BY <2>1 DEF Consume, TypeOK
  <2> QED BY <2>2 DEF OnePasswordLink
<1>5. CASE \E r \in Requests : Unbind(r)
  BY <1>5 DEF Unbind, OnePasswordLink, TypeOK
<1>6. CASE \E t \in Tokens : Expire(t)
  BY <1>6 DEF Expire, OnePasswordLink, TypeOK
<1>7. Steps \/ UNCHANGED vars
  BY NextIsSteps
<1>8. UNCHANGED vars => UNCHANGED links
  BY DEF vars, links
<1> QED BY <1>1, <1>2, <1>3, <1>4, <1>5, <1>6, <1>7, <1>8, LinkSteps

\* An account never has two live links to change its password, however its requests
\* for one overlap.
THEOREM OnePasswordLinkHolds == Spec => []OnePasswordLink
<1>1. Init => OnePasswordLink
  BY DEF Init, OnePasswordLink
<1> QED BY <1>1, OnePasswordLinkNext, ShapeAlways, PTL DEF Spec

LEMMA ProvenGrows == ASSUME Steps PROVE proven \subseteq proven'
<1>1. CASE \E u \in Users, s \in Sessions : SignIn(u, s)
  BY <1>1 DEF SignIn, NewSession, users
<1>2. CASE \E s \in Sessions : EndSession(s)
  BY <1>2 DEF EndSession, users
<1>3. CASE \E r \in Requests, u \in Users, e \in Emails : EmailSignup(r, u, e)
  BY <1>3 DEF EmailSignup, users
<1>4. CASE \E r \in Requests, u \in Users : EmailLogin(r, u)
  BY <1>4 DEF EmailLogin, Begin, users
<1>5. CASE \E r \in Requests, u \in Users, on \in BOOLEAN : PutMyEmailLoginEnabled(r, u, on)
  BY <1>5 DEF PutMyEmailLoginEnabled, users
<1>6. CASE \E r \in Requests, u \in Users : UnbindEmail(r, u)
  BY <1>6 DEF UnbindEmail, Begin, users
<1>7. CASE \E r \in Requests, s \in Sessions : CreateUserSession(r, s)
  BY <1>7 DEF CreateUserSession, NewSession, users
<1>8. CASE \E r \in Requests : Toggle(r)
  BY <1>8 DEF Toggle, users
<1>9. CASE \E r \in Requests : Unbind(r)
  BY <1>9 DEF Unbind, users
<1>10. CASE \E r \in Requests, u \in Users, e \in Emails : BindEmail(r, u, e)
  BY <1>10 DEF BindEmail, Begin, users
<1>11. CASE \E r \in Requests, u \in Users : ResendUnverifiedSignupEmail(r, u)
  BY <1>11 DEF ResendUnverifiedSignupEmail, Begin, users
<1>12. CASE \E r \in Requests, u \in Users : ForgotPassword(r, u)
  BY <1>12 DEF ForgotPassword, Begin, users
<1>13. CASE \E r \in Requests, u \in Users : RequestSetPassword(r, u)
  BY <1>13 DEF RequestSetPassword, Begin, users
<1>14. CASE \E r \in Requests, t \in Tokens : SendInitialVerifyEmail(r, t)
  BY <1>14 DEF SendInitialVerifyEmail, users
<1>15. CASE \E r \in Requests, t \in Tokens : IssueToken(r, t)
  BY <1>15 DEF IssueToken, users
<1>16. CASE \E r \in Requests, t \in Tokens : OpenLink(r, t)
  BY <1>16 DEF OpenLink, users
<1>17. CASE \E r \in Requests : VerifyEmail(r)
  BY <1>17 DEF VerifyEmail, users
<1>18. CASE \E r \in Requests : ResetPassword(r)
  BY <1>18 DEF ResetPassword, users
<1>19. CASE \E r \in Requests : SetPassword(r)
  BY <1>19 DEF SetPassword, users
<1>20. CASE \E r \in Requests : RevokeSessionsForUser(r)
  BY <1>20 DEF RevokeSessionsForUser, users
<1>21. CASE \E t \in Tokens : Expire(t)
  BY <1>21 DEF Expire, users
<1>22. CASE \E r \in Requests : Fail(r)
  BY <1>22 DEF Fail, users
<1> QED BY <1>1, <1>2, <1>3, <1>4, <1>5, <1>6, <1>7, <1>8, <1>9, <1>10, <1>11, <1>12, <1>13, <1>14, <1>15, <1>16, <1>17, <1>18, <1>19, <1>20, <1>21, <1>22 DEF Steps

LEMMA PasswordLinksGoToProvenNext == Shape /\ PasswordLinksGoToProven /\ [Next]_vars => PasswordLinksGoToProven'
<1> SUFFICES ASSUME Shape, PasswordLinksGoToProven, [Next]_vars PROVE PasswordLinksGoToProven'
  OBVIOUS
<1> USE DEF Shape
<1>1. CASE UNCHANGED links
  <2>0. Steps \/ UNCHANGED vars
    BY NextIsSteps
  <2>1. proven \subseteq proven'
    BY <2>0, ProvenGrows DEF vars, users
  <2> QED BY <1>1, <2>1 DEF links, PasswordLinksGoToProven
<1>2. CASE \E r \in Requests, t \in Tokens : SendInitialVerifyEmail(r, t)
  BY <1>2 DEF SendInitialVerifyEmail, Create, PasswordLinksGoToProven, TypeOK, users
<1>3. CASE \E r \in Requests, t \in Tokens : IssueToken(r, t)
  <2> PICK r \in Requests, t \in Tokens : IssueToken(r, t)
    BY <1>3
  <2>1. JobHolds(r) /\ job[r].at = "issue" /\ UNCHANGED proven
    BY DEF JobsHold, IssueToken, users
  <2>2. /\ owner' = [owner EXCEPT ![t] = job[r].user]
        /\ addr' = [addr EXCEPT ![t] = job[r].addr]
        /\ purpose' = [purpose EXCEPT ![t] = job[r].purpose]
    BY DEF IssueToken, Create
  <2> QED BY <2>1, <2>2 DEF JobHolds, PasswordLinksGoToProven, TypeOK
<1>4. CASE \E r \in Requests : Using(r)
  <2> PICK r \in Requests : Using(r)
    BY <1>4
  <2>1. UNCHANGED <<owner, addr, purpose>>
    BY UsingConsumes DEF Consume
  <2>2. proven \subseteq proven'
    BY DEF Using, VerifyEmail, ResetPassword, SetPassword
  <2> QED BY <2>1, <2>2 DEF PasswordLinksGoToProven
<1>5. CASE \E r \in Requests : Unbind(r)
  BY <1>5 DEF Unbind, PasswordLinksGoToProven
<1>6. CASE \E t \in Tokens : Expire(t)
  BY <1>6 DEF Expire, PasswordLinksGoToProven, users
<1>7. Steps \/ UNCHANGED vars
  BY NextIsSteps
<1>8. UNCHANGED vars => UNCHANGED links
  BY DEF vars, links
<1> QED BY <1>1, <1>2, <1>3, <1>4, <1>5, <1>6, <1>7, <1>8, LinkSteps

\* Whoever receives a link that changes a password reads an address which the account
\* has proven: signing up with somebody else's address gives them nothing.
THEOREM PasswordLinksGoToProvenHolds == Spec => []PasswordLinksGoToProven
<1>1. Init => PasswordLinksGoToProven
  BY EmailAssumption DEF Init, PasswordLinksGoToProven, Purposes
<1> QED BY <1>1, PasswordLinksGoToProvenNext, ShapeAlways, PTL DEF Spec

\* The first password of an account is never replaced by a link to set one.
THEOREM SetNeverOverwritesHolds == Spec => SetNeverOverwrites
<1> DEFINE A == \A t \in Tokens : purpose[t] = "set" /\ uses'[t] # uses[t] => password[owner[t]] = 0
<1>1. Shape /\ [Next]_vars => [A]_vars
  <2> SUFFICES ASSUME Shape, Steps, NEW t \in Tokens, purpose[t] = "set", uses'[t] # uses[t]
               PROVE  password[owner[t]] = 0
    BY NextIsSteps
  <2>1. \E r \in Requests : Using(r)
    BY LinkSteps DEF links, SendInitialVerifyEmail, IssueToken, Create, Unbind, Expire
  <2>2. PICK r \in Requests : Using(r)
    BY <2>1
  <2>3. t = job[r].token
    BY <2>2, UsingConsumes DEF Consume, Shape, TypeOK
  <2>4. job[r].purpose = "set" /\ owner[t] = job[r].user
    BY <2>2, <2>3, UsingConsumes
  <2> QED BY <2>2, <2>4 DEF Using, VerifyEmail, ResetPassword, SetPassword
<1> QED BY <1>1, ShapeAlways, PTL DEF Spec, SetNeverOverwrites, A

-----------------------------------------------------------------------------
(* Addresses and sessions.                                                 *)

LEMMA OneAccountPerEmailNext == Shape /\ OneAccountPerEmail /\ [Next]_vars => OneAccountPerEmail'
<1> SUFFICES ASSUME Shape, OneAccountPerEmail, [Next]_vars PROVE OneAccountPerEmail'
  OBVIOUS
<1> USE DEF Shape, OneAccountPerEmail
<1>1. CASE \E u \in Users, s \in Sessions : SignIn(u, s)
  BY <1>1 DEF SignIn, NewSession, users
<1>2. CASE \E s \in Sessions : EndSession(s)
  BY <1>2 DEF EndSession, users
<1>3. CASE \E r \in Requests, u \in Users, e \in Emails : EmailSignup(r, u, e)
  BY <1>3 DEF EmailSignup, TypeOK
<1>4. CASE \E r \in Requests, u \in Users : EmailLogin(r, u)
  BY <1>4 DEF EmailLogin, Begin, users
<1>5. CASE \E r \in Requests, u \in Users, on \in BOOLEAN : PutMyEmailLoginEnabled(r, u, on)
  BY <1>5 DEF PutMyEmailLoginEnabled, users
<1>6. CASE \E r \in Requests, u \in Users : UnbindEmail(r, u)
  BY <1>6 DEF UnbindEmail, Begin, users
<1>7. CASE \E r \in Requests, s \in Sessions : CreateUserSession(r, s)
  BY <1>7 DEF CreateUserSession, NewSession, users
<1>8. CASE \E r \in Requests : Toggle(r)
  BY <1>8 DEF Toggle, users
<1>9. CASE \E r \in Requests : Unbind(r)
  BY <1>9 DEF Unbind, TypeOK
<1>10. CASE \E r \in Requests, u \in Users, e \in Emails : BindEmail(r, u, e)
  BY <1>10 DEF BindEmail, Begin, users
<1>11. CASE \E r \in Requests, u \in Users : ResendUnverifiedSignupEmail(r, u)
  BY <1>11 DEF ResendUnverifiedSignupEmail, Begin, users
<1>12. CASE \E r \in Requests, u \in Users : ForgotPassword(r, u)
  BY <1>12 DEF ForgotPassword, Begin, users
<1>13. CASE \E r \in Requests, u \in Users : RequestSetPassword(r, u)
  BY <1>13 DEF RequestSetPassword, Begin, users
<1>14. CASE \E r \in Requests, t \in Tokens : SendInitialVerifyEmail(r, t)
  BY <1>14 DEF SendInitialVerifyEmail, users
<1>15. CASE \E r \in Requests, t \in Tokens : IssueToken(r, t)
  BY <1>15 DEF IssueToken, users
<1>16. CASE \E r \in Requests, t \in Tokens : OpenLink(r, t)
  BY <1>16 DEF OpenLink, users
<1>17. CASE \E r \in Requests : VerifyEmail(r)
  BY <1>17 DEF VerifyEmail, TakenByOther, TypeOK
<1>18. CASE \E r \in Requests : ResetPassword(r)
  BY <1>18 DEF ResetPassword, users
<1>19. CASE \E r \in Requests : SetPassword(r)
  BY <1>19 DEF SetPassword, users
<1>20. CASE \E r \in Requests : RevokeSessionsForUser(r)
  BY <1>20 DEF RevokeSessionsForUser, users
<1>21. CASE \E t \in Tokens : Expire(t)
  BY <1>21 DEF Expire, users
<1>22. CASE \E r \in Requests : Fail(r)
  BY <1>22 DEF Fail, users
<1>23. CASE UNCHANGED vars
  BY <1>23 DEF vars, users
<1>24. Steps \/ UNCHANGED vars
  BY NextIsSteps
<1> QED BY <1>1, <1>2, <1>3, <1>4, <1>5, <1>6, <1>7, <1>8, <1>9, <1>10, <1>11, <1>12, <1>13, <1>14, <1>15, <1>16, <1>17, <1>18, <1>19, <1>20, <1>21, <1>22, <1>23, <1>24 DEF Steps

\* No address belongs to two accounts, however their links are opened.
THEOREM OneAccountPerEmailHolds == Spec => []OneAccountPerEmail
<1>1. Init => OneAccountPerEmail
  BY DEF Init, OneAccountPerEmail
<1> QED BY <1>1, OneAccountPerEmailNext, ShapeAlways, PTL DEF Spec

\* A revocation that is still to come covers its user.
Revoking(u) == u \in unrevoked \/ \E r \in Requests : job[r].at = "revoke" /\ job[r].user = u

\* A step that neither ends a revocation nor touches sessions and passwords.
LEMMA Unrelated ==
  ASSUME Shape, StaleSessionsEnd, NEW r \in Requests, job[r].at # "revoke",
         \A x \in Requests : x # r => job'[x] = job[x],
         UNCHANGED <<session, born, unrevoked, password>>
  PROVE  StaleSessionsEnd'
BY DEF Shape, StaleSessionsEnd

LEMMA RevocationsStay ==
  ASSUME NEW r \in Requests, job[r].at # "revoke", UNCHANGED unrevoked, NEW u,
         \A x \in Requests : x # r => job'[x] = job[x], Revoking(u)
  PROVE  Revoking(u)'
BY DEF Revoking

LEMMA NewSessionKeeps ==
  ASSUME Shape, StaleSessionsEnd, NEW s \in Sessions, NEW u \in Users, NewSession(s, u),
         UNCHANGED password, \A v \in Users : Revoking(v) => Revoking(v)'
  PROVE  StaleSessionsEnd'
<1> SUFFICES ASSUME NEW x \in Sessions, NEW v, session'[x] = v, v # None, born'[x] # password'[v]
             PROVE  Revoking(v)'
  BY DEF StaleSessionsEnd, Revoking
<1>1. x # s
  BY DEF NewSession, Shape, TypeOK
<1>2. session'[x] = session[x] /\ born'[x] = born[x]
  BY <1>1 DEF NewSession, Shape, TypeOK
<1>3. Revoking(v) /\ v \in Users
  BY <1>2 DEF StaleSessionsEnd, Revoking, Shape, TypeOK
<1> QED BY <1>2, <1>3

LEMMA NewPasswordKeeps ==
  ASSUME Shape, StaleSessionsEnd, NEW r \in Requests, Using(r), NewPassword(r), UNCHANGED sessions
  PROVE  StaleSessionsEnd'
<1> DEFINE u == job[r].user
<1>1. job[r].at = "use" /\ job[r] \in Job
  BY UsingConsumes DEF Shape, TypeOK
<1>2. /\ job'[r].at = "revoke" /\ job'[r].user = u
      /\ \A x \in Requests : x # r => job'[x] = job[x]
      /\ \A v \in Users : v # u => password'[v] = password[v]
  BY <1>1 DEF NewPassword, Held, Shape, TypeOK
<1> HIDE DEF u
<1> SUFFICES ASSUME NEW x \in Sessions, NEW v, session'[x] = v, v # None, born'[x] # password'[v]
             PROVE  Revoking(v)'
  BY DEF StaleSessionsEnd, Revoking
<1>3. session[x] = v /\ born'[x] = born[x] /\ unrevoked' = unrevoked /\ v \in Users
  BY DEF sessions, Shape, TypeOK
<1>4. CASE v = u
  BY <1>2, <1>3, <1>4 DEF Revoking
<1>5. CASE v # u
  <2>1. Revoking(v)
    BY <1>2, <1>3, <1>5 DEF StaleSessionsEnd, Revoking
  <2> QED BY <1>1, <1>2, <1>3, <2>1, RevocationsStay
<1> QED BY <1>4, <1>5

LEMMA StaleSessionsEndNext == Shape /\ StaleSessionsEnd /\ [Next]_vars => StaleSessionsEnd'
<1> SUFFICES ASSUME Shape, StaleSessionsEnd, [Next]_vars PROVE StaleSessionsEnd'
  OBVIOUS
<1>1. CASE \E u \in Users, s \in Sessions : SignIn(u, s)
  <2> PICK u \in Users, s \in Sessions : SignIn(u, s)
    BY <1>1
  <2>1. UNCHANGED <<job, password, unrevoked>> /\ NewSession(s, u)
    BY DEF SignIn, NewSession
  <2> QED BY <2>1, NewSessionKeeps DEF Revoking
<1>2. CASE \E s \in Sessions : EndSession(s)
  BY <1>2 DEF EndSession, StaleSessionsEnd, Shape, TypeOK, users
<1>3. CASE \E r \in Requests, u \in Users, e \in Emails : EmailSignup(r, u, e)
  <2> PICK r \in Requests, u \in Users, e \in Emails : EmailSignup(r, u, e)
    BY <1>3
  <2>1. /\ u \notin account /\ job[r].at = "idle" /\ UNCHANGED <<session, born, unrevoked>>
        /\ \A v \in Users : v # u => password'[v] = password[v]
        /\ \A x \in Requests : x # r => job'[x] = job[x]
    BY DEF EmailSignup, sessions, Shape, TypeOK
  <2>2. \A s \in Sessions : session[s] # u
    BY <2>1, EmailAssumption DEF Shape, Known
  <2> QED BY <2>1, <2>2 DEF StaleSessionsEnd, Shape, TypeOK
<1>4. CASE \E r \in Requests, u \in Users : EmailLogin(r, u)
  <2> PICK r \in Requests, u \in Users : EmailLogin(r, u)
    BY <1>4
  <2>1. job[r].at # "revoke" /\ UNCHANGED <<session, born, unrevoked, password>>
    BY DEF EmailLogin, Begin, users, sessions
  <2>2. \A x \in Requests : x # r => job'[x] = job[x]
    BY DEF EmailLogin, Begin, Shape, TypeOK
  <2> QED BY <2>1, <2>2, Unrelated
<1>5. CASE \E r \in Requests, u \in Users, on \in BOOLEAN : PutMyEmailLoginEnabled(r, u, on)
  <2> PICK r \in Requests, u \in Users, on \in BOOLEAN : PutMyEmailLoginEnabled(r, u, on)
    BY <1>5
  <2>1. job[r].at # "revoke" /\ UNCHANGED <<session, born, unrevoked, password>>
    BY DEF PutMyEmailLoginEnabled, users, sessions
  <2>2. \A x \in Requests : x # r => job'[x] = job[x]
    BY DEF PutMyEmailLoginEnabled, Shape, TypeOK
  <2> QED BY <2>1, <2>2, Unrelated
<1>6. CASE \E r \in Requests, u \in Users : UnbindEmail(r, u)
  <2> PICK r \in Requests, u \in Users : UnbindEmail(r, u)
    BY <1>6
  <2>1. job[r].at # "revoke" /\ UNCHANGED <<session, born, unrevoked, password>>
    BY DEF UnbindEmail, Begin, users, sessions
  <2>2. \A x \in Requests : x # r => job'[x] = job[x]
    BY DEF UnbindEmail, Begin, Shape, TypeOK
  <2> QED BY <2>1, <2>2, Unrelated
<1>7. CASE \E r \in Requests, s \in Sessions : CreateUserSession(r, s)
  <2> PICK r \in Requests, s \in Sessions : CreateUserSession(r, s)
    BY <1>7
  <2>1. NewSession(s, job[r].user) /\ UNCHANGED <<password, unrevoked>> /\ job[r].at = "login"
    BY DEF CreateUserSession, NewSession
  <2>2. \A x \in Requests : x # r => job'[x] = job[x]
    BY DEF CreateUserSession, Finish, Shape, TypeOK
  <2>3. job[r].user \in Users
    BY <2>1 DEF Shape, TypeOK, Known
  <2> QED BY <2>1, <2>2, <2>3, NewSessionKeeps, RevocationsStay
<1>8. CASE \E r \in Requests : Toggle(r)
  <2> PICK r \in Requests : Toggle(r)
    BY <1>8
  <2>1. job[r].at # "revoke" /\ UNCHANGED <<session, born, unrevoked, password>>
    BY DEF Toggle, users, sessions
  <2>2. \A x \in Requests : x # r => job'[x] = job[x]
    BY DEF Toggle, Finish, Shape, TypeOK
  <2> QED BY <2>1, <2>2, Unrelated
<1>9. CASE \E r \in Requests : Unbind(r)
  <2> PICK r \in Requests : Unbind(r)
    BY <1>9
  <2>1. job[r].at # "revoke" /\ UNCHANGED <<session, born, unrevoked, password>>
    BY DEF Unbind, users, sessions
  <2>2. \A x \in Requests : x # r => job'[x] = job[x]
    BY DEF Unbind, Finish, Shape, TypeOK
  <2> QED BY <2>1, <2>2, Unrelated
<1>10. CASE \E r \in Requests, u \in Users, e \in Emails : BindEmail(r, u, e)
  <2> PICK r \in Requests, u \in Users, e \in Emails : BindEmail(r, u, e)
    BY <1>10
  <2>1. job[r].at # "revoke" /\ UNCHANGED <<session, born, unrevoked, password>>
    BY DEF BindEmail, Begin, users, sessions
  <2>2. \A x \in Requests : x # r => job'[x] = job[x]
    BY DEF BindEmail, Begin, Shape, TypeOK
  <2> QED BY <2>1, <2>2, Unrelated
<1>11. CASE \E r \in Requests, u \in Users : ResendUnverifiedSignupEmail(r, u)
  <2> PICK r \in Requests, u \in Users : ResendUnverifiedSignupEmail(r, u)
    BY <1>11
  <2>1. job[r].at # "revoke" /\ UNCHANGED <<session, born, unrevoked, password>>
    BY DEF ResendUnverifiedSignupEmail, Begin, users, sessions
  <2>2. \A x \in Requests : x # r => job'[x] = job[x]
    BY DEF ResendUnverifiedSignupEmail, Begin, Shape, TypeOK
  <2> QED BY <2>1, <2>2, Unrelated
<1>12. CASE \E r \in Requests, u \in Users : ForgotPassword(r, u)
  <2> PICK r \in Requests, u \in Users : ForgotPassword(r, u)
    BY <1>12
  <2>1. job[r].at # "revoke" /\ UNCHANGED <<session, born, unrevoked, password>>
    BY DEF ForgotPassword, Begin, users, sessions
  <2>2. \A x \in Requests : x # r => job'[x] = job[x]
    BY DEF ForgotPassword, Begin, Shape, TypeOK
  <2> QED BY <2>1, <2>2, Unrelated
<1>13. CASE \E r \in Requests, u \in Users : RequestSetPassword(r, u)
  <2> PICK r \in Requests, u \in Users : RequestSetPassword(r, u)
    BY <1>13
  <2>1. job[r].at # "revoke" /\ UNCHANGED <<session, born, unrevoked, password>>
    BY DEF RequestSetPassword, Begin, users, sessions
  <2>2. \A x \in Requests : x # r => job'[x] = job[x]
    BY DEF RequestSetPassword, Begin, Shape, TypeOK
  <2> QED BY <2>1, <2>2, Unrelated
<1>14. CASE \E r \in Requests, t \in Tokens : SendInitialVerifyEmail(r, t)
  <2> PICK r \in Requests, t \in Tokens : SendInitialVerifyEmail(r, t)
    BY <1>14
  <2>1. job[r].at # "revoke" /\ UNCHANGED <<session, born, unrevoked, password>>
    BY DEF SendInitialVerifyEmail, users, sessions
  <2>2. \A x \in Requests : x # r => job'[x] = job[x]
    BY DEF SendInitialVerifyEmail, Finish, Shape, TypeOK
  <2> QED BY <2>1, <2>2, Unrelated
<1>15. CASE \E r \in Requests, t \in Tokens : IssueToken(r, t)
  <2> PICK r \in Requests, t \in Tokens : IssueToken(r, t)
    BY <1>15
  <2>1. job[r].at # "revoke" /\ UNCHANGED <<session, born, unrevoked, password>>
    BY DEF IssueToken, users, sessions
  <2>2. \A x \in Requests : x # r => job'[x] = job[x]
    BY DEF IssueToken, Finish, Shape, TypeOK
  <2> QED BY <2>1, <2>2, Unrelated
<1>16. CASE \E r \in Requests, t \in Tokens : OpenLink(r, t)
  <2> PICK r \in Requests, t \in Tokens : OpenLink(r, t)
    BY <1>16
  <2>1. job[r].at # "revoke" /\ UNCHANGED <<session, born, unrevoked, password>>
    BY DEF OpenLink, users, sessions
  <2>2. \A x \in Requests : x # r => job'[x] = job[x]
    BY DEF OpenLink, Shape, TypeOK
  <2> QED BY <2>1, <2>2, Unrelated
<1>17. CASE \E r \in Requests : VerifyEmail(r)
  <2> PICK r \in Requests : VerifyEmail(r)
    BY <1>17
  <2>1. job[r].at # "revoke" /\ UNCHANGED <<session, born, unrevoked, password>>
    BY DEF VerifyEmail, users, sessions
  <2>2. \A x \in Requests : x # r => job'[x] = job[x]
    BY DEF VerifyEmail, Finish, Shape, TypeOK
  <2> QED BY <2>1, <2>2, Unrelated
<1>18. CASE \E r \in Requests : ResetPassword(r)
  <2> PICK r \in Requests : ResetPassword(r)
    BY <1>18
  <2> QED BY NewPasswordKeeps DEF ResetPassword, Using
<1>19. CASE \E r \in Requests : SetPassword(r)
  <2> PICK r \in Requests : SetPassword(r)
    BY <1>19
  <2> QED BY NewPasswordKeeps DEF SetPassword, Using
<1>20. CASE \E r \in Requests : RevokeSessionsForUser(r)
  <2> PICK r \in Requests : RevokeSessionsForUser(r)
    BY <1>20
  <2> DEFINE u == job[r].user
  <2>1. \A x \in Requests : x # r => job'[x] = job[x]
    BY DEF RevokeSessionsForUser, Finish, Shape, TypeOK
  <2>2. UNCHANGED password /\ unrevoked' = unrevoked \ {u}
    BY DEF RevokeSessionsForUser, users
  <2>3. \A s \in Sessions : session'[s] # None => session'[s] = session[s] /\ born'[s] = born[s] /\ session[s] # u
    BY DEF RevokeSessionsForUser, Shape, TypeOK
  <2> HIDE DEF u
  <2>4. ASSUME NEW s \in Sessions, NEW v, session'[s] = v, v # None, born'[s] # password'[v]
        PROVE  Revoking(v)'
    <3>1. Revoking(v)
      BY <2>2, <2>3, <2>4 DEF StaleSessionsEnd, Revoking
    <3> QED BY <2>1, <2>2, <2>3, <2>4, <3>1 DEF Revoking, u
  <2> QED BY <2>4 DEF StaleSessionsEnd, Revoking
<1>21. CASE \E t \in Tokens : Expire(t)
  BY <1>21 DEF Expire, StaleSessionsEnd, users, sessions
<1>22. CASE \E r \in Requests : Fail(r)
  <2> PICK r \in Requests : Fail(r)
    BY <1>22
  <2>1. \A x \in Requests : x # r => job'[x] = job[x]
    BY DEF Fail, Finish, Shape, TypeOK
  <2>2. UNCHANGED <<session, born, password>>
    BY DEF Fail, users
  <2>3. CASE job[r].at = "revoke"
    <3>1. unrevoked' = unrevoked \cup {job[r].user}
      BY <2>3 DEF Fail
    <3> QED BY <2>1, <2>2, <3>1 DEF StaleSessionsEnd
  <2>4. CASE job[r].at # "revoke"
    <3>1. UNCHANGED unrevoked
      BY <2>4 DEF Fail
    <3> QED BY <2>1, <2>2, <2>4, <3>1, Unrelated
  <2> QED BY <2>3, <2>4
<1>23. CASE UNCHANGED vars
  BY <1>23 DEF vars, users, sessions, StaleSessionsEnd
<1>24. Steps \/ UNCHANGED vars
  BY NextIsSteps
<1> QED BY <1>1, <1>2, <1>3, <1>4, <1>5, <1>6, <1>7, <1>8, <1>9, <1>10, <1>11, <1>12, <1>13, <1>14, <1>15, <1>16, <1>17, <1>18, <1>19, <1>20, <1>21, <1>22, <1>23, <1>24 DEF Steps

\* When a password changes, every session from before it ends, unless the revocation
\* fails: for any number of logins, resets and requests at once.
THEOREM StaleSessionsEndHolds == Spec => []StaleSessionsEnd
<1>1. Init => StaleSessionsEnd
  BY DEF Init, StaleSessionsEnd
<1> QED BY <1>1, StaleSessionsEndNext, ShapeAlways, PTL DEF Spec
=============================================================================
