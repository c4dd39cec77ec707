------------------------ MODULE OAuthAccountsProofs ------------------------
(***************************************************************************)
(* The properties of OAuthAccounts, for any accounts, identities, tickets  *)
(* and requests and any limit.                                             *)
(*                                                                         *)
(* Whoever counts the accounts holds the lock, so the count it read still  *)
(* holds when it writes.  A string that opens or has opened an account is  *)
(* spent: marked, or too old to be used.  An unlink that trusts its copy   *)
(* of the account is right as long as the account is there.                *)
(***************************************************************************)
EXTENDS OAuthAccounts, FiniteSetTheorems, TLAPS

USE DEF Read

Steps ==
  \/ \E r \in Requests, t \in Strings : CompleteProfile(r, t)
  \/ \E r \in Requests, t \in Strings, p \in Phones : CompleteRisk(r, t, p)
  \/ \E r \in Requests : MarkTicket(r)
  \/ \E r \in Requests : EmailSignup(r)
  \/ \E r \in Requests : Lock(r)
  \/ \E r \in Requests : CheckFree(r)
  \/ \E r \in Requests, readable \in BOOLEAN : CheckCap(r, readable)
  \/ \E r \in Requests, u \in Users : CreateUser(r, u)
  \/ \E r \in Requests : Refuse(r)
  \/ \E r \in Requests, u \in Users, x \in Externals : LinkCallback(r, u, x)
  \/ \E r \in Requests : LinkIdentity(r)
  \/ \E r \in Requests, u \in Users, p \in Providers : UnlinkMyOAuthIdentity(r, u, p)
  \/ \E r \in Requests, x \in Externals : Unlink(r, x)
  \/ \E t \in Tickets, x \in Externals, k \in Kinds, readable \in BOOLEAN : OAuthCallback(t, x, k, readable)
  \/ \E t \in Tickets : Expire(t)
  \/ \E t \in Strings : Forget(t)
  \/ \E u \in Users : EmailStep(u)
  \/ \E u \in Users : DeleteUser(u)
  \/ \E u \in Users : AdminPurgeUser(u)
  \/ \E n \in 0..MaxCap : SetCap(n)
  \/ Restart

LEMMA NextIsSteps == Next => Steps
BY DEF Next, Environment, Register, LinkOrUnlink, Steps

\* Between the lock and the end of its transaction, a request holds the lock.
Locked ==
  \A r \in Requests : job[r].at \in {"checks", "cap", "create"} => registerMu = r

\* There is still room below the limit a request was let in under.
RoomIsLeft ==
  \A r \in Requests : job[r].at = "create" /\ job[r].cap > 0 => Cardinality(Counted) < job[r].cap

\* r is opening an account with string t.
Opens(r, t) == job[r].at \in Registering /\ job[r].token = t
Taken(t) == (\E a \in opened : a[1] = t) \/ \E r \in Requests : Opens(r, t)
Spent(t) == Read(t) # None /\ (t \in consumed \/ Read(t).fresh = FALSE)

\* A string in use or used up is spent, and is in use by one request only.
TakenIsSpent == \A t \in Strings : Taken(t) => Spent(t)
OneOpener ==
  \A r \in Requests, t \in Strings : Opens(r, t) =>
    /\ \A a \in opened : a[1] # t
    /\ \A q \in Requests : Opens(q, t) => q = r
MarksIssued ==
  \A r \in Requests : job[r].at = "mark" =>
    \E t \in Strings : job[r].token = t /\ Read(t) # None /\ (Taken(t) => t \in consumed)

\* An unlink that relies on another way to log in relies on a true one.
CopyHolds ==
  \A r \in Requests : job[r].at = "unlink" =>
    \E u \in Users : /\ job[r].user = u /\ state[u] # "free"
                     /\ job[r].copy /\ Exists(u) => phone[u] # None \/ u \in mailed

Tidy == TypeOK /\ Locked /\ RoomIsLeft
OneUse == TakenIsSpent /\ OneOpener /\ MarksIssued /\ StringOpensOnce
Reached == RegisteredOwns /\ LoginIsKept /\ CopyHolds /\ mailLogin \subseteq mailed
IInv == Tidy /\ OneUse /\ Reached

-----------------------------------------------------------------------------
(* The start, and what requests hold.                                      *)

LEMMA IdleTyped == Idle \in Job /\ Idle.at = "idle"
BY OAuthAssumption DEF Idle, Held, Job, Stages

LEMMA Staged ==
  ASSUME TypeOK, NEW r \in Requests, NEW b \in Stages,
         NEW j, j = [job[r] EXCEPT !.at = b]
  PROVE  /\ j \in Job /\ j.at = b /\ j.token = job[r].token /\ j.cap = job[r].cap
         /\ j.ext = job[r].ext /\ j.phone = job[r].phone /\ j.user = job[r].user
         /\ j.prov = job[r].prov /\ j.copy = job[r].copy
<1>1. job[r] \in Job
  BY DEF TypeOK
<1> QED BY <1>1 DEF Job

LEMMA Moved ==
  ASSUME TypeOK, NEW r \in Requests, NEW j \in Job, job' = [job EXCEPT ![r] = j]
  PROVE  /\ job' \in [Requests -> Job]
         /\ job'[r] = j
         /\ \A x \in Requests : x # r => job'[x] = job[x]
BY DEF TypeOK

LEMMA CountedFinite == IsFiniteSet(Counted) /\ Cardinality(Counted) \in Nat
BY OAuthAssumption, FS_Subset, FS_CardinalityType DEF Counted

LEMMA InitIInv == Init => IInv
<1> SUFFICES ASSUME Init PROVE IInv
  OBVIOUS
<1> USE OAuthAssumption, IdleTyped
<1>1. TypeOK
  BY DEF Init, TypeOK
<1>2. \A r \in Requests : job[r].at = "idle"
  BY DEF Init
<1>3. Locked /\ RoomIsLeft /\ CopyHolds /\ MarksIssued
  BY <1>2 DEF Locked, RoomIsLeft, CopyHolds, MarksIssued
<1>4. \A t \in Strings : ~Taken(t)
  BY <1>2 DEF Taken, Opens, Registering, Init
<1>5. TakenIsSpent /\ OneOpener /\ StringOpensOnce
  BY <1>2, <1>4 DEF TakenIsSpent, OneOpener, StringOpensOnce, Opens, Registering, Init
<1>6. RegisteredOwns /\ LoginIsKept /\ mailLogin \subseteq mailed
  BY DEF Init, RegisteredOwns, LoginIsKept, Exists
<1> QED BY <1>1, <1>3, <1>5, <1>6 DEF IInv, Tidy, OneUse, Reached

-----------------------------------------------------------------------------
(* How requests take the strings they are sent.                            *)

LEMMA NewOpener ==
  ASSUME OneUse, NEW r \in Requests, NEW t \in Strings,
         ~Taken(t), Read(t) # None, consumed' = consumed \cup {t},
         ticket' = ticket, opened' = opened,
         job[r].at \notin Registering,
         job'[r].at \in Registering, job'[r].at # "mark", job'[r].token = t,
         \A z \in Requests : z # r => job'[z] = job[z]
  PROVE  OneUse'
<1>1. TakenIsSpent /\ OneOpener /\ MarksIssued /\ StringOpensOnce
  BY DEF OneUse
<1>2. \A q \in Requests, z \in Strings : Opens(q, z)' <=> Opens(q, z) \/ (q = r /\ z = t)
  BY DEF Opens
<1>3. \A z \in Strings : Taken(z)' <=> Taken(z) \/ z = t
  BY <1>2 DEF Taken
<1>4. TakenIsSpent'
  BY <1>1, <1>3 DEF TakenIsSpent, Spent
<1>5. OneOpener'
  <2>1. SUFFICES ASSUME NEW q \in Requests, NEW z \in Strings, Opens(q, z)'
                 PROVE  /\ \A a \in opened : a[1] # z
                        /\ \A y \in Requests : Opens(y, z)' => y = q
    BY DEF OneOpener
  <2>2. CASE z = t
    <3>1. \A y \in Requests : Opens(y, z)' => y = r
      BY <1>2, <2>2 DEF Taken
    <3> QED BY <2>1, <2>2, <3>1 DEF Taken
  <2>3. CASE z # t
    BY <1>1, <1>2, <2>1, <2>3 DEF OneOpener
  <2> QED BY <2>2, <2>3
<1>6. MarksIssued'
  <2> SUFFICES ASSUME NEW q \in Requests, job'[q].at = "mark"
               PROVE  \E z \in Strings : job'[q].token = z /\ Read(z)' # None /\ (Taken(z)' => z \in consumed')
    BY DEF MarksIssued
  <2>1. q # r /\ job'[q] = job[q]
    OBVIOUS
  <2>2. PICK z \in Strings : job[q].token = z /\ Read(z) # None /\ (Taken(z) => z \in consumed)
    BY <1>1, <2>1 DEF MarksIssued
  <2> QED BY <1>3, <2>1, <2>2
<1>7. StringOpensOnce'
  BY <1>1 DEF StringOpensOnce
<1> QED BY <1>4, <1>5, <1>6, <1>7 DEF OneUse

LEMMA SameOpener ==
  ASSUME OneUse, NEW r \in Requests,
         ticket' = ticket, consumed' = consumed, opened' = opened,
         job[r].at \in Registering, job'[r].at \in Registering, job'[r].token = job[r].token,
         \A z \in Requests : z # r => job'[z] = job[z]
  PROVE  OneUse'
<1>1. TakenIsSpent /\ OneOpener /\ MarksIssued /\ StringOpensOnce
  BY DEF OneUse
<1>2. \A q \in Requests, z \in Strings : Opens(q, z)' <=> Opens(q, z)
  BY DEF Opens
<1>3. \A z \in Strings : Taken(z)' <=> Taken(z)
  BY <1>2 DEF Taken
<1>4. TakenIsSpent'
  BY <1>1, <1>3 DEF TakenIsSpent, Spent
<1>5. OneOpener'
  BY <1>1, <1>2 DEF OneOpener
<1>6. MarksIssued'
  <2> SUFFICES ASSUME NEW q \in Requests, job'[q].at = "mark"
               PROVE  \E z \in Strings : job'[q].token = z /\ Read(z)' # None /\ (Taken(z)' => z \in consumed')
    BY DEF MarksIssued
  <2>1. q # r /\ job'[q] = job[q]
    BY DEF Registering
  <2>2. PICK z \in Strings : job[q].token = z /\ Read(z) # None /\ (Taken(z) => z \in consumed)
    BY <1>1, <2>1 DEF MarksIssued
  <2> QED BY <1>3, <2>1, <2>2
<1>7. StringOpensOnce'
  BY <1>1 DEF StringOpensOnce
<1> QED BY <1>4, <1>5, <1>6, <1>7 DEF OneUse

\* Accounts that go leave room.
LEMMA FewerLeaveRoom ==
  ASSUME RoomIsLeft, TypeOK, Counted' \subseteq Counted, job' = job
  PROVE  RoomIsLeft'
<1>1. Cardinality(Counted') <= Cardinality(Counted)
  BY CountedFinite, FS_Subset
<1>2. Cardinality(Counted') \in Nat /\ Cardinality(Counted) \in Nat
  BY CountedFinite, FS_Subset, FS_CardinalityType
<1>3. \A r \in Requests : job[r].cap \in Nat
  BY OAuthAssumption DEF TypeOK, Job
<1> SUFFICES ASSUME NEW r \in Requests, job[r].at = "create", job[r].cap > 0
             PROVE  Cardinality(Counted') < job[r].cap
  BY DEF RoomIsLeft
<1>4. Cardinality(Counted) < job[r].cap
  BY DEF RoomIsLeft
<1> QED BY <1>1, <1>2, <1>3, <1>4

-----------------------------------------------------------------------------
(* One lemma for every step.                                               *)

LEMMA CompleteProfileIInv ==
  ASSUME IInv, NEW r \in Requests, NEW t \in Strings, CompleteProfile(r, t)
  PROVE  IInv'
<1> USE OAuthAssumption
<1>1. Tidy /\ OneUse /\ Reached
  BY DEF IInv
<1>2. TypeOK /\ Locked /\ RoomIsLeft
  BY <1>1 DEF Tidy
<1> DEFINE h == Held("lock", t, Read(t).ext, None, 0, None, None, FALSE)
<1>3. /\ h \in Job
      /\ h.at = "lock" /\ h.token = t /\ h.ext = Read(t).ext
      /\ h.cap = 0 /\ h.user = None /\ h.copy = FALSE
  <2>1. "lock" \in Stages
    BY <1>2 DEF TypeOK, Stages, Registering, CompleteProfile, Usable, MarkTmpTokenConsumed, accounts, tickets
  <2>2. Read(t).ext \in Externals \cup {None}
    <3>1. Read(t) \in Issued
      BY <1>2 DEF TypeOK, CompleteProfile, Usable
    <3> QED BY <3>1 DEF Issued
  <2>3. 0 \in 0..MaxCap
    OBVIOUS
  <2> QED BY <2>1, <2>2, <2>3 DEF Held, Job
<1>4. /\ job' \in [Requests -> Job]
      /\ job'[r] = h
      /\ \A z \in Requests : z # r => job'[z] = job[z]
  <2>1. job' = [job EXCEPT ![r] = h]
    BY DEF CompleteProfile, Goes, Registration
  <2> HIDE DEF h
  <2> QED BY <1>2, <1>3, <2>1, Moved
<1> HIDE DEF h
<1>5. TypeOK'
  <2>1. consumed' \subseteq Strings
    BY <1>2 DEF TypeOK, CompleteProfile, Usable, MarkTmpTokenConsumed, accounts, tickets
  <2> QED BY <1>2, <1>3, <1>4, <2>1 DEF TypeOK, CompleteProfile, Usable, MarkTmpTokenConsumed, accounts, tickets
<1>6. Locked'
  BY <1>2, <1>3, <1>4 DEF Locked, TypeOK, CompleteProfile, Usable, MarkTmpTokenConsumed, accounts, tickets
<1>7. RoomIsLeft'
  BY <1>2, <1>3, <1>4 DEF RoomIsLeft, Counted, Exists, CompleteProfile, Usable, MarkTmpTokenConsumed, accounts, tickets
<1>8. OneUse'
  <2>1. Read(t) # None /\ ~Spent(t)
    BY DEF CompleteProfile, Usable, MarkTmpTokenConsumed, Spent
  <2>2. ~Taken(t)
    BY <1>1, <2>1 DEF OneUse, TakenIsSpent
  <2>3. /\ job[r].at \notin Registering /\ h.at \in Registering /\ h.at # "mark"
        /\ consumed' = consumed \cup {t} /\ ticket' = ticket /\ opened' = opened
    BY <1>3 DEF CompleteProfile, MarkTmpTokenConsumed, Registering
  <2> QED BY <1>1, <1>3, <1>4, <2>1, <2>2, <2>3, NewOpener
<1>9. Reached'
  <2>1. RegisteredOwns /\ LoginIsKept /\ CopyHolds /\ mailLogin \subseteq mailed
    BY <1>1 DEF Reached
  <2>2. RegisteredOwns'
    BY <1>2, <2>1 DEF RegisteredOwns, TypeOK, CompleteProfile, Usable, MarkTmpTokenConsumed, accounts, tickets
  <2>3. LoginIsKept'
    BY <1>2, <2>1 DEF LoginIsKept, Exists, TypeOK, CompleteProfile, Usable, MarkTmpTokenConsumed, accounts, tickets
  <2>4. CopyHolds'
    BY <1>2, <1>3, <1>4, <2>1 DEF CopyHolds, Exists, TypeOK, CompleteProfile, Usable, MarkTmpTokenConsumed, accounts, tickets
  <2>5. mailLogin' \subseteq mailed'
    BY <2>1 DEF CompleteProfile, Usable, MarkTmpTokenConsumed, accounts, tickets
  <2> QED BY <2>2, <2>3, <2>4, <2>5 DEF Reached
<1> QED BY <1>5, <1>6, <1>7, <1>8, <1>9 DEF IInv, Tidy

LEMMA CompleteRiskIInv ==
  ASSUME IInv, NEW r \in Requests, NEW t \in Strings, NEW p \in Phones, CompleteRisk(r, t, p)
  PROVE  IInv'
<1> USE OAuthAssumption
<1>1. Tidy /\ OneUse /\ Reached
  BY DEF IInv
<1>2. TypeOK /\ Locked /\ RoomIsLeft
  BY <1>1 DEF Tidy
<1> DEFINE h == Held("mark", t, Read(t).ext, p, 0, None, None, FALSE)
<1>3. /\ h \in Job
      /\ h.at = "mark" /\ h.token = t /\ h.ext = Read(t).ext
      /\ h.cap = 0 /\ h.user = None /\ h.copy = FALSE
  <2>1. "mark" \in Stages
    BY <1>2 DEF TypeOK, Stages, Registering, CompleteRisk, Usable, accounts, tickets
  <2>2. Read(t).ext \in Externals \cup {None}
    <3>1. Read(t) \in Issued
      BY <1>2 DEF TypeOK, CompleteRisk, Usable
    <3> QED BY <3>1 DEF Issued
  <2>3. 0 \in 0..MaxCap
    OBVIOUS
  <2> QED BY <2>1, <2>2, <2>3 DEF Held, Job
<1>4. /\ job' \in [Requests -> Job]
      /\ job'[r] = h
      /\ \A z \in Requests : z # r => job'[z] = job[z]
  <2>1. job' = [job EXCEPT ![r] = h]
    BY DEF CompleteRisk, Goes, Registration
  <2> HIDE DEF h
  <2> QED BY <1>2, <1>3, <2>1, Moved
<1> HIDE DEF h
<1>5. TypeOK'
  BY <1>2, <1>3, <1>4 DEF TypeOK, CompleteRisk, Usable, accounts, tickets
<1>6. Locked'
  BY <1>2, <1>3, <1>4 DEF Locked, TypeOK, CompleteRisk, Usable, accounts, tickets
<1>7. RoomIsLeft'
  BY <1>2, <1>3, <1>4 DEF RoomIsLeft, Counted, Exists, CompleteRisk, Usable, accounts, tickets
<1>8. OneUse'
  <2>1. TakenIsSpent /\ OneOpener /\ MarksIssued /\ StringOpensOnce
    BY <1>1 DEF OneUse
  <2>2. \A q \in Requests, z \in Strings : Opens(q, z)' => Opens(q, z)
    BY <1>3, <1>4 DEF Opens, Registering
  <2>3. \A z \in Strings : Taken(z)' => Taken(z)
    BY <2>2 DEF Taken, CompleteRisk, tickets
  <2>4. TakenIsSpent'
    BY <2>1, <2>3 DEF TakenIsSpent, Spent, CompleteRisk, tickets
  <2>5. OneOpener'
    BY <2>1, <2>2 DEF OneOpener, CompleteRisk, tickets
  <2>6. MarksIssued'
    <3> SUFFICES ASSUME NEW q \in Requests, job'[q].at = "mark"
                 PROVE  \E z \in Strings : job'[q].token = z /\ Read(z)' # None /\ (Taken(z)' => z \in consumed')
      BY DEF MarksIssued
    <3>1. consumed' = consumed /\ ticket' = ticket
      BY DEF CompleteRisk, tickets
    <3>2. CASE q = r
      <4>1. Read(t) # None /\ ~Spent(t)
        BY DEF CompleteRisk, Usable, Spent
      <4>2. ~Taken(t)
        BY <2>1, <4>1 DEF TakenIsSpent
      <4> QED BY <1>3, <1>4, <2>3, <3>1, <3>2, <4>1, <4>2
    <3>3. CASE q # r
      <4>1. job'[q] = job[q]
        BY <1>4, <3>3
      <4>2. PICK z \in Strings : job[q].token = z /\ Read(z) # None /\ (Taken(z) => z \in consumed)
        BY <2>1, <4>1 DEF MarksIssued
      <4> QED BY <2>3, <3>1, <4>1, <4>2
    <3> QED BY <3>2, <3>3
  <2>7. StringOpensOnce'
    BY <2>1 DEF StringOpensOnce, CompleteRisk, tickets
  <2> QED BY <2>4, <2>5, <2>6, <2>7 DEF OneUse
<1>9. Reached'
  <2>1. RegisteredOwns /\ LoginIsKept /\ CopyHolds /\ mailLogin \subseteq mailed
    BY <1>1 DEF Reached
  <2>2. RegisteredOwns'
    BY <1>2, <2>1 DEF RegisteredOwns, TypeOK, CompleteRisk, Usable, accounts, tickets
  <2>3. LoginIsKept'
    BY <1>2, <2>1 DEF LoginIsKept, Exists, TypeOK, CompleteRisk, Usable, accounts, tickets
  <2>4. CopyHolds'
    BY <1>2, <1>3, <1>4, <2>1 DEF CopyHolds, Exists, TypeOK, CompleteRisk, Usable, accounts, tickets
  <2>5. mailLogin' \subseteq mailed'
    BY <2>1 DEF CompleteRisk, Usable, accounts, tickets
  <2> QED BY <2>2, <2>3, <2>4, <2>5 DEF Reached
<1> QED BY <1>5, <1>6, <1>7, <1>8, <1>9 DEF IInv, Tidy

LEMMA MarkTicketIInv ==
  ASSUME IInv, NEW r \in Requests, MarkTicket(r)
  PROVE  IInv'
<1> USE OAuthAssumption
<1>1. Tidy /\ OneUse /\ Reached
  BY DEF IInv
<1>2. TypeOK /\ Locked /\ RoomIsLeft
  BY <1>1 DEF Tidy
<1> DEFINE h == [job[r] EXCEPT !.at = "lock"]
<1>3. /\ h \in Job
      /\ h.at = "lock" /\ h.token = job[r].token /\ h.cap = job[r].cap
  <2>1. "lock" \in Stages
    BY DEF Stages, Registering
  <2> QED BY <1>2, <2>1, Staged
<1>4. /\ job' \in [Requests -> Job]
      /\ job'[r] = h
      /\ \A z \in Requests : z # r => job'[z] = job[z]
  <2>1. job' = [job EXCEPT ![r] = h]
    BY DEF MarkTicket, At, Goes
  <2> HIDE DEF h
  <2> QED BY <1>2, <1>3, <2>1, Moved
<1> HIDE DEF h
<1>5. TypeOK'
  <2>1. consumed' \subseteq Strings
    <3>1. PICK t \in Strings : job[r].token = t
      BY <1>1 DEF OneUse, MarksIssued, MarkTicket, At
    <3>2. consumed' = consumed \cup {t}
      BY <3>1 DEF MarkTicket, MarkTmpTokenConsumed
    <3> QED BY <1>2, <3>2 DEF TypeOK
  <2> QED BY <1>2, <1>3, <1>4, <2>1 DEF TypeOK, MarkTicket, MarkTmpTokenConsumed, accounts, tickets
<1>6. Locked'
  BY <1>2, <1>3, <1>4 DEF Locked, TypeOK, MarkTicket, MarkTmpTokenConsumed, accounts, tickets
<1>7. RoomIsLeft'
  BY <1>2, <1>3, <1>4 DEF RoomIsLeft, Counted, Exists, MarkTicket, MarkTmpTokenConsumed, accounts, tickets
<1>8. OneUse'
  <2>1. job[r].at = "mark"
    BY DEF MarkTicket, At
  <2>2. PICK t \in Strings : job[r].token = t /\ Read(t) # None /\ (Taken(t) => t \in consumed)
    BY <1>1, <2>1 DEF OneUse, MarksIssued
  <2>3. /\ t \notin consumed /\ consumed' = consumed \cup {t}
        /\ ticket' = ticket /\ opened' = opened
    BY <2>2 DEF MarkTicket, MarkTmpTokenConsumed
  <2>4. job[r].at \notin Registering /\ h.at \in Registering /\ h.at # "mark"
    BY <1>3, <2>1 DEF Registering
  <2> QED BY <1>1, <1>3, <1>4, <2>2, <2>3, <2>4, NewOpener
<1>9. Reached'
  <2>1. RegisteredOwns /\ LoginIsKept /\ CopyHolds /\ mailLogin \subseteq mailed
    BY <1>1 DEF Reached
  <2>2. RegisteredOwns'
    BY <1>2, <2>1 DEF RegisteredOwns, TypeOK, MarkTicket, MarkTmpTokenConsumed, accounts, tickets
  <2>3. LoginIsKept'
    BY <1>2, <2>1 DEF LoginIsKept, Exists, TypeOK, MarkTicket, MarkTmpTokenConsumed, accounts, tickets
  <2>4. CopyHolds'
    BY <1>2, <1>3, <1>4, <2>1 DEF CopyHolds, Exists, TypeOK, MarkTicket, MarkTmpTokenConsumed, accounts, tickets
  <2>5. mailLogin' \subseteq mailed'
    BY <2>1 DEF MarkTicket, MarkTmpTokenConsumed, accounts, tickets
  <2> QED BY <2>2, <2>3, <2>4, <2>5 DEF Reached
<1> QED BY <1>5, <1>6, <1>7, <1>8, <1>9 DEF IInv, Tidy

LEMMA EmailSignupIInv ==
  ASSUME IInv, NEW r \in Requests, EmailSignup(r)
  PROVE  IInv'
<1> USE OAuthAssumption
<1>1. Tidy /\ OneUse /\ Reached
  BY DEF IInv
<1>2. TypeOK /\ Locked /\ RoomIsLeft
  BY <1>1 DEF Tidy
<1> DEFINE h == Held("lock", None, None, None, 0, None, None, FALSE)
<1>3. /\ h \in Job
      /\ h.at = "lock" /\ h.token = None /\ h.ext = None
      /\ h.cap = 0 /\ h.user = None /\ h.copy = FALSE
  <2>1. "lock" \in Stages
    BY <1>2 DEF TypeOK, Stages, Registering, EmailSignup, accounts, tickets
  <2>2. 0 \in 0..MaxCap
    OBVIOUS
  <2> QED BY <2>1, <2>2 DEF Held, Job
<1>4. /\ job' \in [Requests -> Job]
      /\ job'[r] = h
      /\ \A z \in Requests : z # r => job'[z] = job[z]
  <2>1. job' = [job EXCEPT ![r] = h]
    BY DEF EmailSignup, Goes, Registration
  <2> HIDE DEF h
  <2> QED BY <1>2, <1>3, <2>1, Moved
<1> HIDE DEF h
<1>5. TypeOK'
  BY <1>2, <1>3, <1>4 DEF TypeOK, EmailSignup, accounts, tickets
<1>6. Locked'
  BY <1>2, <1>3, <1>4 DEF Locked, TypeOK, EmailSignup, accounts, tickets
<1>7. RoomIsLeft'
  BY <1>2, <1>3, <1>4 DEF RoomIsLeft, Counted, Exists, EmailSignup, accounts, tickets
<1>8. OneUse'
  <2>1. TakenIsSpent /\ OneOpener /\ MarksIssued /\ StringOpensOnce
    BY <1>1 DEF OneUse
  <2>2. \A z \in Strings : Taken(z)' => Taken(z)
    BY <1>2, <1>3, <1>4 DEF Taken, Opens, Registering, EmailSignup, accounts, tickets
  <2>3. TakenIsSpent'
    BY <1>2, <1>3, <1>4, <2>1, <2>2 DEF TakenIsSpent, Spent, TypeOK, EmailSignup, accounts, tickets
  <2>4. OneOpener'
    BY <1>2, <1>3, <1>4, <2>1 DEF OneOpener, Opens, Registering, TypeOK, EmailSignup, accounts, tickets
  <2>5. MarksIssued'
    BY <1>2, <1>3, <1>4, <2>1, <2>2 DEF MarksIssued, TypeOK, EmailSignup, accounts, tickets
  <2>6. StringOpensOnce'
    BY <2>1 DEF StringOpensOnce, EmailSignup, accounts, tickets
  <2> QED BY <2>3, <2>4, <2>5, <2>6 DEF OneUse
<1>9. Reached'
  <2>1. RegisteredOwns /\ LoginIsKept /\ CopyHolds /\ mailLogin \subseteq mailed
    BY <1>1 DEF Reached
  <2>2. RegisteredOwns'
    BY <1>2, <2>1 DEF RegisteredOwns, TypeOK, EmailSignup, accounts, tickets
  <2>3. LoginIsKept'
    BY <1>2, <2>1 DEF LoginIsKept, Exists, TypeOK, EmailSignup, accounts, tickets
  <2>4. CopyHolds'
    BY <1>2, <1>3, <1>4, <2>1 DEF CopyHolds, Exists, TypeOK, EmailSignup, accounts, tickets
  <2>5. mailLogin' \subseteq mailed'
    BY <2>1 DEF EmailSignup, accounts, tickets
  <2> QED BY <2>2, <2>3, <2>4, <2>5 DEF Reached
<1> QED BY <1>5, <1>6, <1>7, <1>8, <1>9 DEF IInv, Tidy

LEMMA LockIInv ==
  ASSUME IInv, NEW r \in Requests, Lock(r)
  PROVE  IInv'
<1> USE OAuthAssumption
<1>1. Tidy /\ OneUse /\ Reached
  BY DEF IInv
<1>2. TypeOK /\ Locked /\ RoomIsLeft
  BY <1>1 DEF Tidy
<1> PICK b \in {"checks", "cap"} : b = IF job[r].ext # None THEN "checks" ELSE "cap"
  OBVIOUS
<1> DEFINE h == [job[r] EXCEPT !.at = b]
<1>3. /\ h \in Job
      /\ h.at = b /\ h.token = job[r].token /\ h.cap = job[r].cap
  <2>1. b \in Stages
    BY DEF Stages, Registering
  <2> QED BY <1>2, <2>1, Staged
<1>4. /\ job' \in [Requests -> Job]
      /\ job'[r] = h
      /\ \A z \in Requests : z # r => job'[z] = job[z]
  <2>1. job' = [job EXCEPT ![r] = h]
    BY DEF Lock, At, Goes
  <2> HIDE DEF h
  <2> QED BY <1>2, <1>3, <2>1, Moved
<1> HIDE DEF h
<1>5. TypeOK'
  <2>1. registerMu' \in Requests \cup {None}
    BY <1>2 DEF TypeOK, Lock, MayLock, accounts, tickets
  <2> QED BY <1>2, <1>3, <1>4, <2>1 DEF TypeOK, Lock, MayLock, accounts, tickets
<1>6. Locked'
  BY <1>2, <1>3, <1>4 DEF Locked, TypeOK, Lock, MayLock, accounts, tickets
<1>7. RoomIsLeft'
  <2>1. Counted' = Counted
    BY DEF Counted, Exists, Lock, accounts
  <2> SUFFICES ASSUME NEW z \in Requests, job'[z].at = "create", job'[z].cap > 0
               PROVE  Cardinality(Counted) < job'[z].cap
    BY <2>1 DEF RoomIsLeft
  <2>2. z # r
    BY <1>3, <1>4
  <2> QED BY <1>2, <1>4, <2>2 DEF RoomIsLeft
<1>8. OneUse'
  <2>1. job[r].at \in Registering /\ h.at \in Registering
    BY <1>3 DEF Lock, At, Registering
  <2> QED BY <1>1, <1>3, <1>4, <2>1, SameOpener DEF Lock, tickets
<1>9. Reached'
  <2>1. RegisteredOwns /\ LoginIsKept /\ CopyHolds /\ mailLogin \subseteq mailed
    BY <1>1 DEF Reached
  <2>2. RegisteredOwns' /\ LoginIsKept' /\ mailLogin' \subseteq mailed'
    BY <2>1 DEF RegisteredOwns, LoginIsKept, Exists, Lock, accounts
  <2>3. CopyHolds'
    <3> SUFFICES ASSUME NEW z \in Requests, job'[z].at = "unlink"
                 PROVE  \E u \in Users : /\ job'[z].user = u /\ state'[u] # "free"
                                         /\ job'[z].copy /\ Exists(u)' => phone'[u] # None \/ u \in mailed'
      BY DEF CopyHolds
    <3>1. z # r
      BY <1>3, <1>4
    <3>2. job'[z] = job[z]
      BY <1>4, <3>1
    <3> QED BY <2>1, <3>2 DEF CopyHolds, Exists, Lock, accounts
  <2> QED BY <2>1, <2>2, <2>3 DEF Reached
<1> QED BY <1>5, <1>6, <1>7, <1>8, <1>9 DEF IInv, Tidy

LEMMA CheckFreeIInv ==
  ASSUME IInv, NEW r \in Requests, CheckFree(r)
  PROVE  IInv'
<1> USE OAuthAssumption
<1>1. Tidy /\ OneUse /\ Reached
  BY DEF IInv
<1>2. TypeOK /\ Locked /\ RoomIsLeft
  BY <1>1 DEF Tidy
<1> DEFINE h == [job[r] EXCEPT !.at = "cap"]
<1>3. /\ h \in Job
      /\ h.at = "cap" /\ h.token = job[r].token /\ h.cap = job[r].cap
  <2>1. "cap" \in Stages
    BY DEF Stages, Registering
  <2> QED BY <1>2, <2>1, Staged
<1>4. /\ job' \in [Requests -> Job]
      /\ job'[r] = h
      /\ \A z \in Requests : z # r => job'[z] = job[z]
  <2>1. job' = [job EXCEPT ![r] = h]
    BY DEF CheckFree, At, Goes
  <2> HIDE DEF h
  <2> QED BY <1>2, <1>3, <2>1, Moved
<1> HIDE DEF h
<1>5. TypeOK'
  BY <1>2, <1>3, <1>4 DEF TypeOK, CheckFree, accounts, tickets
<1>6. Locked'
  <2>1. registerMu' = registerMu /\ registerMu = r
    BY <1>2 DEF Locked, CheckFree, At
  <2> QED BY <1>2, <1>4, <2>1 DEF Locked
<1>7. RoomIsLeft'
  BY <1>2, <1>3, <1>4 DEF RoomIsLeft, Counted, Exists, CheckFree, accounts, tickets
<1>8. OneUse'
  <2>1. job[r].at \in Registering /\ h.at \in Registering
    BY <1>3 DEF CheckFree, At, Registering
  <2> QED BY <1>1, <1>3, <1>4, <2>1, SameOpener DEF CheckFree, tickets
<1>9. Reached'
  <2>1. RegisteredOwns /\ LoginIsKept /\ CopyHolds /\ mailLogin \subseteq mailed
    BY <1>1 DEF Reached
  <2>2. RegisteredOwns'
    BY <1>2, <2>1 DEF RegisteredOwns, TypeOK, CheckFree, accounts, tickets
  <2>3. LoginIsKept'
    BY <1>2, <2>1 DEF LoginIsKept, Exists, TypeOK, CheckFree, accounts, tickets
  <2>4. CopyHolds'
    BY <1>2, <1>3, <1>4, <2>1 DEF CopyHolds, Exists, TypeOK, CheckFree, accounts, tickets
  <2>5. mailLogin' \subseteq mailed'
    BY <2>1 DEF CheckFree, accounts, tickets
  <2> QED BY <2>2, <2>3, <2>4, <2>5 DEF Reached
<1> QED BY <1>5, <1>6, <1>7, <1>8, <1>9 DEF IInv, Tidy

LEMMA CheckCapIInv ==
  ASSUME IInv, NEW r \in Requests, NEW readable \in BOOLEAN, CheckCap(r, readable)
  PROVE  IInv'
<1> USE OAuthAssumption
<1>1. Tidy /\ OneUse /\ Reached
  BY DEF IInv
<1>2. TypeOK /\ Locked /\ RoomIsLeft
  BY <1>1 DEF Tidy
<1> DEFINE known == IF readable THEN cap ELSE 0
           h == [job[r] EXCEPT !.at = "create", !.cap = known]
<1>0. known \in 0..MaxCap
  BY <1>2 DEF TypeOK
<1>k. known > 0 => Cardinality(Counted) < known
  <2>1. SUFFICES ASSUME readable, cap > 0 PROVE Cardinality(Counted) < cap
    OBVIOUS
  <2>2. ~(Cardinality(Counted) >= cap)
    BY <2>1 DEF CheckCap, HasRoom, CapReached
  <2>3. Cardinality(Counted) \in Nat /\ cap \in Nat
    BY <1>2, CountedFinite DEF TypeOK
  <2> QED BY <2>2, <2>3
<1>a. /\ job' = [job EXCEPT ![r] = h]
      /\ job[r].at = "cap"
      /\ UNCHANGED <<accounts, owner, tickets, cap, registerMu>>
  BY DEF CheckCap, Goes
<1> HIDE DEF known
<1>3. /\ h \in Job
      /\ h.at = "create" /\ h.token = job[r].token /\ h.cap = known
  <2>1. job[r] \in Job /\ "create" \in Stages
    BY <1>2 DEF TypeOK, Stages, Registering
  <2> QED BY <1>0, <2>1 DEF Job
<1>4. /\ job' \in [Requests -> Job]
      /\ job'[r] = h
      /\ \A z \in Requests : z # r => job'[z] = job[z]
  <2> HIDE DEF h
  <2> QED BY <1>2, <1>3, <1>a, Moved
<1> HIDE DEF h
<1>5. TypeOK'
  BY <1>2, <1>3, <1>4 DEF TypeOK, CheckCap, CapReached, accounts, tickets
<1>6. Locked'
  BY <1>2, <1>3, <1>4 DEF Locked, TypeOK, CheckCap, CapReached, accounts, tickets
<1>7. RoomIsLeft'
  <2>1. Counted' = Counted
    BY DEF Counted, Exists, CheckCap, accounts
  <2> QED BY <1>2, <1>3, <1>4, <1>k, <2>1 DEF RoomIsLeft
<1>8. OneUse'
  <2>1. job[r].at \in Registering /\ h.at \in Registering
    BY <1>3 DEF CheckCap, Registering
  <2> QED BY <1>1, <1>3, <1>4, <2>1, SameOpener DEF CheckCap, tickets
<1>9. Reached'
  <2>1. RegisteredOwns /\ LoginIsKept /\ CopyHolds /\ mailLogin \subseteq mailed
    BY <1>1 DEF Reached
  <2>2. RegisteredOwns'
    BY <1>2, <2>1 DEF RegisteredOwns, TypeOK, CheckCap, CapReached, accounts, tickets
  <2>3. LoginIsKept'
    BY <1>2, <2>1 DEF LoginIsKept, Exists, TypeOK, CheckCap, CapReached, accounts, tickets
  <2>4. CopyHolds'
    BY <1>2, <1>3, <1>4, <2>1 DEF CopyHolds, Exists, TypeOK, CheckCap, CapReached, accounts, tickets
  <2>5. mailLogin' \subseteq mailed'
    BY <2>1 DEF CheckCap, CapReached, accounts, tickets
  <2> QED BY <2>2, <2>3, <2>4, <2>5 DEF Reached
<1> QED BY <1>5, <1>6, <1>7, <1>8, <1>9 DEF IInv, Tidy

LEMMA CreateUserIInv ==
  ASSUME IInv, NEW r \in Requests, NEW u \in Users, CreateUser(r, u)
  PROVE  IInv'
<1> USE OAuthAssumption
<1>1. Tidy /\ OneUse /\ Reached
  BY DEF IInv
<1>2. TypeOK /\ Locked /\ RoomIsLeft
  BY <1>1 DEF Tidy
<1> DEFINE h == Idle
<1>3. h \in Job /\ h.at = "idle"
  BY IdleTyped
<1>4. /\ job' \in [Requests -> Job]
      /\ job'[r] = h
      /\ \A z \in Requests : z # r => job'[z] = job[z]
  <2>1. job' = [job EXCEPT ![r] = h]
    BY DEF CreateUser, Goes
  <2> HIDE DEF h
  <2> QED BY <1>2, <1>3, <2>1, Moved
<1> HIDE DEF h
<1>5. TypeOK'
  <2>0. job[r].token \in Strings \cup {None} /\ job[r].ext \in Externals \cup {None} /\ job[r].phone \in Phones \cup {None}
    <3>1. job[r] \in Job
      BY <1>2 DEF TypeOK
    <3> QED BY <3>1 DEF Job
  <2>1. state' \in [Users -> {"free", "open", "deleted"}]
    BY <1>2 DEF TypeOK, CreateUser, Unique, LinkOAuthIdentityTx, accounts, tickets
  <2>2. phone' \in [Users -> Phones \cup {None}]
    BY <1>2, <2>0 DEF TypeOK, CreateUser
  <2>3. origin' \in [Users -> Externals \cup {None}]
    BY <1>2, <2>0 DEF TypeOK, CreateUser
  <2>4. mailed' \subseteq Users
    BY <1>2 DEF TypeOK, CreateUser, Unique, LinkOAuthIdentityTx, accounts, tickets
  <2>5. owner' \in [Externals -> Users \cup {None}]
    BY <1>2 DEF TypeOK, CreateUser, Unique, LinkOAuthIdentityTx, accounts, tickets
  <2>6. opened' \subseteq Strings \X Users
    BY <1>2, <2>0 DEF TypeOK, CreateUser
  <2>7. registerMu' \in Requests \cup {None}
    BY <1>2 DEF TypeOK, CreateUser, Unique, LinkOAuthIdentityTx, accounts, tickets
  <2> QED BY <1>2, <1>3, <1>4, <2>1, <2>2, <2>3, <2>4, <2>5, <2>6, <2>7 DEF TypeOK, CreateUser, Unique, LinkOAuthIdentityTx, accounts, tickets
<1>6. Locked'
  BY <1>2, <1>3, <1>4 DEF Locked, TypeOK, CreateUser, Unique, LinkOAuthIdentityTx, accounts, tickets
<1>7. RoomIsLeft'
  <2>1. job[r].at = "create"
    BY DEF CreateUser
  <2>2. \A z \in Requests : job'[z].at # "create"
    BY <1>2, <1>3, <1>4, <2>1 DEF Locked
  <2> QED BY <2>2 DEF RoomIsLeft
<1>8. OneUse'
  <2>1. TakenIsSpent /\ OneOpener /\ MarksIssued /\ StringOpensOnce
    BY <1>1 DEF OneUse
  <2>2. job[r].at \in Registering
    BY DEF CreateUser, Registering
  <2>3. /\ ticket' = ticket /\ consumed' = consumed
        /\ opened' = IF job[r].token # None THEN opened \cup {<<job[r].token, u>>} ELSE opened
    BY DEF CreateUser
  <2>4. \A q \in Requests, z \in Strings : Opens(q, z)' <=> Opens(q, z) /\ q # r
    BY <1>3, <1>4 DEF Opens, Registering
  <2>5. \A z \in Strings : Taken(z)' => Taken(z)
    <3> SUFFICES ASSUME NEW z \in Strings, Taken(z)'
                 PROVE  Taken(z)
      OBVIOUS
    <3>1. CASE \E a \in opened' : a[1] = z
      BY <2>2, <2>3, <3>1 DEF Taken, Opens
    <3>2. CASE \E q \in Requests : Opens(q, z)'
      BY <2>4, <3>2 DEF Taken
    <3> QED BY <3>1, <3>2 DEF Taken
  <2>6. TakenIsSpent'
    BY <2>1, <2>3, <2>5 DEF TakenIsSpent, Spent
  <2>7. OneOpener'
    <3> SUFFICES ASSUME NEW q \in Requests, NEW z \in Strings, Opens(q, z)'
                 PROVE  /\ \A a \in opened' : a[1] # z
                        /\ \A y \in Requests : Opens(y, z)' => y = q
      BY DEF OneOpener
    <3>1. Opens(q, z) /\ q # r
      BY <2>4
    <3>2. job[r].token # z
      BY <2>1, <2>2, <3>1 DEF OneOpener, Opens
    <3>3. \A a \in opened' : a \in opened \/ a = <<job[r].token, u>>
      BY <2>3
    <3>4. \A a \in opened' : a[1] # z
      BY <2>1, <3>1, <3>2, <3>3 DEF OneOpener
    <3> QED BY <2>1, <2>4, <3>1, <3>4 DEF OneOpener
  <2>8. MarksIssued'
    BY <1>3, <1>4, <2>1, <2>3, <2>5 DEF MarksIssued
  <2>9. StringOpensOnce'
    <3>1. CASE job[r].token = None
      BY <2>1, <2>3, <3>1 DEF StringOpensOnce
    <3>2. CASE job[r].token # None
      <4>1. job[r].token \in Strings
        <5>1. job[r] \in Job
          BY <1>2 DEF TypeOK
        <5> QED BY <3>2, <5>1 DEF Job
      <4>2. \A a \in opened : a[1] # job[r].token
        BY <2>1, <2>2, <4>1 DEF OneOpener, Opens
      <4>3. \A a \in opened' : a \in opened \/ a = <<job[r].token, u>>
        BY <2>3
      <4> SUFFICES ASSUME NEW a \in opened', NEW b \in opened', a[1] = b[1]
                   PROVE  a = b
        BY DEF StringOpensOnce
      <4> QED BY <2>1, <4>2, <4>3 DEF StringOpensOnce
    <3> QED BY <3>1, <3>2
  <2> QED BY <2>6, <2>7, <2>8, <2>9 DEF OneUse
<1>9. Reached'
  <2>1. RegisteredOwns /\ LoginIsKept /\ CopyHolds /\ mailLogin \subseteq mailed
    BY <1>1 DEF Reached
  <2>2. job[r].ext \in Externals \cup {None}
    <3>1. job[r] \in Job
      BY <1>2 DEF TypeOK
    <3> QED BY <3>1 DEF Job
  <2>3. /\ state[u] = "free"
        /\ state' = [state EXCEPT ![u] = "open"]
        /\ phone' = [phone EXCEPT ![u] = job[r].phone]
        /\ origin' = [origin EXCEPT ![u] = job[r].ext]
        /\ mailed' = IF job[r].ext = None THEN mailed \cup {u} ELSE mailed
        /\ owner' = IF job[r].ext # None THEN [owner EXCEPT ![job[r].ext] = u] ELSE owner
        /\ job[r].ext # None => owner[job[r].ext] = None
        /\ mailLogin' = mailLogin
    BY DEF CreateUser, LinkOAuthIdentityTx, Unique
  <2>4. \A x \in Externals : owner[x] # None => owner'[x] = owner[x]
    BY <1>2, <2>2, <2>3 DEF TypeOK
  <2>5. RegisteredOwns'
    <3> SUFFICES ASSUME NEW v \in Users, origin'[v] # None
                 PROVE  owner'[origin'[v]] = v
      BY DEF RegisteredOwns
    <3>1. CASE v = u
      BY <1>2, <2>2, <2>3, <3>1 DEF TypeOK
    <3>2. CASE v # u
      <4>1. origin'[v] = origin[v] /\ origin[v] \in Externals
        BY <1>2, <2>3, <3>2 DEF TypeOK
      <4> QED BY <2>1, <2>4, <4>1 DEF RegisteredOwns
    <3> QED BY <3>1, <3>2
  <2>6. LoginIsKept'
    <3> SUFFICES ASSUME NEW v \in Users, Exists(v)', v \notin mailed'
                 PROVE  phone'[v] # None \/ \E x \in Externals : owner'[x] = v
      BY DEF LoginIsKept
    <3>1. CASE v = u
      BY <1>2, <2>2, <2>3, <3>1 DEF TypeOK
    <3>2. CASE v # u
      <4>1. Exists(v) /\ v \notin mailed /\ phone'[v] = phone[v]
        BY <1>2, <2>3, <3>2 DEF TypeOK, Exists
      <4> QED BY <2>1, <2>4, <4>1 DEF LoginIsKept
    <3> QED BY <3>1, <3>2
  <2>7. CopyHolds'
    BY <1>2, <1>3, <1>4, <2>1, <2>3 DEF CopyHolds, Exists, TypeOK
  <2> QED BY <2>1, <2>3, <2>5, <2>6, <2>7 DEF Reached
<1> QED BY <1>5, <1>6, <1>7, <1>8, <1>9 DEF IInv, Tidy

LEMMA RefuseIInv ==
  ASSUME IInv, NEW r \in Requests, Refuse(r)
  PROVE  IInv'
<1> USE OAuthAssumption
<1>1. Tidy /\ OneUse /\ Reached
  BY DEF IInv
<1>2. TypeOK /\ Locked /\ RoomIsLeft
  BY <1>1 DEF Tidy
<1> DEFINE h == Idle
<1>3. h \in Job /\ h.at = "idle"
  BY IdleTyped
<1>4. /\ job' \in [Requests -> Job]
      /\ job'[r] = h
      /\ \A z \in Requests : z # r => job'[z] = job[z]
  <2>1. job' = [job EXCEPT ![r] = h]
    BY DEF Refuse, Goes
  <2> HIDE DEF h
  <2> QED BY <1>2, <1>3, <2>1, Moved
<1> HIDE DEF h
<1>5. TypeOK'
  <2>1. registerMu' \in Requests \cup {None}
    BY <1>2 DEF TypeOK, Refuse, accounts, tickets
  <2> QED BY <1>2, <1>3, <1>4, <2>1 DEF TypeOK, Refuse, accounts, tickets
<1>6. Locked'
  BY <1>2, <1>3, <1>4 DEF Locked, TypeOK, Refuse, accounts, tickets
<1>7. RoomIsLeft'
  BY <1>2, <1>3, <1>4 DEF RoomIsLeft, Counted, Exists, Refuse, accounts, tickets
<1>8. OneUse'
  <2>1. TakenIsSpent /\ OneOpener /\ MarksIssued /\ StringOpensOnce
    BY <1>1 DEF OneUse
  <2>2. \A z \in Strings : Taken(z)' => Taken(z)
    BY <1>2, <1>3, <1>4 DEF Taken, Opens, Registering, Refuse, accounts, tickets
  <2>3. TakenIsSpent'
    BY <1>2, <1>3, <1>4, <2>1, <2>2 DEF TakenIsSpent, Spent, TypeOK, Refuse, accounts, tickets
  <2>4. OneOpener'
    BY <1>2, <1>3, <1>4, <2>1 DEF OneOpener, Opens, Registering, TypeOK, Refuse, accounts, tickets
  <2>5. MarksIssued'
    BY <1>2, <1>3, <1>4, <2>1, <2>2 DEF MarksIssued, TypeOK, Refuse, accounts, tickets
  <2>6. StringOpensOnce'
    BY <2>1 DEF StringOpensOnce, Refuse, accounts, tickets
  <2> QED BY <2>3, <2>4, <2>5, <2>6 DEF OneUse
<1>9. Reached'
  <2>1. RegisteredOwns /\ LoginIsKept /\ CopyHolds /\ mailLogin \subseteq mailed
    BY <1>1 DEF Reached
  <2>2. RegisteredOwns'
    BY <1>2, <2>1 DEF RegisteredOwns, TypeOK, Refuse, accounts, tickets
  <2>3. LoginIsKept'
    BY <1>2, <2>1 DEF LoginIsKept, Exists, TypeOK, Refuse, accounts, tickets
  <2>4. CopyHolds'
    BY <1>2, <1>3, <1>4, <2>1 DEF CopyHolds, Exists, TypeOK, Refuse, accounts, tickets
  <2>5. mailLogin' \subseteq mailed'
    BY <2>1 DEF Refuse, accounts, tickets
  <2> QED BY <2>2, <2>3, <2>4, <2>5 DEF Reached
<1> QED BY <1>5, <1>6, <1>7, <1>8, <1>9 DEF IInv, Tidy

LEMMA LinkCallbackIInv ==
  ASSUME IInv, NEW r \in Requests, NEW u \in Users, NEW x \in Externals, LinkCallback(r, u, x)
  PROVE  IInv'
<1> USE OAuthAssumption
<1>1. Tidy /\ OneUse /\ Reached
  BY DEF IInv
<1>2. TypeOK /\ Locked /\ RoomIsLeft
  BY <1>1 DEF Tidy
<1> DEFINE h == Held("insert", None, x, None, 0, u, None, FALSE)
<1>3. /\ h \in Job
      /\ h.at = "insert" /\ h.token = None /\ h.ext = x
      /\ h.cap = 0 /\ h.user = u /\ h.copy = FALSE
  <2>1. "insert" \in Stages
    BY <1>2 DEF TypeOK, Stages, Registering, LinkCallback, accounts, tickets
  <2>2. 0 \in 0..MaxCap
    OBVIOUS
  <2> QED BY <2>1, <2>2 DEF Held, Job
<1>4. /\ job' \in [Requests -> Job]
      /\ job'[r] = h
      /\ \A z \in Requests : z # r => job'[z] = job[z]
  <2>1. job' = [job EXCEPT ![r] = h]
    BY DEF LinkCallback, Goes, Linking
  <2> HIDE DEF h
  <2> QED BY <1>2, <1>3, <2>1, Moved
<1> HIDE DEF h
<1>5. TypeOK'
  BY <1>2, <1>3, <1>4 DEF TypeOK, LinkCallback, accounts, tickets
<1>6. Locked'
  BY <1>2, <1>3, <1>4 DEF Locked, TypeOK, LinkCallback, accounts, tickets
<1>7. RoomIsLeft'
  BY <1>2, <1>3, <1>4 DEF RoomIsLeft, Counted, Exists, LinkCallback, accounts, tickets
<1>8. OneUse'
  <2>1. TakenIsSpent /\ OneOpener /\ MarksIssued /\ StringOpensOnce
    BY <1>1 DEF OneUse
  <2>2. \A z \in Strings : Taken(z)' => Taken(z)
    BY <1>2, <1>3, <1>4 DEF Taken, Opens, Registering, LinkCallback, accounts, tickets
  <2>3. TakenIsSpent'
    BY <1>2, <1>3, <1>4, <2>1, <2>2 DEF TakenIsSpent, Spent, TypeOK, LinkCallback, accounts, tickets
  <2>4. OneOpener'
    BY <1>2, <1>3, <1>4, <2>1 DEF OneOpener, Opens, Registering, TypeOK, LinkCallback, accounts, tickets
  <2>5. MarksIssued'
    BY <1>2, <1>3, <1>4, <2>1, <2>2 DEF MarksIssued, TypeOK, LinkCallback, accounts, tickets
  <2>6. StringOpensOnce'
    BY <2>1 DEF StringOpensOnce, LinkCallback, accounts, tickets
  <2> QED BY <2>3, <2>4, <2>5, <2>6 DEF OneUse
<1>9. Reached'
  <2>1. RegisteredOwns /\ LoginIsKept /\ CopyHolds /\ mailLogin \subseteq mailed
    BY <1>1 DEF Reached
  <2>2. RegisteredOwns'
    BY <1>2, <2>1 DEF RegisteredOwns, TypeOK, LinkCallback, accounts, tickets
  <2>3. LoginIsKept'
    BY <1>2, <2>1 DEF LoginIsKept, Exists, TypeOK, LinkCallback, accounts, tickets
  <2>4. CopyHolds'
    BY <1>2, <1>3, <1>4, <2>1 DEF CopyHolds, Exists, TypeOK, LinkCallback, accounts, tickets
  <2>5. mailLogin' \subseteq mailed'
    BY <2>1 DEF LinkCallback, accounts, tickets
  <2> QED BY <2>2, <2>3, <2>4, <2>5 DEF Reached
<1> QED BY <1>5, <1>6, <1>7, <1>8, <1>9 DEF IInv, Tidy

LEMMA LinkIdentityIInv ==
  ASSUME IInv, NEW r \in Requests, LinkIdentity(r)
  PROVE  IInv'
<1> USE OAuthAssumption
<1>1. Tidy /\ OneUse /\ Reached
  BY DEF IInv
<1>2. TypeOK /\ Locked /\ RoomIsLeft
  BY <1>1 DEF Tidy
<1> DEFINE h == Idle
<1>3. h \in Job /\ h.at = "idle"
  BY IdleTyped
<1>4. /\ job' \in [Requests -> Job]
      /\ job'[r] = h
      /\ \A z \in Requests : z # r => job'[z] = job[z]
  <2>1. job' = [job EXCEPT ![r] = h]
    BY DEF LinkIdentity, Goes
  <2> HIDE DEF h
  <2> QED BY <1>2, <1>3, <2>1, Moved
<1> HIDE DEF h
<1>5. TypeOK'
  <2>1. owner' \in [Externals -> Users \cup {None}]
    <3>1. job[r] \in Job
      BY <1>2 DEF TypeOK
    <3>2. job[r].user \in Users \cup {None} /\ job[r].ext \in Externals \cup {None}
      BY <3>1 DEF Job
    <3> QED BY <1>2, <3>2 DEF TypeOK, LinkIdentity, LinkOAuthIdentityTx
  <2> QED BY <1>2, <1>3, <1>4, <2>1 DEF TypeOK, LinkIdentity, Unique, LinkOAuthIdentityTx, accounts, tickets
<1>6. Locked'
  BY <1>2, <1>3, <1>4 DEF Locked, TypeOK, LinkIdentity, Unique, LinkOAuthIdentityTx, accounts, tickets
<1>7. RoomIsLeft'
  BY <1>2, <1>3, <1>4 DEF RoomIsLeft, Counted, Exists, LinkIdentity, Unique, LinkOAuthIdentityTx, accounts, tickets
<1>8. OneUse'
  <2>1. TakenIsSpent /\ OneOpener /\ MarksIssued /\ StringOpensOnce
    BY <1>1 DEF OneUse
  <2>2. \A z \in Strings : Taken(z)' => Taken(z)
    BY <1>2, <1>3, <1>4 DEF Taken, Opens, Registering, LinkIdentity, Unique, LinkOAuthIdentityTx, accounts, tickets
  <2>3. TakenIsSpent'
    BY <1>2, <1>3, <1>4, <2>1, <2>2 DEF TakenIsSpent, Spent, TypeOK, LinkIdentity, Unique, LinkOAuthIdentityTx, accounts, tickets
  <2>4. OneOpener'
    BY <1>2, <1>3, <1>4, <2>1 DEF OneOpener, Opens, Registering, TypeOK, LinkIdentity, Unique, LinkOAuthIdentityTx, accounts, tickets
  <2>5. MarksIssued'
    BY <1>2, <1>3, <1>4, <2>1, <2>2 DEF MarksIssued, TypeOK, LinkIdentity, Unique, LinkOAuthIdentityTx, accounts, tickets
  <2>6. StringOpensOnce'
    BY <2>1 DEF StringOpensOnce, LinkIdentity, Unique, LinkOAuthIdentityTx, accounts, tickets
  <2> QED BY <2>3, <2>4, <2>5, <2>6 DEF OneUse
<1>9. Reached'
  <2>1. RegisteredOwns /\ LoginIsKept /\ CopyHolds /\ mailLogin \subseteq mailed
    BY <1>1 DEF Reached
  <2>2. RegisteredOwns'
    BY <1>2, <2>1 DEF RegisteredOwns, TypeOK, LinkIdentity, Unique, LinkOAuthIdentityTx, accounts, tickets
  <2>3. LoginIsKept'
    BY <1>2, <2>1 DEF LoginIsKept, Exists, TypeOK, LinkIdentity, Unique, LinkOAuthIdentityTx, accounts, tickets
  <2>4. CopyHolds'
    BY <1>2, <1>3, <1>4, <2>1 DEF CopyHolds, Exists, TypeOK, LinkIdentity, Unique, LinkOAuthIdentityTx, accounts, tickets
  <2>5. mailLogin' \subseteq mailed'
    BY <2>1 DEF LinkIdentity, Unique, LinkOAuthIdentityTx, accounts, tickets
  <2> QED BY <2>2, <2>3, <2>4, <2>5 DEF Reached
<1> QED BY <1>5, <1>6, <1>7, <1>8, <1>9 DEF IInv, Tidy

LEMMA UnlinkMyOAuthIdentityIInv ==
  ASSUME IInv, NEW r \in Requests, NEW u \in Users, NEW q \in Providers, UnlinkMyOAuthIdentity(r, u, q)
  PROVE  IInv'
<1> USE OAuthAssumption
<1>1. Tidy /\ OneUse /\ Reached
  BY DEF IInv
<1>2. TypeOK /\ Locked /\ RoomIsLeft
  BY <1>1 DEF Tidy
<1> PICK c \in BOOLEAN : (c <=> CopyHasLogin(u, q)) /\ Goes(r, Unlinking(u, q, c))
  BY DEF UnlinkMyOAuthIdentity
<1> DEFINE h == Held("unlink", None, None, None, 0, u, q, c)
<1>3. /\ h \in Job
      /\ h.at = "unlink" /\ h.token = None /\ h.ext = None
      /\ h.cap = 0 /\ h.user = u /\ h.copy = c
  <2>1. "unlink" \in Stages
    BY <1>2 DEF TypeOK, Stages, Registering, UnlinkMyOAuthIdentity, CopyHasLogin, accounts, tickets
  <2>2. 0 \in 0..MaxCap
    OBVIOUS
  <2> QED BY <2>1, <2>2 DEF Held, Job
<1>4. /\ job' \in [Requests -> Job]
      /\ job'[r] = h
      /\ \A z \in Requests : z # r => job'[z] = job[z]
  <2>1. job' = [job EXCEPT ![r] = h]
    BY DEF Goes, Unlinking
  <2> HIDE DEF h
  <2> QED BY <1>2, <1>3, <2>1, Moved
<1> HIDE DEF h
<1>5. TypeOK'
  BY <1>2, <1>3, <1>4 DEF TypeOK, UnlinkMyOAuthIdentity, CopyHasLogin, accounts, tickets
<1>6. Locked'
  BY <1>2, <1>3, <1>4 DEF Locked, TypeOK, UnlinkMyOAuthIdentity, CopyHasLogin, accounts, tickets
<1>7. RoomIsLeft'
  BY <1>2, <1>3, <1>4 DEF RoomIsLeft, Counted, Exists, UnlinkMyOAuthIdentity, CopyHasLogin, accounts, tickets
<1>8. OneUse'
  <2>1. TakenIsSpent /\ OneOpener /\ MarksIssued /\ StringOpensOnce
    BY <1>1 DEF OneUse
  <2>2. \A z \in Strings : Taken(z)' => Taken(z)
    BY <1>2, <1>3, <1>4 DEF Taken, Opens, Registering, UnlinkMyOAuthIdentity, CopyHasLogin, accounts, tickets
  <2>3. TakenIsSpent'
    BY <1>2, <1>3, <1>4, <2>1, <2>2 DEF TakenIsSpent, Spent, TypeOK, UnlinkMyOAuthIdentity, CopyHasLogin, accounts, tickets
  <2>4. OneOpener'
    BY <1>2, <1>3, <1>4, <2>1 DEF OneOpener, Opens, Registering, TypeOK, UnlinkMyOAuthIdentity, CopyHasLogin, accounts, tickets
  <2>5. MarksIssued'
    BY <1>2, <1>3, <1>4, <2>1, <2>2 DEF MarksIssued, TypeOK, UnlinkMyOAuthIdentity, CopyHasLogin, accounts, tickets
  <2>6. StringOpensOnce'
    BY <2>1 DEF StringOpensOnce, UnlinkMyOAuthIdentity, CopyHasLogin, accounts, tickets
  <2> QED BY <2>3, <2>4, <2>5, <2>6 DEF OneUse
<1>9. Reached'
  <2>1. RegisteredOwns /\ LoginIsKept /\ CopyHolds /\ mailLogin \subseteq mailed
    BY <1>1 DEF Reached
  <2>2. RegisteredOwns'
    BY <1>2, <2>1 DEF RegisteredOwns, TypeOK, UnlinkMyOAuthIdentity, CopyHasLogin, accounts, tickets
  <2>3. LoginIsKept'
    BY <1>2, <2>1 DEF LoginIsKept, Exists, TypeOK, UnlinkMyOAuthIdentity, CopyHasLogin, accounts, tickets
  <2>4. CopyHolds'
    BY <1>2, <1>3, <1>4, <2>1 DEF CopyHolds, Exists, TypeOK, UnlinkMyOAuthIdentity, CopyHasLogin, accounts, tickets
  <2>5. mailLogin' \subseteq mailed'
    BY <2>1 DEF UnlinkMyOAuthIdentity, CopyHasLogin, accounts, tickets
  <2> QED BY <2>2, <2>3, <2>4, <2>5 DEF Reached
<1> QED BY <1>5, <1>6, <1>7, <1>8, <1>9 DEF IInv, Tidy

LEMMA UnlinkIInv ==
  ASSUME IInv, NEW r \in Requests, NEW x \in Externals, Unlink(r, x)
  PROVE  IInv'
<1> USE OAuthAssumption
<1>1. Tidy /\ OneUse /\ Reached
  BY DEF IInv
<1>2. TypeOK /\ Locked /\ RoomIsLeft
  BY <1>1 DEF Tidy
<1> DEFINE h == Idle
<1>3. h \in Job /\ h.at = "idle"
  BY IdleTyped
<1>4. /\ job' \in [Requests -> Job]
      /\ job'[r] = h
      /\ \A z \in Requests : z # r => job'[z] = job[z]
  <2>1. job' = [job EXCEPT ![r] = h]
    BY DEF Unlink, Goes
  <2> HIDE DEF h
  <2> QED BY <1>2, <1>3, <2>1, Moved
<1> HIDE DEF h
<1>5. TypeOK'
  <2>1. owner' \in [Externals -> Users \cup {None}]
    BY <1>2 DEF TypeOK, Unlink, HasIdentity, accounts, tickets
  <2>2. origin' \in [Users -> Externals \cup {None}]
    BY <1>2 DEF TypeOK, Unlink, HasIdentity, accounts, tickets
  <2> QED BY <1>2, <1>3, <1>4, <2>1, <2>2 DEF TypeOK, Unlink, HasIdentity, accounts, tickets
<1>6. Locked'
  BY <1>2, <1>3, <1>4 DEF Locked, TypeOK, Unlink, HasIdentity, accounts, tickets
<1>7. RoomIsLeft'
  BY <1>2, <1>3, <1>4 DEF RoomIsLeft, Counted, Exists, Unlink, HasIdentity, accounts, tickets
<1>8. OneUse'
  <2>1. TakenIsSpent /\ OneOpener /\ MarksIssued /\ StringOpensOnce
    BY <1>1 DEF OneUse
  <2>2. \A z \in Strings : Taken(z)' => Taken(z)
    BY <1>2, <1>3, <1>4 DEF Taken, Opens, Registering, Unlink, HasIdentity, accounts, tickets
  <2>3. TakenIsSpent'
    BY <1>2, <1>3, <1>4, <2>1, <2>2 DEF TakenIsSpent, Spent, TypeOK, Unlink, HasIdentity, accounts, tickets
  <2>4. OneOpener'
    BY <1>2, <1>3, <1>4, <2>1 DEF OneOpener, Opens, Registering, TypeOK, Unlink, HasIdentity, accounts, tickets
  <2>5. MarksIssued'
    BY <1>2, <1>3, <1>4, <2>1, <2>2 DEF MarksIssued, TypeOK, Unlink, HasIdentity, accounts, tickets
  <2>6. StringOpensOnce'
    BY <2>1 DEF StringOpensOnce, Unlink, HasIdentity, accounts, tickets
  <2> QED BY <2>3, <2>4, <2>5, <2>6 DEF OneUse
<1>9. Reached'
  <2>1. RegisteredOwns /\ LoginIsKept /\ CopyHolds /\ mailLogin \subseteq mailed
    BY <1>1 DEF Reached
  <2>2. PICK u \in Users : /\ job[r].user = u /\ state[u] # "free"
                           /\ job[r].copy /\ Exists(u) => phone[u] # None \/ u \in mailed
    BY <2>1 DEF CopyHolds, Unlink
  <2>a. job[r].user = u
    BY <2>2, Zenon
  <2>b. job[r].copy /\ Exists(u) => phone[u] # None \/ u \in mailed
    BY <2>2, Zenon
  <2>3. owner[x] = u /\ owner' = [owner EXCEPT ![x] = None]
    <3>1. owner[x] = job[r].user /\ owner' = [owner EXCEPT ![x] = None]
      BY ZenonT(30) DEF Unlink
    <3> QED BY <2>a, <3>1
  <2>4. RegisteredOwns'
    BY <1>2, <2>1, <2>a, <2>3 DEF RegisteredOwns, TypeOK, Unlink
  <2>5. LoginIsKept'
    <3> SUFFICES ASSUME NEW v \in Users, Exists(v), v \notin mailed
                 PROVE  phone[v] # None \/ \E y \in Externals : owner'[y] = v
      BY DEF LoginIsKept, Exists, Unlink
    <3>1. CASE v # u
      <4>1. phone[v] # None \/ \E y \in Externals : owner[y] = v
        BY <2>1 DEF LoginIsKept
      <4>2. \A y \in Externals : owner[y] = v => owner'[y] = v
        BY <1>2, <2>3, <3>1 DEF TypeOK
      <4> QED BY <4>1, <4>2
    <3>2. CASE v = u /\ job[r].copy
      BY <2>b, <3>2, Zenon
    <3>3. CASE v = u /\ ~job[r].copy
      <4>0. job[r].copy \/ \E q \in Providers \ {job[r].prov} : HasIdentity(job[r].user, q)
        BY ZenonT(30) DEF Unlink
      <4>1. PICK q \in Providers \ {job[r].prov} : HasIdentity(u, q)
        BY <2>a, <3>3, <4>0, Zenon
      <4>2. PICK y \in Externals : owner[y] = u /\ ProviderOf[y] = q
        BY <4>1 DEF HasIdentity
      <4>3. ProviderOf[x] = job[r].prov
        BY DEF Unlink
      <4>4. y # x
        BY <4>1, <4>2, <4>3
      <4> QED BY <1>2, <2>3, <3>3, <4>2, <4>4 DEF TypeOK
    <3> QED BY <3>1, <3>2, <3>3
  <2>6. CopyHolds'
    BY <1>2, <1>3, <1>4, <2>1 DEF CopyHolds, Exists, Unlink
  <2> QED BY <2>1, <2>4, <2>5, <2>6 DEF Reached, Unlink
<1> QED BY <1>5, <1>6, <1>7, <1>8, <1>9 DEF IInv, Tidy

LEMMA OAuthCallbackIInv ==
  ASSUME IInv, NEW t \in Tickets, NEW x \in Externals, NEW k \in Kinds, NEW readable \in BOOLEAN, OAuthCallback(t, x, k, readable)
  PROVE  IInv'
<1> USE OAuthAssumption
<1>1. Tidy /\ OneUse /\ Reached
  BY DEF IInv
<1>2. TypeOK /\ Locked /\ RoomIsLeft
  BY <1>1 DEF Tidy
<1>5. TypeOK'
  <2>1. ticket' \in [Tickets -> {None} \cup Issued]
    <3>1. [ext |-> x, kind |-> k, fresh |-> TRUE] \in Issued
      BY DEF Issued
    <3>2. ticket' = [ticket EXCEPT ![t] = [ext |-> x, kind |-> k, fresh |-> TRUE]]
      BY DEF OAuthCallback
    <3> QED BY <1>2, <3>1, <3>2 DEF TypeOK
  <2> QED BY <1>2, <2>1 DEF TypeOK, OAuthCallback, accounts, tickets
<1>6. Locked'
  BY <1>2 DEF Locked, TypeOK, OAuthCallback, accounts, tickets
<1>7. RoomIsLeft'
  BY <1>2 DEF RoomIsLeft, Counted, Exists, OAuthCallback, accounts, tickets
<1>8. OneUse'
  <2>1. TakenIsSpent /\ OneOpener /\ MarksIssued /\ StringOpensOnce
    BY <1>1 DEF OneUse
  <2>2. \A z \in Strings : Taken(z)' <=> Taken(z)
    BY <1>2 DEF Taken, Opens, Registering, OAuthCallback, accounts, tickets
  <2>k. \A z \in Strings : Read(z) # None => Read(z)' = Read(z)
    <3>1. \A y \in Tickets : ticket[y] # None => ticket'[y] = ticket[y]
      BY <1>2 DEF TypeOK, OAuthCallback
    <3> QED BY <3>1 DEF Read
  <2>3. TakenIsSpent'
    BY <2>1, <2>2, <2>k DEF TakenIsSpent, Spent, OAuthCallback
  <2>4. OneOpener'
    BY <1>2, <2>1 DEF OneOpener, Opens, Registering, TypeOK, OAuthCallback, accounts, tickets
  <2>5. MarksIssued'
    BY <2>1, <2>2, <2>k DEF MarksIssued, OAuthCallback
  <2>6. StringOpensOnce'
    BY <2>1 DEF StringOpensOnce, OAuthCallback, accounts, tickets
  <2> QED BY <2>3, <2>4, <2>5, <2>6 DEF OneUse
<1>9. Reached'
  <2>1. RegisteredOwns /\ LoginIsKept /\ CopyHolds /\ mailLogin \subseteq mailed
    BY <1>1 DEF Reached
  <2>2. RegisteredOwns'
    BY <1>2, <2>1 DEF RegisteredOwns, TypeOK, OAuthCallback, accounts, tickets
  <2>3. LoginIsKept'
    BY <1>2, <2>1 DEF LoginIsKept, Exists, TypeOK, OAuthCallback, accounts, tickets
  <2>4. CopyHolds'
    BY <1>2, <2>1 DEF CopyHolds, Exists, TypeOK, OAuthCallback, accounts, tickets
  <2>5. mailLogin' \subseteq mailed'
    BY <2>1 DEF OAuthCallback, accounts, tickets
  <2> QED BY <2>2, <2>3, <2>4, <2>5 DEF Reached
<1> QED BY <1>5, <1>6, <1>7, <1>8, <1>9 DEF IInv, Tidy

LEMMA ExpireIInv ==
  ASSUME IInv, NEW t \in Tickets, Expire(t)
  PROVE  IInv'
<1> USE OAuthAssumption
<1>1. Tidy /\ OneUse /\ Reached
  BY DEF IInv
<1>2. TypeOK /\ Locked /\ RoomIsLeft
  BY <1>1 DEF Tidy
<1>5. TypeOK'
  <2>1. ticket' \in [Tickets -> {None} \cup Issued]
    <3>1. ticket[t] \in Issued
      BY <1>2 DEF TypeOK, Expire
    <3>2. [ticket[t] EXCEPT !.fresh = FALSE] \in Issued
      BY <3>1 DEF Issued
    <3>3. ticket' = [ticket EXCEPT ![t] = [ticket[t] EXCEPT !.fresh = FALSE]]
      BY DEF Expire
    <3> HIDE DEF Expire
    <3> QED BY <1>2, <3>2, <3>3 DEF TypeOK
  <2> QED BY <1>2, <2>1 DEF TypeOK, Expire, accounts, tickets
<1>6. Locked'
  BY <1>2 DEF Locked, TypeOK, Expire, accounts, tickets
<1>7. RoomIsLeft'
  BY <1>2 DEF RoomIsLeft, Counted, Exists, Expire, accounts, tickets
<1>8. OneUse'
  <2>1. TakenIsSpent /\ OneOpener /\ MarksIssued /\ StringOpensOnce
    BY <1>1 DEF OneUse
  <2>2. \A q \in Requests, z \in Strings : Opens(q, z)' <=> Opens(q, z)
    BY DEF Opens, Expire
  <2>3. \A z \in Strings : Taken(z)' <=> Taken(z)
    BY <2>2 DEF Taken, Expire
  <2>4. /\ consumed' = consumed
        /\ ticket'[t] # None /\ ticket'[t].fresh = FALSE
        /\ \A z \in Tickets : z # t => ticket'[z] = ticket[z]
    <3>1. ticket[t] \in Issued
      BY <1>2 DEF TypeOK, Expire
    <3>2. ticket' = [ticket EXCEPT ![t] = [ticket[t] EXCEPT !.fresh = FALSE]] /\ consumed' = consumed
      BY DEF Expire
    <3>3. ticket'[t] = [ticket[t] EXCEPT !.fresh = FALSE]
      BY <1>2, <3>2 DEF TypeOK
    <3>4. ticket'[t].fresh = FALSE
      BY <3>1, <3>3 DEF Issued
    <3>5. [ticket[t] EXCEPT !.fresh = FALSE] \in Issued
      BY <3>1 DEF Issued
    <3>6. ticket'[t] # None
      BY <3>3, <3>5
    <3> QED BY <1>2, <3>2, <3>4, <3>6 DEF TypeOK
  <2>k. \A z \in Strings :
          /\ Read(z) # None => Read(z)' # None
          /\ Read(z)' = Read(z) \/ Read(z)'.fresh = FALSE
    BY <2>4 DEF Read
  <2>5. TakenIsSpent'
    BY <2>1, <2>3, <2>4, <2>k DEF TakenIsSpent, Spent
  <2>6. OneOpener'
    BY <2>1, <2>2 DEF OneOpener, Expire
  <2>7. MarksIssued'
    BY <2>1, <2>3, <2>4, <2>k DEF MarksIssued, Expire
  <2>8. StringOpensOnce'
    BY <2>1 DEF StringOpensOnce, Expire
  <2> QED BY <2>5, <2>6, <2>7, <2>8 DEF OneUse
<1>9. Reached'
  <2>1. RegisteredOwns /\ LoginIsKept /\ CopyHolds /\ mailLogin \subseteq mailed
    BY <1>1 DEF Reached
  <2>2. RegisteredOwns'
    BY <1>2, <2>1 DEF RegisteredOwns, TypeOK, Expire, accounts, tickets
  <2>3. LoginIsKept'
    BY <1>2, <2>1 DEF LoginIsKept, Exists, TypeOK, Expire, accounts, tickets
  <2>4. CopyHolds'
    BY <1>2, <2>1 DEF CopyHolds, Exists, TypeOK, Expire, accounts, tickets
  <2>5. mailLogin' \subseteq mailed'
    BY <2>1 DEF Expire, accounts, tickets
  <2> QED BY <2>2, <2>3, <2>4, <2>5 DEF Reached
<1> QED BY <1>5, <1>6, <1>7, <1>8, <1>9 DEF IInv, Tidy

LEMMA ForgetIInv ==
  ASSUME IInv, NEW t \in Strings, Forget(t)
  PROVE  IInv'
<1> USE OAuthAssumption
<1>1. Tidy /\ OneUse /\ Reached
  BY DEF IInv
<1>2. TypeOK /\ Locked /\ RoomIsLeft
  BY <1>1 DEF Tidy
<1>5. TypeOK'
  <2>1. consumed' \subseteq Strings
    BY <1>2 DEF TypeOK, Forget, accounts, tickets
  <2> QED BY <1>2, <2>1 DEF TypeOK, Forget, accounts, tickets
<1>6. Locked'
  BY <1>2 DEF Locked, TypeOK, Forget, accounts, tickets
<1>7. RoomIsLeft'
  BY <1>2 DEF RoomIsLeft, Counted, Exists, Forget, accounts, tickets
<1>8. OneUse'
  <2>1. TakenIsSpent /\ OneOpener /\ MarksIssued /\ StringOpensOnce
    BY <1>1 DEF OneUse
  <2>2. \A z \in Strings : Taken(z)' => Taken(z)
    BY <1>2 DEF Taken, Opens, Registering, Forget, accounts, tickets
  <2>3. TakenIsSpent'
    BY <1>2, <2>1, <2>2 DEF TakenIsSpent, Spent, TypeOK, Forget, accounts, tickets
  <2>4. OneOpener'
    BY <1>2, <2>1 DEF OneOpener, Opens, Registering, TypeOK, Forget, accounts, tickets
  <2>5. MarksIssued'
    BY <1>2, <2>1, <2>2 DEF MarksIssued, TypeOK, Forget, accounts, tickets
  <2>6. StringOpensOnce'
    BY <2>1 DEF StringOpensOnce, Forget, accounts, tickets
  <2> QED BY <2>3, <2>4, <2>5, <2>6 DEF OneUse
<1>9. Reached'
  <2>1. RegisteredOwns /\ LoginIsKept /\ CopyHolds /\ mailLogin \subseteq mailed
    BY <1>1 DEF Reached
  <2>2. RegisteredOwns'
    BY <1>2, <2>1 DEF RegisteredOwns, TypeOK, Forget, accounts, tickets
  <2>3. LoginIsKept'
    BY <1>2, <2>1 DEF LoginIsKept, Exists, TypeOK, Forget, accounts, tickets
  <2>4. CopyHolds'
    BY <1>2, <2>1 DEF CopyHolds, Exists, TypeOK, Forget, accounts, tickets
  <2>5. mailLogin' \subseteq mailed'
    BY <2>1 DEF Forget, accounts, tickets
  <2> QED BY <2>2, <2>3, <2>4, <2>5 DEF Reached
<1> QED BY <1>5, <1>6, <1>7, <1>8, <1>9 DEF IInv, Tidy

LEMMA EmailStepIInv ==
  ASSUME IInv, NEW u \in Users, EmailStep(u)
  PROVE  IInv'
<1> USE OAuthAssumption
<1>1. Tidy /\ OneUse /\ Reached
  BY DEF IInv
<1>2. TypeOK /\ Locked /\ RoomIsLeft
  BY <1>1 DEF Tidy
<1>5. TypeOK'
  <2>1. mailLogin' \subseteq Users
    BY <1>2 DEF TypeOK, EmailStep, accounts, tickets
  <2>2. mailed' \subseteq Users
    BY <1>2 DEF TypeOK, EmailStep, accounts, tickets
  <2> QED BY <1>2, <2>1, <2>2 DEF TypeOK, EmailStep, accounts, tickets
<1>6. Locked'
  BY <1>2 DEF Locked, TypeOK, EmailStep, accounts, tickets
<1>7. RoomIsLeft'
  BY <1>2 DEF RoomIsLeft, Counted, Exists, EmailStep, accounts, tickets
<1>8. OneUse'
  <2>1. TakenIsSpent /\ OneOpener /\ MarksIssued /\ StringOpensOnce
    BY <1>1 DEF OneUse
  <2>2. \A z \in Strings : Taken(z)' => Taken(z)
    BY <1>2 DEF Taken, Opens, Registering, EmailStep, accounts, tickets
  <2>3. TakenIsSpent'
    BY <1>2, <2>1, <2>2 DEF TakenIsSpent, Spent, TypeOK, EmailStep, accounts, tickets
  <2>4. OneOpener'
    BY <1>2, <2>1 DEF OneOpener, Opens, Registering, TypeOK, EmailStep, accounts, tickets
  <2>5. MarksIssued'
    BY <1>2, <2>1, <2>2 DEF MarksIssued, TypeOK, EmailStep, accounts, tickets
  <2>6. StringOpensOnce'
    BY <2>1 DEF StringOpensOnce, EmailStep, accounts, tickets
  <2> QED BY <2>3, <2>4, <2>5, <2>6 DEF OneUse
<1>9. Reached'
  <2>1. RegisteredOwns /\ LoginIsKept /\ CopyHolds /\ mailLogin \subseteq mailed
    BY <1>1 DEF Reached
  <2>2. RegisteredOwns'
    BY <1>2, <2>1 DEF RegisteredOwns, TypeOK, EmailStep, accounts, tickets
  <2>3. LoginIsKept'
    BY <1>2, <2>1 DEF LoginIsKept, Exists, TypeOK, EmailStep, accounts, tickets
  <2>4. CopyHolds'
    BY <1>2, <2>1 DEF CopyHolds, Exists, TypeOK, EmailStep, accounts, tickets
  <2>5. mailLogin' \subseteq mailed'
    BY <2>1 DEF EmailStep, accounts, tickets
  <2> QED BY <2>2, <2>3, <2>4, <2>5 DEF Reached
<1> QED BY <1>5, <1>6, <1>7, <1>8, <1>9 DEF IInv, Tidy

LEMMA DeleteUserIInv ==
  ASSUME IInv, NEW u \in Users, DeleteUser(u)
  PROVE  IInv'
<1> USE OAuthAssumption
<1>1. Tidy /\ OneUse /\ Reached
  BY DEF IInv
<1>2. TypeOK /\ Locked /\ RoomIsLeft
  BY <1>1 DEF Tidy
<1>5. TypeOK'
  <2>1. state' \in [Users -> {"free", "open", "deleted"}]
    BY <1>2 DEF TypeOK, DeleteUser, accounts, tickets
  <2> QED BY <1>2, <2>1 DEF TypeOK, DeleteUser, accounts, tickets
<1>6. Locked'
  BY <1>2 DEF Locked, TypeOK, DeleteUser, accounts, tickets
<1>7. RoomIsLeft'
  <2>1. Counted' \subseteq Counted
    BY <1>2 DEF Counted, Exists, TypeOK, DeleteUser
  <2> QED BY <1>2, <2>1, FewerLeaveRoom DEF DeleteUser
<1>8. OneUse'
  <2>1. TakenIsSpent /\ OneOpener /\ MarksIssued /\ StringOpensOnce
    BY <1>1 DEF OneUse
  <2>2. \A z \in Strings : Taken(z)' => Taken(z)
    BY <1>2 DEF Taken, Opens, Registering, DeleteUser, accounts, tickets
  <2>3. TakenIsSpent'
    BY <1>2, <2>1, <2>2 DEF TakenIsSpent, Spent, TypeOK, DeleteUser, accounts, tickets
  <2>4. OneOpener'
    BY <1>2, <2>1 DEF OneOpener, Opens, Registering, TypeOK, DeleteUser, accounts, tickets
  <2>5. MarksIssued'
    BY <1>2, <2>1, <2>2 DEF MarksIssued, TypeOK, DeleteUser, accounts, tickets
  <2>6. StringOpensOnce'
    BY <2>1 DEF StringOpensOnce, DeleteUser, accounts, tickets
  <2> QED BY <2>3, <2>4, <2>5, <2>6 DEF OneUse
<1>9. Reached'
  <2>1. RegisteredOwns /\ LoginIsKept /\ CopyHolds /\ mailLogin \subseteq mailed
    BY <1>1 DEF Reached
  <2>2. RegisteredOwns'
    BY <1>2, <2>1 DEF RegisteredOwns, TypeOK, DeleteUser, accounts, tickets
  <2>3. LoginIsKept'
    BY <1>2, <2>1 DEF LoginIsKept, Exists, TypeOK, DeleteUser, accounts, tickets
  <2>4. CopyHolds'
    BY <1>2, <2>1 DEF CopyHolds, Exists, TypeOK, DeleteUser, accounts, tickets
  <2>5. mailLogin' \subseteq mailed'
    BY <2>1 DEF DeleteUser, accounts, tickets
  <2> QED BY <2>2, <2>3, <2>4, <2>5 DEF Reached
<1> QED BY <1>5, <1>6, <1>7, <1>8, <1>9 DEF IInv, Tidy

LEMMA AdminPurgeUserIInv ==
  ASSUME IInv, NEW u \in Users, AdminPurgeUser(u)
  PROVE  IInv'
<1> USE OAuthAssumption
<1>1. Tidy /\ OneUse /\ Reached
  BY DEF IInv
<1>2. TypeOK /\ Locked /\ RoomIsLeft
  BY <1>1 DEF Tidy
<1>5. TypeOK'
  <2>1. state' \in [Users -> {"free", "open", "deleted"}]
    BY <1>2 DEF TypeOK, AdminPurgeUser, accounts, tickets
  <2>2. phone' \in [Users -> Phones \cup {None}]
    BY <1>2 DEF TypeOK, AdminPurgeUser, accounts, tickets
  <2>3. mailLogin' \subseteq Users
    BY <1>2 DEF TypeOK, AdminPurgeUser, accounts, tickets
  <2> QED BY <1>2, <2>1, <2>2, <2>3 DEF TypeOK, AdminPurgeUser, accounts, tickets
<1>6. Locked'
  BY <1>2 DEF Locked, TypeOK, AdminPurgeUser, accounts, tickets
<1>7. RoomIsLeft'
  <2>1. Counted' \subseteq Counted
    BY <1>2 DEF Counted, Exists, TypeOK, AdminPurgeUser
  <2> QED BY <1>2, <2>1, FewerLeaveRoom DEF AdminPurgeUser
<1>8. OneUse'
  <2>1. TakenIsSpent /\ OneOpener /\ MarksIssued /\ StringOpensOnce
    BY <1>1 DEF OneUse
  <2>2. \A z \in Strings : Taken(z)' => Taken(z)
    BY <1>2 DEF Taken, Opens, Registering, AdminPurgeUser, accounts, tickets
  <2>3. TakenIsSpent'
    BY <1>2, <2>1, <2>2 DEF TakenIsSpent, Spent, TypeOK, AdminPurgeUser, accounts, tickets
  <2>4. OneOpener'
    BY <1>2, <2>1 DEF OneOpener, Opens, Registering, TypeOK, AdminPurgeUser, accounts, tickets
  <2>5. MarksIssued'
    BY <1>2, <2>1, <2>2 DEF MarksIssued, TypeOK, AdminPurgeUser, accounts, tickets
  <2>6. StringOpensOnce'
    BY <2>1 DEF StringOpensOnce, AdminPurgeUser, accounts, tickets
  <2> QED BY <2>3, <2>4, <2>5, <2>6 DEF OneUse
<1>9. Reached'
  <2>1. RegisteredOwns /\ LoginIsKept /\ CopyHolds /\ mailLogin \subseteq mailed
    BY <1>1 DEF Reached
  <2>2. RegisteredOwns'
    BY <1>2, <2>1 DEF RegisteredOwns, TypeOK, AdminPurgeUser, accounts, tickets
  <2>3. LoginIsKept'
    BY <1>2, <2>1 DEF LoginIsKept, Exists, TypeOK, AdminPurgeUser, accounts, tickets
  <2>4. CopyHolds'
    BY <1>2, <2>1 DEF CopyHolds, Exists, TypeOK, AdminPurgeUser, accounts, tickets
  <2>5. mailLogin' \subseteq mailed'
    BY <2>1 DEF AdminPurgeUser, accounts, tickets
  <2> QED BY <2>2, <2>3, <2>4, <2>5 DEF Reached
<1> QED BY <1>5, <1>6, <1>7, <1>8, <1>9 DEF IInv, Tidy

LEMMA SetCapIInv ==
  ASSUME IInv, NEW n \in 0..MaxCap, SetCap(n)
  PROVE  IInv'
<1> USE OAuthAssumption
<1>1. Tidy /\ OneUse /\ Reached
  BY DEF IInv
<1>2. TypeOK /\ Locked /\ RoomIsLeft
  BY <1>1 DEF Tidy
<1>5. TypeOK'
  <2>1. cap' \in 0..MaxCap
    BY <1>2 DEF TypeOK, SetCap, accounts, tickets
  <2> QED BY <1>2, <2>1 DEF TypeOK, SetCap, accounts, tickets
<1>6. Locked'
  BY <1>2 DEF Locked, TypeOK, SetCap, accounts, tickets
<1>7. RoomIsLeft'
  BY <1>2 DEF RoomIsLeft, Counted, Exists, SetCap, accounts, tickets
<1>8. OneUse'
  <2>1. TakenIsSpent /\ OneOpener /\ MarksIssued /\ StringOpensOnce
    BY <1>1 DEF OneUse
  <2>2. \A z \in Strings : Taken(z)' => Taken(z)
    BY <1>2 DEF Taken, Opens, Registering, SetCap, accounts, tickets
  <2>3. TakenIsSpent'
    BY <1>2, <2>1, <2>2 DEF TakenIsSpent, Spent, TypeOK, SetCap, accounts, tickets
  <2>4. OneOpener'
    BY <1>2, <2>1 DEF OneOpener, Opens, Registering, TypeOK, SetCap, accounts, tickets
  <2>5. MarksIssued'
    BY <1>2, <2>1, <2>2 DEF MarksIssued, TypeOK, SetCap, accounts, tickets
  <2>6. StringOpensOnce'
    BY <2>1 DEF StringOpensOnce, SetCap, accounts, tickets
  <2> QED BY <2>3, <2>4, <2>5, <2>6 DEF OneUse
<1>9. Reached'
  <2>1. RegisteredOwns /\ LoginIsKept /\ CopyHolds /\ mailLogin \subseteq mailed
    BY <1>1 DEF Reached
  <2>2. RegisteredOwns'
    BY <1>2, <2>1 DEF RegisteredOwns, TypeOK, SetCap, accounts, tickets
  <2>3. LoginIsKept'
    BY <1>2, <2>1 DEF LoginIsKept, Exists, TypeOK, SetCap, accounts, tickets
  <2>4. CopyHolds'
    BY <1>2, <2>1 DEF CopyHolds, Exists, TypeOK, SetCap, accounts, tickets
  <2>5. mailLogin' \subseteq mailed'
    BY <2>1 DEF SetCap, accounts, tickets
  <2> QED BY <2>2, <2>3, <2>4, <2>5 DEF Reached
<1> QED BY <1>5, <1>6, <1>7, <1>8, <1>9 DEF IInv, Tidy

LEMMA RestartIInv ==
  ASSUME IInv, Restart
  PROVE  IInv'
<1> USE OAuthAssumption, IdleTyped
<1>1. TypeOK /\ Reached
  BY DEF IInv, Tidy
<1>2. \A r \in Requests : job'[r] = Idle /\ job'[r].at = "idle"
  BY DEF Restart
<1>3. TypeOK'
  BY <1>1 DEF TypeOK, Restart, accounts
<1>4. Locked' /\ RoomIsLeft'
  BY <1>2 DEF Locked, RoomIsLeft
<1>5. OneUse'
  <2>1. \A t \in Strings : ~Taken(t)'
    BY <1>2 DEF Taken, Opens, Registering, Restart
  <2> QED BY <1>2, <2>1 DEF OneUse, TakenIsSpent, OneOpener, MarksIssued, StringOpensOnce, Opens, Registering, Restart
<1>6. Reached'
  <2>1. RegisteredOwns /\ LoginIsKept /\ mailLogin \subseteq mailed
    BY <1>1 DEF Reached
  <2>2. RegisteredOwns' /\ LoginIsKept' /\ mailLogin' \subseteq mailed'
    BY <2>1 DEF RegisteredOwns, LoginIsKept, Exists, Restart, accounts
  <2>3. CopyHolds'
    BY <1>2 DEF CopyHolds
  <2> QED BY <2>2, <2>3 DEF Reached
<1> QED BY <1>3, <1>4, <1>5, <1>6 DEF IInv, Tidy

LEMMA StutterIInv ==
  ASSUME IInv, UNCHANGED vars
  PROVE  IInv'
<1> USE DEF vars, accounts, tickets
<1>1. Tidy'
  BY DEF IInv, Tidy, TypeOK, Locked, RoomIsLeft, Counted, Exists
<1>2. OneUse'
  <2>1. TakenIsSpent /\ OneOpener /\ MarksIssued /\ StringOpensOnce
    BY DEF IInv, OneUse
  <2>2. \A t \in Strings : Taken(t)' <=> Taken(t)
    BY DEF Taken, Opens
  <2>3. TakenIsSpent' /\ OneOpener' /\ StringOpensOnce'
    BY <2>1, <2>2 DEF TakenIsSpent, OneOpener, StringOpensOnce, Opens, Spent
  <2>4. MarksIssued'
    BY <2>1, <2>2 DEF MarksIssued
  <2> QED BY <2>3, <2>4 DEF OneUse
<1>3. Reached'
  BY DEF IInv, Reached, RegisteredOwns, LoginIsKept, CopyHolds, Exists
<1> QED BY <1>1, <1>2, <1>3 DEF IInv

-----------------------------------------------------------------------------
(* The theorems.                                                           *)

LEMMA NextIInv == IInv /\ [Next]_vars => IInv'
<1> SUFFICES ASSUME IInv, [Next]_vars
             PROVE  IInv'
  OBVIOUS
<1>1. CASE UNCHANGED vars
  BY <1>1, StutterIInv
<1>2. CASE Steps
  <2>1. CASE \E r \in Requests, t \in Strings : CompleteProfile(r, t)
    BY <2>1, CompleteProfileIInv
  <2>2. CASE \E r \in Requests, t \in Strings, p \in Phones : CompleteRisk(r, t, p)
    BY <2>2, CompleteRiskIInv
  <2>3. CASE \E r \in Requests : MarkTicket(r)
    BY <2>3, MarkTicketIInv
  <2>4. CASE \E r \in Requests : EmailSignup(r)
    BY <2>4, EmailSignupIInv
  <2>5. CASE \E r \in Requests : Lock(r)
    BY <2>5, LockIInv
  <2>6. CASE \E r \in Requests : CheckFree(r)
    BY <2>6, CheckFreeIInv
  <2>7. CASE \E r \in Requests, readable \in BOOLEAN : CheckCap(r, readable)
    BY <2>7, CheckCapIInv
  <2>8. CASE \E r \in Requests, u \in Users : CreateUser(r, u)
    BY <2>8, CreateUserIInv
  <2>9. CASE \E r \in Requests : Refuse(r)
    BY <2>9, RefuseIInv
  <2>10. CASE \E r \in Requests, u \in Users, x \in Externals : LinkCallback(r, u, x)
    BY <2>10, LinkCallbackIInv
  <2>12. CASE \E r \in Requests : LinkIdentity(r)
    BY <2>12, LinkIdentityIInv
  <2>13. CASE \E r \in Requests, u \in Users, p \in Providers : UnlinkMyOAuthIdentity(r, u, p)
    BY <2>13, UnlinkMyOAuthIdentityIInv
  <2>14. CASE \E r \in Requests, x \in Externals : Unlink(r, x)
    BY <2>14, UnlinkIInv
  <2>15. CASE \E t \in Tickets, x \in Externals, k \in Kinds, readable \in BOOLEAN : OAuthCallback(t, x, k, readable)
    BY <2>15, OAuthCallbackIInv
  <2>16. CASE \E t \in Tickets : Expire(t)
    BY <2>16, ExpireIInv
  <2>17. CASE \E t \in Strings : Forget(t)
    BY <2>17, ForgetIInv
  <2>18. CASE \E u \in Users : EmailStep(u)
    BY <2>18, EmailStepIInv
  <2>19. CASE \E u \in Users : DeleteUser(u)
    BY <2>19, DeleteUserIInv
  <2>20. CASE \E u \in Users : AdminPurgeUser(u)
    BY <2>20, AdminPurgeUserIInv
  <2>21. CASE \E n \in 0..MaxCap : SetCap(n)
    BY <2>21, SetCapIInv
  <2>22. CASE Restart
    BY <2>22, RestartIInv
  <2> QED BY <1>2, <2>1, <2>2, <2>3, <2>4, <2>5, <2>6, <2>7, <2>8, <2>9, <2>10, <2>12, <2>13, <2>14, <2>15, <2>16, <2>17, <2>18, <2>19, <2>20, <2>21, <2>22 DEF Steps
<1> QED BY <1>1, <1>2, NextIsSteps

LEMMA Safe == Spec => []IInv
<1>1. Init => IInv
  BY InitIInv
<1>2. IInv /\ [Next]_vars => IInv'
  BY NextIInv
<1> QED BY <1>1, <1>2, PTL DEF Spec

\* Every variable keeps its type.
THEOREM TypeCorrect == Spec => []TypeOK
<1>1. IInv => TypeOK
  BY DEF IInv, Tidy
<1> QED BY <1>1, Safe, PTL

\* A presented string opens one account: however often it is sent, and whichever
\* requests race for it (oauth.go, markTmpTokenConsumed).
THEOREM StringOpensOnceAlways == Spec => []StringOpensOnce
<1>1. IInv => StringOpensOnce
  BY DEF IInv, OneUse
<1> QED BY <1>1, Safe, PTL

\* The external account an account was opened with belongs to it until it is
\* unlinked (oauth.go, createUserWithSignupBonus).
THEOREM RegisteredOwnsAlways == Spec => []RegisteredOwns
<1>1. IInv => RegisteredOwns
  BY DEF IInv, Reached
<1> QED BY <1>1, Safe, PTL

\* Unlinking never takes the last way to sign in from an account that never
\* had a password (user_oauth_identities.go, UnlinkMyOAuthIdentity).
THEOREM LoginIsKeptAlways == Spec => []LoginIsKept
<1>1. IInv => LoginIsKept
  BY DEF IInv, Reached
<1> QED BY <1>1, Safe, PTL

\* No account is opened beyond the limit it was let in under (oauth.go,
\* registerMu and rejectIfUserCapReached).
THEOREM CapIsKept == Spec => CapKept
<1>1. IInv /\ [Next]_vars =>
        [\A r \in Requests, u \in Users : CreateUser(r, u) =>
           job[r].cap = 0 \/ Cardinality(Counted) < job[r].cap]_vars
  <2> SUFFICES ASSUME IInv, NEW r \in Requests, NEW u \in Users, CreateUser(r, u)
               PROVE  job[r].cap = 0 \/ Cardinality(Counted) < job[r].cap
    OBVIOUS
  <2>1. job[r].at = "create"
    BY DEF CreateUser
  <2>2. job[r].cap \in Nat
    BY OAuthAssumption DEF IInv, Tidy, TypeOK, Job
  <2> QED BY <2>1, <2>2 DEF IInv, Tidy, RoomIsLeft
<1> QED BY <1>1, Safe, PTL DEF Spec, CapKept
=============================================================================
