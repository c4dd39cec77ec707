---------------------------- MODULE GatewayProofs ----------------------------
(***************************************************************************)
(* What holds of the way to the upstreams and of what comes back: of the   *)
(* channel breaker (ChannelCircuit), the WebSocket bridge                  *)
(* (ResponsesBridge) and the import of the usage queue (UsageSync), one    *)
(* after the other, for any number of channels, sessions and syncs.  The   *)
(* specifications share no variable.                                       *)
(*                                                                         *)
(* The breaker: what holds for any number of channels and requests of any  *)
(* kind, and which probe slots can be left without a request behind them.  *)
(***************************************************************************)
EXTENDS ChannelCircuit, ResponsesBridge, UsageSync, FiniteSetTheorems, TLAPS

\* a cooldown that was loaded to be multiplied is long enough
LoadedInv ==
  \A r \in Requests :
    at[r] = "reopen" => \/ cooldown[r] >= InitialCooldown
                        \/ cooldown[r] >= MaxCooldown

Inv == TypeOK /\ CooldownWithinCap /\ LoadedInv

\* capping keeps a cooldown between the two configured durations
LEMMA BackedOffBounds ==
  ASSUME NEW s \in Nat,
         s >= InitialCooldown \/ s >= MaxCooldown
  PROVE  /\ BackedOff(s) \in Nat \ {0}
         /\ BackedOff(s) <= MaxCooldown
         /\ BackedOff(s) >= InitialCooldown \/ BackedOff(s) >= MaxCooldown
BY CircuitAssumption DEF BackedOff, BackoffFactor

LEMMA InitInv == Init => Inv
BY CircuitAssumption
   DEF Init, Inv, TypeOK, CooldownWithinCap, LoadedInv, Closed, Steps

\* a step that leaves the breakers and the loaded cooldowns alone
LEMMA SameState ==
  ASSUME Inv, TypeOK', UNCHANGED <<state, cooldown>>,
         \A r \in Requests : at'[r] = "reopen" => at[r] = "reopen"
  PROVE  Inv'
BY DEF Inv, CooldownWithinCap, LoadedInv

\* checks, answers and new attempts
LEMMA RoutingKeepsInv ==
  ASSUME Inv, NEW r \in Requests,
         \/ StartChecking(r)
         \/ \E c \in Channels : StartAt(r, c)
         \/ Check(r)
         \/ \E outcome \in Outcomes : Answer(r, outcome)
         \/ TryAgain(r)
         \/ Leave(r)
  PROVE  Inv'
<1> USE CircuitAssumption DEF Inv, TypeOK, Go, breakerVars, slotVars, markVars,
                               routeVars, localVars, Steps
<1>1. CASE StartChecking(r)
  BY <1>1, SameState DEF StartChecking, NewAttempt
<1>2. ASSUME NEW c \in Channels, StartAt(r, c) PROVE Inv'
  BY <1>2, SameState DEF StartAt
<1>3. ASSUME NEW c \in Channels,
             LookRefused(r, c) \/ LookClosed(r, c) \/ LookHalfOpen(r, c)
      PROVE  Inv'
  BY <1>3, SameState DEF LookRefused, LookClosed, LookHalfOpen, Refuse, Admit
<1>4. ASSUME NEW c \in Channels, Select(r, c) PROVE Inv'
  BY <1>4, SameState DEF Select
<1>5. CASE Claim(r)
  <2>1. on[r] \in Channels
    BY <1>5 DEF Claim
  <2>2. /\ todo' \in [Requests -> SUBSET Channels]
        /\ avail' \in [Requests -> SUBSET Channels]
        /\ held' \in [Requests -> SUBSET Channels]
    BY <1>5, <2>1 DEF Claim, Refuse, Admit
  <2>3. TypeOK'
    BY <1>5, <2>1, <2>2 DEF Claim
  <2> QED
    BY <1>5, <2>3, SameState DEF Claim
<1>6. CASE Exhausted(r)
  BY <1>6, SameState DEF Exhausted, End
<1>7. ASSUME NEW outcome \in Outcomes, Answer(r, outcome) PROVE Inv'
  <2>1. FirstStep(Kind[r], outcome) \in {"zero", "add", "release", "done"}
    BY DEF FirstStep
  <2>2. TriesAgain(Kind[r], outcome) \in BOOLEAN
    BY DEF TriesAgain
  <2>3. on[r] \in Channels
    BY <1>7 DEF Answer
  <2>4. limited' \subseteq Channels /\ unhealthy' \subseteq Channels
    BY <1>7, <2>3 DEF Answer, Mark
  <2>5. TypeOK'
    BY <1>7, <2>1, <2>2, <2>3, <2>4 DEF Answer
  <2> QED
    BY <1>7, <2>1, <2>5, SameState DEF Answer
<1>8. CASE TryAgain(r)
  BY <1>8, SameState DEF TryAgain, NewAttempt
<1>9. CASE Leave(r)
  BY <1>9, SameState DEF Leave, End
<1> QED
  BY <1>1, <1>2, <1>3, <1>4, <1>5, <1>6, <1>7, <1>8, <1>9 DEF Check

\* the reports, atomic by atomic
LEMMA ReportKeepsInv ==
  ASSUME Inv, NEW r \in Requests, Report(r)
  PROVE  Inv'
<1> USE CircuitAssumption DEF Inv, TypeOK, Go, breakerVars, slotVars, markVars,
                               routeVars, localVars, Steps
<1>1. CASE ZeroFailures(r)
  BY <1>1, SameState DEF ZeroFailures
<1>2. CASE ClearState(r)
  <2>1. TypeOK'
    BY <1>2 DEF ClearState
  <2>2. CooldownWithinCap' /\ LoadedInv'
    BY <1>2 DEF ClearState, CooldownWithinCap, LoadedInv
  <2> QED BY <2>1, <2>2
<1>3. CASE ReleaseProbe(r)
  <2>1. TypeOK'
    BY <1>3 DEF ReleaseProbe
  <2>2. CooldownWithinCap' /\ LoadedInv'
    BY <1>3 DEF ReleaseProbe, CooldownWithinCap, LoadedInv
  <2> QED BY <2>1, <2>2
<1>4. CASE AddFailure(r)
  BY <1>4, SameState DEF AddFailure
<1>5. CASE SwapProbe(r)
  BY <1>5, SameState DEF SwapProbe
<1>6. CASE Inspect(r)
  BY <1>6, SameState DEF Inspect
<1>7. CASE OpenCircuit(r)
  <2>1. TypeOK'
    BY <1>7 DEF OpenCircuit, Opened
  <2>2. CooldownWithinCap' /\ LoadedInv'
    BY <1>7 DEF OpenCircuit, Opened, CooldownWithinCap, LoadedInv
  <2> QED BY <2>1, <2>2
<1>8. CASE LoadCooldown(r)
  <2>1. on[r] \in Channels
    BY <1>8 DEF LoadCooldown
  <2>2. state[on[r]].cooldown \in Nat
    BY <2>1 DEF Closed
  <2>3. TypeOK'
    BY <1>8, <2>1, <2>2 DEF LoadCooldown
  <2>4. CooldownWithinCap'
    BY <1>8 DEF LoadCooldown, CooldownWithinCap
  <2>5. state[on[r]].cooldown # 0 => state[on[r]] # Closed
    BY DEF Closed
  <2>6. LoadedInv'
    BY <1>8, <2>1, <2>2, <2>5 DEF LoadCooldown, CooldownWithinCap, LoadedInv
  <2> QED BY <2>3, <2>4, <2>6
<1>9. CASE Reopen(r)
  <2> DEFINE s == BackedOff(cooldown[r])
  <2>1. on[r] \in Channels /\ cooldown[r] \in Nat
    BY <1>9 DEF Reopen
  <2>2. /\ s \in Nat \ {0}
        /\ s <= MaxCooldown
        /\ s >= InitialCooldown \/ s >= MaxCooldown
    BY <1>9, <2>1, BackedOffBounds DEF Reopen, LoadedInv
  <2> HIDE DEF s
  <2>3. state' = [state EXCEPT ![on[r]] = Opened(s)]
    BY <1>9 DEF Reopen, s
  <2>4. TypeOK'
    BY <1>9, <2>1, <2>2, <2>3 DEF Reopen, Opened
  <2>5. CooldownWithinCap'
    BY <2>1, <2>2, <2>3 DEF Opened, CooldownWithinCap
  <2>6. LoadedInv'
    BY <1>9 DEF Reopen, LoadedInv
  <2> QED BY <2>4, <2>5, <2>6
<1>10. CASE TryAgain(r) \/ Leave(r)
  BY <1>10, RoutingKeepsInv
<1> QED
  BY <1>1, <1>2, <1>3, <1>4, <1>5, <1>6, <1>7, <1>8, <1>9, <1>10 DEF Report

\* time
LEMMA TimeKeepsInv ==
  ASSUME Inv, NEW c \in Channels, Expire(c) \/ LimitEnds(c) \/ MarkEnds(c)
  PROVE  Inv'
<1> USE CircuitAssumption DEF Inv, TypeOK, breakerVars, slotVars, markVars,
                               routeVars, localVars
<1>1. CASE Expire(c)
  <2>1. TypeOK'
    <3>1. state[c].cooldown \in Nat \ {0}
      BY <1>1 DEF Expire
    <3>2. HalfOpen(state[c].cooldown) \in [cooldown : Nat \ {0},
                                          expired : BOOLEAN]
      BY <3>1 DEF HalfOpen
    <3> QED
      BY <1>1, <3>2 DEF Expire
  <2>2. /\ state'[c].cooldown = state[c].cooldown
        /\ \A d \in Channels \ {c} : state'[d] = state[d]
    BY <1>1 DEF Expire, HalfOpen
  <2>3. CooldownWithinCap'
    BY <1>1, <2>2 DEF Expire, CooldownWithinCap
  <2>4. LoadedInv'
    BY <1>1 DEF Expire, LoadedInv
  <2> QED BY <2>1, <2>3, <2>4
<1>2. CASE LimitEnds(c) \/ MarkEnds(c)
  BY <1>2, SameState DEF LimitEnds, MarkEnds
<1> QED BY <1>1, <1>2

LEMMA StepInv == Inv /\ [Next]_vars => Inv'
<1> SUFFICES ASSUME Inv, [Next]_vars PROVE Inv'
  OBVIOUS
<1>1. CASE UNCHANGED vars
  BY <1>1 DEF vars, breakerVars, slotVars, markVars, routeVars, localVars, Inv, TypeOK,
              CooldownWithinCap, LoadedInv
<1>2. CASE Next
  BY <1>2, RoutingKeepsInv, ReportKeepsInv, TimeKeepsInv DEF Next
<1> QED BY <1>1, <1>2

LEMMA InvHolds == Safety => []Inv
BY InitInv, StepInv, PTL DEF Safety

\* Every reachable state of the breakers and the requests is well typed; the
\* loads and stores of channel_circuit.go may interleave in any order.
THEOREM TypeCorrect == Safety => []TypeOK
<1>1. Inv => TypeOK
  BY DEF Inv
<1> QED BY <1>1, InvHolds, PTL

\* No interleaving of openCircuit, extendCircuitOpen and MarkChannelSuccess
\* gives a cooldown outside the two configured durations.
THEOREM CooldownWithinCapHolds == Safety => []CooldownWithinCap
<1>1. Inv => CooldownWithinCap
  BY DEF Inv
<1> QED BY <1>1, InvHolds, PTL

-----------------------------------------------------------------------------
(***************************************************************************)
(* A claimed slot that was not abandoned has its request behind it: the    *)
(* request is checking, or it calls or reports on that very channel.       *)
(***************************************************************************)
CheckingKinds == {"text", "media", "websocket"}

ProbeInv ==
  /\ TypeOK
  /\ \A r \in Requests :
       /\ at[r] = "idle" => held[r] = {}
       /\ at[r] \in {"filter", "claim"} => Kind[r] \in CheckingKinds
       /\ again[r] => Kind[r] \in CheckingKinds
       /\ held[r] # {} => Kind[r] \in CheckingKinds
       /\ at[r] \notin {"idle", "filter", "claim"} => held[r] \subseteq {on[r]}
  /\ ProbeIsRunning

LEMMA InitProbeInv == Init => ProbeInv
<1> SUFFICES ASSUME Init PROVE ProbeInv
  OBVIOUS
<1>1. TypeOK
  BY InitInv DEF Inv
<1> QED
  BY <1>1 DEF Init, ProbeInv, ProbeIsRunning

\* who holds a claim reports on it, or is said never to report
LEMMA ReportsOrNever ==
  ASSUME NEW kind \in CheckingKinds, NEW outcome \in AllOutcomes,
         ~ NeverReports(kind, outcome)
  PROVE  FirstStep(kind, outcome) # "done"
BY DEF CheckingKinds, AllOutcomes, NeverReports, FirstStep

LEMMA StepProbeInv ==
  ASSUME Inv, Inv', ProbeInv, [Next]_vars
  PROVE  ProbeInv'
<1> USE DEF Inv, TypeOK, ProbeInv, ProbeIsRunning, Probing, Go, breakerVars,
            slotVars, markVars, routeVars, localVars
<1>a. TypeOK'
  OBVIOUS
<1>1. CASE UNCHANGED vars
  BY <1>1 DEF vars
<1>2. ASSUME NEW r \in Requests,
             \/ StartChecking(r)
             \/ \E c \in Channels : StartAt(r, c)
             \/ Check(r)
             \/ \E outcome \in Outcomes : Answer(r, outcome)
             \/ Report(r)
      PROVE  ProbeInv'
  <2>1. CASE StartChecking(r)
    BY <1>a, <2>1 DEF StartChecking, NewAttempt, CheckingKinds
  <2>2. ASSUME NEW c \in Channels, StartAt(r, c) PROVE ProbeInv'
    BY <1>a, <2>2 DEF StartAt
  <2>3. ASSUME NEW c \in Channels,
               LookRefused(r, c) \/ LookClosed(r, c) \/ LookHalfOpen(r, c)
        PROVE  ProbeInv'
    BY <1>a, <2>3 DEF LookRefused, LookClosed, LookHalfOpen, Refuse, Admit
  <2>4. ASSUME NEW c \in Channels, Select(r, c) PROVE ProbeInv'
    BY <1>a, <2>4 DEF Select
  <2>5. CASE Claim(r)
    BY <1>a, <2>5 DEF Claim, Refuse, Admit, Usable
  <2>6. CASE Exhausted(r)
    BY <1>a, <2>6 DEF Exhausted, End
  <2>7. ASSUME NEW outcome \in Outcomes, Answer(r, outcome) PROVE ProbeInv'
    <3>1. /\ TriesAgain(Kind[r], outcome) => Kind[r] \in CheckingKinds
          /\ FirstStep(Kind[r], outcome) \in {"zero", "add", "release", "done"}
      BY DEF TriesAgain, FirstStep, CheckingKinds
    <3>2. outcome \in AllOutcomes
      BY CircuitAssumption
    <3>3. \/ held[r] = {}
          \/ held[r] \subseteq abandoned'
          \/ at'[r] # "done"
      BY <2>7, <3>2, ReportsOrNever DEF Answer
    <3>4. /\ at' = [at EXCEPT ![r] = FirstStep(Kind[r], outcome)]
          /\ abandoned \subseteq abandoned'
          /\ at[r] = "calling"
          /\ again' = [again EXCEPT ![r] = TriesAgain(Kind[r], outcome)]
          /\ UNCHANGED <<slot, held, on>>
      BY <2>7 DEF Answer
    <3>5. ProbeIsRunning'
      BY <1>a, <3>1, <3>3, <3>4
    <3> QED
      BY <1>a, <3>1, <3>4, <3>5
  <2>8. CASE \/ ZeroFailures(r) \/ ClearState(r) \/ AddFailure(r) \/ Inspect(r)
             \/ OpenCircuit(r) \/ LoadCooldown(r) \/ Reopen(r)
    <3>1. /\ at[r] \notin {"idle", "filter", "claim", "done"}
          /\ \E to \in {"clear", "release", "swap", "open", "extend", "reopen"} :
               at' = [at EXCEPT ![r] = to]
          /\ UNCHANGED <<slotVars, held, on, again>>
      BY <2>8 DEF ZeroFailures, ClearState, AddFailure, Inspect, OpenCircuit,
                  LoadCooldown, Reopen
    <3>2. \A q \in Requests : Probing(q)' = Probing(q)
      BY <3>1
    <3>3. ProbeIsRunning'
      BY <3>1, <3>2
    <3> QED
      BY <1>a, <3>1, <3>3
  <2>9. CASE ReleaseProbe(r) \/ SwapProbe(r)
    <3>1. /\ slot' = [slot EXCEPT ![on[r]] = FALSE]
          /\ abandoned' = abandoned \ {on[r]}
          /\ \E to \in {"done", "extend", "inspect"} :
               at' = [at EXCEPT ![r] = to]
          /\ held[r] \subseteq {on[r]}
          /\ UNCHANGED <<held, on, again>>
      BY <2>9 DEF ReleaseProbe, SwapProbe
    <3>2. ASSUME NEW c \in Channels, slot'[c]
          PROVE  c \in abandoned' \/ \E q \in Requests : c \in Probing(q)'
      <4>1. c # on[r] /\ slot[c]
        BY <3>1, <3>2
      <4>2. CASE c \in abandoned
        BY <3>1, <4>1, <4>2
      <4>3. ASSUME NEW q \in Requests, c \in Probing(q)
            PROVE  c \in Probing(q)'
        <5>1. q # r
          BY <3>1, <4>1, <4>3
        <5> QED
          BY <3>1, <4>3, <5>1
      <4> QED
        BY <4>1, <4>2, <4>3
    <3> QED
      BY <1>a, <3>1, <3>2
  <2>10. CASE TryAgain(r) \/ Leave(r)
    BY <1>a, <2>10 DEF TryAgain, Leave, NewAttempt, End
  <2> QED
    BY <1>2, <2>1, <2>2, <2>3, <2>4, <2>5, <2>6, <2>7, <2>8, <2>9, <2>10
       DEF Check, Report
<1>3. ASSUME NEW c \in Channels, Expire(c) \/ LimitEnds(c) \/ MarkEnds(c)
      PROVE  ProbeInv'
  BY <1>a, <1>3 DEF Expire, LimitEnds, MarkEnds
<1> QED
  BY <1>1, <1>2, <1>3 DEF Next

\* For any number of routes and requests of every kind: a probe slot that is
\* taken is held by a request that will report on it, or it was abandoned, by
\* the selection of another route or by an answer no handler reports.  No
\* interleaving of checks, late results, polls and resets loses one otherwise.
THEOREM ProbeIsRunningHolds == Safety => []ProbeIsRunning
<1>1. Init => ProbeInv
  BY InitProbeInv
<1>2. Inv /\ Inv' /\ ProbeInv /\ [Next]_vars => ProbeInv'
  BY StepProbeInv
<1>3. ProbeInv => ProbeIsRunning
  BY DEF ProbeInv
<1> QED
  BY <1>1, <1>2, <1>3, InvHolds, PTL DEF Safety

-----------------------------------------------------------------------------
(***************************************************************************)
(* The WebSocket bridge: ResponsesBridge, for any users, sessions, models  *)
(* and limits.                                                             *)
(***************************************************************************)
HandlerPlaces == {"new", "upgrading", "dialing", "open", "closed", "dead"}
ClientPlaces == {"off", "top", "read", "end"}
BillingPlaces == {"book", "charge", "cover"}
BookingPlaces == {"book", "charge", "cover", "note"}
ServerPlaces == {"off", "top", "read", "book", "charge", "cover", "note", "end"}

\* the functions of sessions that the type invariant gives no set of functions
SessionMaps ==
  /\ DOMAIN asked = Sessions /\ DOMAIN answered = Sessions /\ DOMAIN frame = Sessions
  /\ DOMAIN turnsBilled = Sessions /\ DOMAIN ledger = Sessions /\ DOMAIN delivered = Sessions
  /\ DOMAIN crossed = Sessions /\ DOMAIN unbooked = Sessions

\* the pumps run while the handler waits for them
PumpsRun(s) ==
  /\ handler[s] \in {"new", "upgrading", "dialing"} => client[s] = "off" /\ server[s] = "off"
  /\ handler[s] = "open" => client[s] # "off" /\ server[s] # "off"
  /\ handler[s] \in {"closed", "dead"} =>
       client[s] \in {"off", "end"} /\ server[s] \in {"off", "end"}

\* an answer is being booked, and its last entry is not written yet
Booking(s) == server[s] \in BookingPlaces
Billing(s) == server[s] \in BillingPlaces

\* what is being booked is the latest turn the upstream has ended, and was delivered
FrameInv(s) ==
  /\ \A f \in delivered[s] : f.turn <= answered[s]
  /\ \A f, g \in delivered[s] : f.turn = g.turn => f = g
  /\ IF Booking(s)
       THEN /\ frame[s] \in Frames(s) /\ frame[s].turn = answered[s]
            /\ frame[s].turn \in DeliveredTurns(s)
       ELSE frame[s] = NoFrame
  /\ server[s] = "book" => frame[s] \in delivered[s]

\* turnsBilled is behind by the turn being booked; nothing is, or was, when it is zero
CountInv(s) ==
  /\ turnsBilled[s] + (IF Booking(s) THEN 1 ELSE 0) <= answered[s]
  /\ handler[s] \notin {"closed", "dead"} /\ turnsBilled[s] = 0 /\ ~ Booking(s) =>
       delivered[s] = {} /\ ledger[s] = <<>>

ChargedTurns(s) == {ledger[s][i].turn : i \in {j \in DOMAIN ledger[s] : ledger[s][j].state = "charged"}}

ChargedOnceEach(s) ==
  \A i, j \in DOMAIN ledger[s] :
    /\ ledger[s][i].state = "charged" /\ ledger[s][j].state = "charged"
    /\ ledger[s][i].turn = ledger[s][j].turn
    => i = j

LedgerInv(s) ==
  /\ 0 \in Booked(s) => handler[s] = "closed" /\ Len(ledger[s]) = 1 /\ delivered[s] = {}
  /\ Booked(s) \ {0} \subseteq DeliveredTurns(s)
  /\ ChargedOnceEach(s)
  /\ Billing(s) => frame[s].turn \notin ChargedTurns(s)
  /\ handler[s] # "dead" =>
       \A t \in DeliveredTurns(s) :
         t \in Booked(s) \/ t \in unbooked[s] \/ (Billing(s) /\ t = frame[s].turn)

\* turns that wait for their answer: two of them, or one beside a turn being
\* booked, have crossed
Crossing(s) ==
  Booking(s) \/ Len(asked[s]) > answered[s] + 1 =>
    \A t \in (answered[s] + 1) .. Len(asked[s]) : t \in crossed[s]

ToBook(s, t) == t \in (answered[s] + 1) .. Len(asked[s]) \/ (server[s] = "book" /\ t = answered[s])

\* the last model noted is the one asked for in the turn that waits, or is to be booked
LastIsAsked(s) ==
  \A t \in TurnsOf(s) :
    ToBook(s, t) /\ t \notin crossed[s] /\ asked[s][t] # NoModel => lastModel[s] = asked[s][t]

\* the turn t, for which the upstream named no model, is booked as m
AsAsked(s, t, m) ==
  t # 0 /\ t \notin crossed[s] /\ [turn |-> t, model |-> NoModel] \in delivered[s]
    /\ asked[s][t] # NoModel
  => m = asked[s][t]

AskedInv(s) ==
  /\ Crossing(s)
  /\ LastIsAsked(s)
  /\ server[s] \in {"charge", "cover"} => AsAsked(s, frame[s].turn, frame[s].model)
  /\ \A i \in DOMAIN ledger[s] : AsAsked(s, ledger[s][i].turn, ledger[s][i].model)

SessionInv(s) == PumpsRun(s) /\ FrameInv(s) /\ CountInv(s) /\ LedgerInv(s) /\ AskedInv(s)

SlotsInv ==
  \A u \in Users : /\ IsFiniteSet(Bridges(u))
                   /\ slots[u] = Cardinality(Bridges(u)) /\ slots[u] <= MaxConns

BridgeInv ==
  /\ BridgeTypeOK
  /\ SessionMaps
  /\ SlotsInv
  /\ \A s \in Sessions : SessionInv(s)

-----------------------------------------------------------------------------
(* One session at a time.                                                  *)

PumpTypes ==
  /\ handler \in [Sessions -> HandlerPlaces]
  /\ client \in [Sessions -> ClientPlaces]
  /\ server \in [Sessions -> ServerPlaces]
  /\ {over, clientUp, upstreamUp, sawCreate} \subseteq [Sessions -> BOOLEAN]
  /\ lastModel \in [Sessions -> Names]

SessionTypes(s) ==
  /\ asked[s] \in Seq(Names) /\ Len(asked[s]) <= MaxTurns[s]
  /\ answered[s] \in 0 .. Len(asked[s])
  /\ turnsBilled[s] \in 0 .. answered[s]
  /\ frame[s] \in Frames(s) \cup {NoFrame}
  /\ ledger[s] \in Seq(Entries(s))
  /\ delivered[s] \subseteq Answers(s)
  /\ crossed[s] \subseteq TurnsOf(s)
  /\ unbooked[s] \subseteq 0 .. MaxTurns[s]

LEMMA BridgeTypes ==
  BridgeTypeOK <=> /\ slots \in [Users -> Nat] /\ PumpTypes
                    /\ \A s \in Sessions : SessionTypes(s)
BY DEF BridgeTypeOK, PumpTypes, SessionTypes, HandlerPlaces, ClientPlaces, ServerPlaces

\* what a session has looked up or booked is a function or a set that is there
LEMMA SessionFacts ==
  ASSUME BridgeInv, NEW s \in Sessions
  PROVE  /\ PumpTypes /\ SessionTypes(s) /\ SessionInv(s) /\ SessionMaps
         /\ Owner[s] \in Users /\ MaxTurns[s] \in Nat
         /\ answered[s] \in Nat /\ turnsBilled[s] \in Nat
         /\ Len(asked[s]) \in Nat /\ Len(ledger[s]) \in Nat
         /\ answered[s] <= Len(asked[s]) /\ Len(asked[s]) <= MaxTurns[s]
         /\ DOMAIN ledger[s] = 1 .. Len(ledger[s]) /\ DOMAIN asked[s] = 1 .. Len(asked[s])
<1>1. PumpTypes /\ SessionTypes(s) /\ SessionInv(s) /\ SessionMaps
  BY BridgeTypes DEF BridgeInv
<1>2. asked[s] \in Seq(Names) /\ ledger[s] \in Seq(Entries(s))
  BY <1>1 DEF SessionTypes
<1>3. /\ Len(asked[s]) \in Nat /\ Len(ledger[s]) \in Nat
      /\ DOMAIN ledger[s] = 1 .. Len(ledger[s]) /\ DOMAIN asked[s] = 1 .. Len(asked[s])
  BY <1>2
<1>4. Owner[s] \in Users /\ MaxTurns[s] \in Nat
  BY BridgeAssumption
<1> QED
  BY <1>1, <1>3, <1>4 DEF SessionTypes

\* the session t is as it was
SameSession(t) ==
  /\ handler'[t] = handler[t] /\ client'[t] = client[t] /\ server'[t] = server[t]
  /\ asked'[t] = asked[t] /\ answered'[t] = answered[t] /\ crossed'[t] = crossed[t]
  /\ turnsBilled'[t] = turnsBilled[t] /\ lastModel'[t] = lastModel[t]
  /\ frame'[t] = frame[t] /\ ledger'[t] = ledger[t] /\ delivered'[t] = delivered[t]
  /\ unbooked'[t] = unbooked[t]

LEMMA SessionKept ==
  ASSUME BridgeInv, NEW t \in Sessions, SameSession(t)
  PROVE  SessionTypes(t)' /\ SessionInv(t)'
<1>1. SessionTypes(t) /\ SessionInv(t)
  BY SessionFacts
<1>2. /\ Booked(t)' = Booked(t) /\ DeliveredTurns(t)' = DeliveredTurns(t)
      /\ ChargedTurns(t)' = ChargedTurns(t)
      /\ (Booking(t)' <=> Booking(t)) /\ (Billing(t)' <=> Billing(t))
  BY DEF SameSession, Booked, DeliveredTurns, ChargedTurns, Booking, Billing,
         BookingPlaces, BillingPlaces
<1>3. SessionTypes(t)'
  BY <1>1 DEF SameSession, SessionTypes, Frames, Answers, Entries, TurnsOf, Names, NoFrame
<1>4. PumpsRun(t)'
  BY <1>1 DEF SameSession, SessionInv, PumpsRun
<1>5. FrameInv(t)'
  <2>1. Frames(t)' = Frames(t) /\ NoFrame' = NoFrame
    BY DEF Frames, TurnsOf, Names, NoFrame
  <2> QED
    BY <1>1, <1>2, <2>1 DEF SameSession, SessionInv, FrameInv
<1>6. CountInv(t)'
  BY <1>1, <1>2 DEF SameSession, SessionInv, CountInv
<1>7. LedgerInv(t)'
  BY <1>1, <1>2 DEF SameSession, SessionInv, LedgerInv, ChargedOnceEach
<1>8. AskedInv(t)'
  <2>1. Crossing(t)' /\ LastIsAsked(t)'
    BY <1>1, <1>2 DEF SameSession, SessionInv, AskedInv, Crossing, LastIsAsked, ToBook, TurnsOf
  <2> QED
    BY <1>1, <2>1 DEF SameSession, SessionInv, AskedInv, AsAsked
<1> QED
  BY <1>3, <1>4, <1>5, <1>6, <1>7, <1>8 DEF SessionInv

\* A step is looked at in the sessions that it changes.
LEMMA EachSession ==
  ASSUME BridgeInv, PumpTypes', SessionMaps', slots' \in [Users -> Nat], SlotsInv',
         \A t \in Sessions : SameSession(t) \/ (SessionTypes(t)' /\ SessionInv(t)')
  PROVE  BridgeInv'
<1>1. ASSUME NEW t \in Sessions PROVE SessionTypes(t)' /\ SessionInv(t)'
  BY SessionKept
<1>2. BridgeTypeOK'
  BY <1>1 DEF BridgeTypeOK, PumpTypes, SessionTypes, HandlerPlaces, ClientPlaces, ServerPlaces
<1> QED
  BY <1>1, <1>2 DEF BridgeInv

\* What a session asks for is as it was, though the upstream may end a turn.
LEMMA AskedKept ==
  ASSUME BridgeInv, NEW s \in Sessions,
         asked'[s] = asked[s], crossed'[s] = crossed[s], lastModel'[s] = lastModel[s],
         answered'[s] \in Nat, answered[s] <= answered'[s],
         \/ server'[s] = server[s]
         \/ server[s] \notin BookingPlaces /\ server'[s] \notin BookingPlaces
         \/ Billing(s) /\ server'[s] \in {"charge", "cover", "note"},
         Booking(s) => answered'[s] = answered[s]
  PROVE  Crossing(s)' /\ LastIsAsked(s)'
<1>1. Crossing(s) /\ LastIsAsked(s) /\ answered[s] \in Nat /\ Len(asked[s]) \in Nat
  BY SessionFacts DEF SessionInv, AskedInv
<1>2. Booking(s)' <=> Booking(s)
  BY DEF Booking, Billing, BookingPlaces, BillingPlaces
<1>3. Crossing(s)'
  BY <1>1, <1>2 DEF Crossing
<1>4. LastIsAsked(s)'
  <2>1. SUFFICES ASSUME NEW t \in TurnsOf(s), ToBook(s, t)'
                 PROVE  ToBook(s, t)
    BY <1>1 DEF LastIsAsked, TurnsOf
  <2>2. t \in Nat
    BY DEF TurnsOf
  <2> QED
    BY <1>1, <2>1, <2>2 DEF ToBook, Booking, Billing, BookingPlaces, BillingPlaces
<1> QED
  BY <1>3, <1>4

\* Nothing is given or booked, though the upstream may end a turn and the client
\* may ask for one.
LEMMA NothingBooked ==
  ASSUME BridgeInv, NEW s \in Sessions,
         frame'[s] = frame[s], ledger'[s] = ledger[s], delivered'[s] = delivered[s],
         turnsBilled'[s] = turnsBilled[s], unbooked'[s] = unbooked[s],
         answered'[s] \in Nat, answered[s] <= answered'[s],
         Booking(s) => answered'[s] = answered[s],
         crossed[s] \subseteq crossed'[s],
         \A t \in 1 .. Len(asked[s]) : asked'[s][t] = asked[s][t],
         Crossing(s)', LastIsAsked(s)',
         handler[s] \in {"closed", "dead"} => handler'[s] = handler[s],
         \/ server'[s] = server[s]
         \/ server[s] \notin BookingPlaces /\ server'[s] \notin BookingPlaces
  PROVE  FrameInv(s)' /\ CountInv(s)' /\ LedgerInv(s)' /\ AskedInv(s)'
<1>1. /\ FrameInv(s) /\ CountInv(s) /\ LedgerInv(s) /\ AskedInv(s)
      /\ answered[s] \in Nat /\ turnsBilled[s] \in Nat /\ Len(ledger[s]) \in Nat
      /\ delivered[s] \subseteq Answers(s)
      /\ Len(asked[s]) \in Nat /\ answered[s] <= Len(asked[s])
  BY SessionFacts DEF SessionInv, SessionTypes
<1>2. /\ Booked(s)' = Booked(s) /\ DeliveredTurns(s)' = DeliveredTurns(s)
      /\ ChargedTurns(s)' = ChargedTurns(s)
      /\ (Booking(s)' <=> Booking(s)) /\ (Billing(s)' <=> Billing(s))
  BY DEF Booked, DeliveredTurns, ChargedTurns, Booking, Billing, BookingPlaces, BillingPlaces
<1>3. \A f \in delivered[s] : f.turn \in Nat /\ f.turn >= 1
  BY <1>1, SessionFacts DEF Answers, TurnsOf
<1>4. FrameInv(s)'
  <2>1. Frames(s)' = Frames(s) /\ NoFrame' = NoFrame
    BY DEF Frames, TurnsOf, Names, NoFrame
  <2>2. \A f \in delivered'[s] : f.turn <= answered'[s]
    BY <1>1, <1>3 DEF FrameInv
  <2>3. server'[s] = "book" => server[s] = "book"
    BY DEF BookingPlaces
  <2> QED
    BY <1>1, <1>2, <2>1, <2>2, <2>3 DEF FrameInv
<1>5. CountInv(s)'
  <2>1. turnsBilled'[s] + (IF Booking(s)' THEN 1 ELSE 0) <= answered'[s]
    <3>1. turnsBilled[s] + (IF Booking(s) THEN 1 ELSE 0) <= answered[s]
      BY <1>1, Zenon DEF CountInv
    <3>2. turnsBilled[s] + (IF Booking(s)' THEN 1 ELSE 0) <= answered[s]
      BY <1>2, <3>1, Zenon
    <3> QED
      BY <1>1, <3>2
  <2>2. handler'[s] \notin {"closed", "dead"} /\ turnsBilled'[s] = 0 /\ ~ Booking(s)' =>
          delivered'[s] = {} /\ ledger'[s] = <<>>
    <3>1. handler'[s] \notin {"closed", "dead"} => handler[s] \notin {"closed", "dead"}
      OBVIOUS
    <3>2. handler[s] \notin {"closed", "dead"} /\ turnsBilled[s] = 0 /\ ~ Booking(s) =>
            delivered[s] = {} /\ ledger[s] = <<>>
      BY <1>1, Zenon DEF CountInv
    <3> QED
      BY <1>2, <3>1, <3>2, Zenon
  <2> QED
    BY <2>1, <2>2, Zenon DEF CountInv
<1>6. LedgerInv(s)'
  BY <1>1, <1>2 DEF LedgerInv, ChargedOnceEach
<1>7. AskedInv(s)'
  <2>1. ASSUME NEW t, NEW m, AsAsked(s, t, m)
        PROVE  AsAsked(s, t, m)'
    <3>1. SUFFICES ASSUME [turn |-> t, model |-> NoModel] \in delivered[s], t # 0,
                          t \notin crossed'[s], asked'[s][t] # NoModel
                   PROVE  m = asked'[s][t]
      BY DEF AsAsked
    <3>2. t \in 1 .. Len(asked[s])
      <4>1. [turn |-> t, model |-> NoModel].turn = t
        OBVIOUS
      <4>2. t \in Nat /\ t >= 1 /\ t <= answered[s]
        BY <1>1, <1>3, <3>1, <4>1 DEF FrameInv
      <4> QED
        BY <1>1, <4>2
    <3> QED
      BY <2>1, <3>1, <3>2 DEF AsAsked
  <2>2. server'[s] \in {"charge", "cover"} => server[s] = server'[s]
    BY DEF BookingPlaces
  <2>3. \A i \in DOMAIN ledger'[s] : AsAsked(s, ledger[s][i].turn, ledger[s][i].model)'
    BY <1>1, <2>1 DEF AskedInv
  <2>4. server'[s] \in {"charge", "cover"} => AsAsked(s, frame[s].turn, frame[s].model)'
    BY <1>1, <2>1, <2>2 DEF AskedInv
  <2> QED
    BY <2>3, <2>4 DEF AskedInv, AsAsked
<1> QED
  BY <1>4, <1>5, <1>6, <1>7

-----------------------------------------------------------------------------
(* The slots are counted with the bridges.                                 *)

BridgeAt == {"dialing", "open"}

LEMMA SlotsKept ==
  ASSUME BridgeInv, slots' = slots,
         \A t \in Sessions : handler'[t] \in BridgeAt <=> handler[t] \in BridgeAt
  PROVE  SlotsInv' /\ slots' \in [Users -> Nat]
<1>1. \A u \in Users : Bridges(u)' = Bridges(u)
  BY DEF Bridges, BridgeAt
<1> QED
  BY <1>1 DEF BridgeInv, SlotsInv, BridgeTypeOK

LEMMA SlotTaken ==
  ASSUME BridgeInv, NEW s \in Sessions, NEW to \in BridgeAt,
         handler[s] \notin BridgeAt, handler' = [handler EXCEPT ![s] = to],
         slots[Owner[s]] < MaxConns, slots' = [slots EXCEPT ![Owner[s]] = @ + 1]
  PROVE  SlotsInv' /\ slots' \in [Users -> Nat]
<1>1. SlotsInv /\ slots \in [Users -> Nat] /\ Owner[s] \in Users /\ MaxConns \in Nat
      /\ handler \in [Sessions -> HandlerPlaces]
  BY SessionFacts, BridgeAssumption DEF BridgeInv, BridgeTypeOK, HandlerPlaces
<1>2. \A u \in Users : Bridges(u)' = IF u = Owner[s] THEN Bridges(u) \cup {s}
                                                           ELSE Bridges(u)
  BY <1>1 DEF Bridges, BridgeAt
<1>3. s \notin Bridges(Owner[s])
  BY DEF Bridges, BridgeAt
<1>4. slots' \in [Users -> Nat]
  BY <1>1
<1>5. ASSUME NEW u \in Users
      PROVE  /\ IsFiniteSet(Bridges(u)')
             /\ slots'[u] = Cardinality(Bridges(u)') /\ slots'[u] <= MaxConns
  <2>1. IsFiniteSet(Bridges(u)) /\ slots[u] = Cardinality(Bridges(u))
        /\ slots[u] <= MaxConns /\ slots[u] \in Nat
    BY <1>1 DEF SlotsInv
  <2>2. CASE u = Owner[s]
    <3>1. Bridges(u)' = Bridges(u) \cup {s} /\ s \notin Bridges(u)
      BY <1>2, <1>3, <2>2
    <3>2. /\ IsFiniteSet(Bridges(u)')
          /\ Cardinality(Bridges(u)') = Cardinality(Bridges(u)) + 1
      BY <2>1, <3>1, FS_AddElement
    <3>3. slots'[u] = slots[u] + 1 /\ slots[u] < MaxConns
      BY <1>1, <2>2
    <3> QED
      BY <1>1, <2>1, <3>2, <3>3
  <2>3. CASE u # Owner[s]
    BY <1>1, <1>2, <2>1, <2>3
  <2> QED
    BY <2>2, <2>3
<1> QED
  BY <1>4, <1>5 DEF SlotsInv

LEMMA SlotGivenBack ==
  ASSUME BridgeInv, NEW s \in Sessions,
         handler[s] \in BridgeAt, handler' = [handler EXCEPT ![s] = "closed"], slots' = Released(s)
  PROVE  SlotsInv' /\ slots' \in [Users -> Nat]
<1>1. SlotsInv /\ slots \in [Users -> Nat] /\ Owner[s] \in Users /\ MaxConns \in Nat
      /\ handler \in [Sessions -> HandlerPlaces]
      /\ slots' = [slots EXCEPT ![Owner[s]] = @ - 1]
  BY SessionFacts, BridgeAssumption DEF BridgeInv, BridgeTypeOK, Released, HandlerPlaces
<1>2. \A u \in Users : Bridges(u)' = IF u = Owner[s] THEN Bridges(u) \ {s}
                                                           ELSE Bridges(u)
  BY <1>1 DEF Bridges, BridgeAt
<1>3. s \in Bridges(Owner[s])
  BY <1>1 DEF Bridges, BridgeAt
<1>4. ASSUME NEW u \in Users
      PROVE  /\ IsFiniteSet(Bridges(u)') /\ slots'[u] \in Nat
             /\ slots'[u] = Cardinality(Bridges(u)') /\ slots'[u] <= MaxConns
  <2>1. IsFiniteSet(Bridges(u)) /\ slots[u] = Cardinality(Bridges(u))
        /\ slots[u] <= MaxConns /\ slots[u] \in Nat
    BY <1>1 DEF SlotsInv
  <2>2. CASE u = Owner[s]
    <3>1. Bridges(u)' = Bridges(u) \ {s} /\ s \in Bridges(u)
      BY <1>2, <1>3, <2>2
    <3>2. /\ IsFiniteSet(Bridges(u)')
          /\ Cardinality(Bridges(u)') = Cardinality(Bridges(u)) - 1
      BY <2>1, <3>1, FS_RemoveElement
    <3>3. Cardinality(Bridges(u)') \in Nat
      BY <3>2, FS_CardinalityType
    <3>4. slots'[u] = slots[u] - 1
      BY <1>1, <2>2
    <3> QED
      BY <1>1, <2>1, <3>2, <3>3, <3>4
  <2>3. CASE u # Owner[s]
    BY <1>1, <1>2, <2>1, <2>3
  <2> QED
    BY <2>2, <2>3
<1>5. slots' \in [Users -> Nat]
  BY <1>1, <1>4
<1> QED
  BY <1>4, <1>5 DEF SlotsInv

\* the sessions other than s stay where they are
OthersStay(s) ==
  \A t \in Sessions \ {s} :
    /\ handler'[t] = handler[t] /\ client'[t] = client[t] /\ server'[t] = server[t]
    /\ asked'[t] = asked[t] /\ answered'[t] = answered[t] /\ crossed'[t] = crossed[t]
    /\ lastModel'[t] = lastModel[t]

\* A step in which nothing is given or booked: its pumps and what the client asked
\* for are looked at.
LEMMA QuietSession ==
  ASSUME BridgeInv, NEW s \in Sessions,
         PumpTypes', slots' \in [Users -> Nat], SlotsInv', PumpsRun(s)',
         UNCHANGED <<frame, ledger, delivered, turnsBilled, unbooked>>,
         DOMAIN asked' = Sessions, DOMAIN answered' = Sessions, DOMAIN crossed' = Sessions,
         asked'[s] \in Seq(Names), Len(asked'[s]) <= MaxTurns[s],
         answered'[s] \in 0 .. Len(asked'[s]), answered[s] <= answered'[s],
         Booking(s) => answered'[s] = answered[s],
         crossed[s] \subseteq crossed'[s], crossed'[s] \subseteq TurnsOf(s),
         \A t \in 1 .. Len(asked[s]) : asked'[s][t] = asked[s][t],
         Crossing(s)', LastIsAsked(s)',
         handler[s] \in {"closed", "dead"} => handler'[s] = handler[s],
         \/ server'[s] = server[s]
         \/ server[s] \notin BookingPlaces /\ server'[s] \notin BookingPlaces,
         OthersStay(s)
  PROVE  BridgeInv'
<1>1. /\ SessionMaps' /\ SessionTypes(s) /\ answered'[s] \in Nat /\ answered[s] \in Nat
      /\ turnsBilled[s] \in Nat
  <2>1. Len(asked'[s]) \in Nat
    OBVIOUS
  <2> QED
    BY <2>1, SessionFacts DEF SessionMaps
<1>2. SessionTypes(s)'
  <2>1. Frames(s)' = Frames(s) /\ NoFrame' = NoFrame /\ Answers(s)' = Answers(s)
        /\ Entries(s)' = Entries(s) /\ Names' = Names /\ TurnsOf(s)' = TurnsOf(s)
    BY DEF Frames, TurnsOf, Names, NoFrame, Entries, Answers
  <2>2. turnsBilled[s] \in 0 .. answered'[s]
    BY <1>1 DEF SessionTypes
  <2> QED
    BY <1>1, <2>1, <2>2 DEF SessionTypes
<1>3. FrameInv(s)' /\ CountInv(s)' /\ LedgerInv(s)' /\ AskedInv(s)'
  BY <1>1, NothingBooked
<1>4. SessionInv(s)'
  BY <1>3 DEF SessionInv
<1>5. \A t \in Sessions : t = s \/ SameSession(t)
  BY DEF SameSession, OthersStay
<1> QED
  BY <1>1, <1>2, <1>4, <1>5, EachSession

\* A step that leaves what was asked for, and may end a turn that nobody books.
LEMMA QuietStep ==
  ASSUME BridgeInv, NEW s \in Sessions,
         PumpTypes', slots' \in [Users -> Nat], SlotsInv', PumpsRun(s)',
         UNCHANGED <<frame, ledger, delivered, turnsBilled, unbooked, asked, crossed, lastModel>>,
         \/ answered' = answered
         \/ /\ answered[s] < Len(asked[s]) /\ server[s] \notin BookingPlaces
            /\ answered' = [answered EXCEPT ![s] = @ + 1],
         handler[s] \in {"closed", "dead"} => handler'[s] = handler[s],
         \/ server'[s] = server[s]
         \/ server[s] \notin BookingPlaces /\ server'[s] \notin BookingPlaces,
         \A t \in Sessions \ {s} :
           handler'[t] = handler[t] /\ client'[t] = client[t] /\ server'[t] = server[t]
  PROVE  BridgeInv'
<1>1. /\ SessionTypes(s) /\ SessionMaps /\ answered[s] \in Nat /\ Len(asked[s]) \in Nat
      /\ answered[s] <= Len(asked[s])
  BY SessionFacts
<1>2. /\ DOMAIN answered' = Sessions /\ answered'[s] \in 0 .. Len(asked[s])
      /\ answered[s] <= answered'[s] /\ answered'[s] \in Nat
      /\ Booking(s) => answered'[s] = answered[s]
      /\ \A t \in Sessions \ {s} : answered'[t] = answered[t]
  BY <1>1 DEF SessionMaps, Booking
<1>3. Crossing(s)' /\ LastIsAsked(s)'
  BY <1>2, AskedKept
<1>4. OthersStay(s)
  BY <1>2 DEF OthersStay
<1>5. DOMAIN asked' = Sessions /\ DOMAIN crossed' = Sessions /\ crossed[s] \subseteq TurnsOf(s)
      /\ asked'[s] \in Seq(Names) /\ Len(asked'[s]) <= MaxTurns[s]
  BY <1>1 DEF SessionMaps, SessionTypes
<1> QED
  BY <1>2, <1>3, <1>4, <1>5, QuietSession

-----------------------------------------------------------------------------
(* The handler, and what happens to a session.                             *)

LEMMA HandlerBridge ==
  ASSUME BridgeInv, NEW s \in Sessions,
         \/ Handshake(s) \/ UpgradeFails(s) \/ Reserve(s)
         \/ DialFails(s) \/ Dialed(s)
  PROVE  BridgeInv'
<1>0. PumpTypes /\ SessionInv(s)
  BY SessionFacts
<1>1. UNCHANGED <<over, upstreamUp, asked, answered, crossed, lastModel, sawCreate, turnsBilled,
                  frame, ledger, delivered, unbooked>>
  BY DEF Handshake, UpgradeFails, Reserve, DialFails, Dialed,
         connVars, askVars, stateVars, bookVars
<1>2. PICK from \in {"new", "upgrading", "dialing"},
           to \in {"upgrading", "dialing", "open", "closed"} : HandlerGoes(s, from, to)
  BY Zenon DEF Handshake, UpgradeFails, Reserve, DialFails, Dialed
<1>3. /\ handler[s] = from /\ handler' = [handler EXCEPT ![s] = to]
      /\ handler[s] \notin {"closed", "dead"}
  BY <1>2 DEF HandlerGoes
<1>4. client[s] = "off" /\ server[s] = "off"
  BY <1>0, <1>3 DEF SessionInv, PumpsRun
<1>5. \/ UNCHANGED <<client, server>> /\ to # "open"
      \/ /\ to = "open"
         /\ client' = [client EXCEPT ![s] = "top"] /\ server' = [server EXCEPT ![s] = "top"]
  <2>1. CASE Dialed(s)
    BY <1>0, <1>3, <2>1 DEF Dialed, HandlerGoes, PumpTypes
  <2>2. CASE Handshake(s) \/ UpgradeFails(s) \/ Reserve(s) \/ DialFails(s)
    BY <1>0, <1>3, <2>2
       DEF Handshake, UpgradeFails, Reserve, DialFails, HandlerGoes, PumpTypes
  <2> QED
    BY <2>1, <2>2
<1>6. SlotsInv' /\ slots' \in [Users -> Nat]
  <2>1. CASE Reserve(s) /\ HasRoom(s)
    BY <1>0, <2>1, SlotTaken
       DEF Reserve, HasRoom, HandlerGoes, BridgeAt
  <2>2. CASE DialFails(s)
    BY <1>0, <2>2, SlotGivenBack DEF DialFails, HandlerGoes, BridgeAt
  <2>3. CASE \/ Handshake(s) \/ UpgradeFails(s) \/ Dialed(s)
             \/ Reserve(s) /\ ~ HasRoom(s)
    <3>1. slots' = slots
      BY <2>3 DEF Handshake, UpgradeFails, Dialed, Reserve
    <3>2. \A t \in Sessions : handler'[t] \in BridgeAt <=> handler[t] \in BridgeAt
      BY <1>0, <2>3 DEF Handshake, UpgradeFails, Dialed, Reserve,
                        HandlerGoes, BridgeAt, PumpTypes
    <3> QED
      BY <3>1, <3>2, SlotsKept
  <2> QED
    BY <2>1, <2>2, <2>3
<1>7. PumpTypes'
  <2>1. clientUp' = clientUp \/ clientUp' = [clientUp EXCEPT ![s] = FALSE]
    BY DEF Handshake, UpgradeFails, Reserve, DialFails, Dialed, ClosesClient, connVars
  <2>2. clientUp \in [Sessions -> BOOLEAN]
    BY <1>0 DEF PumpTypes
  <2>3. clientUp' \in [Sessions -> BOOLEAN]
    BY <2>1, <2>2
  <2>4. {over', sawCreate', upstreamUp'} \subseteq [Sessions -> BOOLEAN]
    BY <1>0, <1>1 DEF PumpTypes
  <2>5. /\ handler' \in [Sessions -> HandlerPlaces] /\ client' \in [Sessions -> ClientPlaces]
        /\ server' \in [Sessions -> ServerPlaces]
    BY <1>0, <1>3, <1>5 DEF PumpTypes, HandlerPlaces, ClientPlaces, ServerPlaces
  <2> QED
    BY <1>0, <1>1, <2>3, <2>4, <2>5 DEF PumpTypes, Names
<1>8. PumpsRun(s)'
  BY <1>0, <1>3, <1>4, <1>5 DEF PumpTypes, PumpsRun
<1>9. \A t \in Sessions \ {s} :
        handler'[t] = handler[t] /\ client'[t] = client[t] /\ server'[t] = server[t]
  BY <1>0, <1>3, <1>5 DEF PumpTypes
<1>10. server'[s] = server[s] \/ (server[s] = "off" /\ server'[s] = "top")
  BY <1>0, <1>4, <1>5 DEF PumpTypes
<1> QED
  BY <1>1, <1>3, <1>6, <1>7, <1>8, <1>9, <1>10, QuietStep DEF BookingPlaces

LEMMA ConnectionBridge ==
  ASSUME BridgeInv, NEW s \in Sessions,
         HourEnds(s) \/ ClientLeaves(s) \/ UpstreamLeaves(s)
  PROVE  BridgeInv'
<1>0. PumpTypes /\ SessionInv(s)
  BY SessionFacts
<1>1. UNCHANGED <<slots, handler, client, server, asked, answered, crossed, lastModel, sawCreate,
                  turnsBilled, frame, ledger, delivered, unbooked>>
  BY DEF HourEnds, ClientLeaves, UpstreamLeaves,
         connVars, askVars, stateVars, bookVars
<1>2. {over', clientUp', upstreamUp'} \subseteq [Sessions -> BOOLEAN]
  <2>1. {over, clientUp, upstreamUp} \subseteq [Sessions -> BOOLEAN]
    BY <1>0 DEF PumpTypes
  <2>2. over' = over \/ over' = [over EXCEPT ![s] = TRUE]
    BY DEF HourEnds, ClientLeaves, UpstreamLeaves
  <2>3. clientUp' = clientUp \/ clientUp' = [clientUp EXCEPT ![s] = FALSE]
    BY DEF HourEnds, ClientLeaves, UpstreamLeaves, connVars
  <2>4. upstreamUp' = upstreamUp \/ upstreamUp' = [upstreamUp EXCEPT ![s] = FALSE]
    BY DEF HourEnds, ClientLeaves, UpstreamLeaves, connVars
  <2> QED
    BY <2>1, <2>2, <2>3, <2>4
<1>3. PumpTypes'
  BY <1>0, <1>1, <1>2 DEF PumpTypes, Names, HandlerPlaces, ClientPlaces, ServerPlaces
<1>4. SlotsInv' /\ slots' \in [Users -> Nat]
  BY <1>1, SlotsKept
<1>5. PumpsRun(s)'
  BY <1>0, <1>1 DEF SessionInv, PumpsRun
<1> QED
  BY <1>1, <1>3, <1>4, <1>5, QuietStep

-----------------------------------------------------------------------------
(* The pump towards the upstream, and what the other reads that is no      *)
(* answer.                                                                 *)

\* a pump goes on, or ends with its session
PumpGoes(s, to) ==
  /\ \/ client[s] \in {"top", "read"} /\ client' = [client EXCEPT ![s] = to]
        /\ server' = server
     \/ server[s] \in {"top", "read"} /\ server' = [server EXCEPT ![s] = to]
        /\ client' = client
  /\ over' = [over EXCEPT ![s] = @ \/ to = "end"]
  /\ UNCHANGED <<slots, handler, clientUp, upstreamUp>>

LEMMA PumpMoves ==
  ASSUME BridgeInv, NEW s \in Sessions, NEW to \in {"top", "read", "book", "end"},
         to = "book" => client' = client, PumpGoes(s, to),
         sawCreate' = sawCreate \/ sawCreate' = [sawCreate EXCEPT ![s] = TRUE],
         lastModel' \in [Sessions -> Names]
  PROVE  /\ PumpTypes' /\ SlotsInv' /\ slots' \in [Users -> Nat] /\ PumpsRun(s)'
         /\ handler[s] \notin {"closed", "dead"}
         /\ server'[s] = server[s] \/ (server[s] \in {"top", "read"} /\ server'[s] = to)
         /\ \A t \in Sessions \ {s} :
              handler'[t] = handler[t] /\ client'[t] = client[t] /\ server'[t] = server[t]
<1>0. PumpTypes /\ SessionInv(s)
  BY SessionFacts
<1>1. {over', sawCreate', clientUp', upstreamUp'} \subseteq [Sessions -> BOOLEAN]
  <2>1. {over, clientUp, upstreamUp, sawCreate} \subseteq [Sessions -> BOOLEAN]
    BY <1>0 DEF PumpTypes
  <2>2. over[s] \in BOOLEAN /\ over \in [Sessions -> BOOLEAN]
    BY <2>1
  <2>3. over' \in [Sessions -> BOOLEAN]
    BY <2>2 DEF PumpGoes
  <2>4. sawCreate' \in [Sessions -> BOOLEAN]
    BY <2>1
  <2>5. clientUp' = clientUp /\ upstreamUp' = upstreamUp
    BY DEF PumpGoes
  <2> QED
    BY <2>1, <2>3, <2>4, <2>5
<1>2. PumpTypes'
  <2>1. client' \in [Sessions -> ClientPlaces] /\ server' \in [Sessions -> ServerPlaces]
    BY <1>0 DEF PumpTypes, ClientPlaces, ServerPlaces, PumpGoes
  <2>2. handler' \in [Sessions -> HandlerPlaces]
    BY <1>0 DEF PumpTypes, HandlerPlaces, PumpGoes
  <2> QED
    BY <1>1, <2>1, <2>2 DEF PumpTypes, Names
<1>3. SlotsInv' /\ slots' \in [Users -> Nat]
  BY SlotsKept DEF PumpGoes
<1>4. PumpsRun(s)' /\ handler[s] \notin {"closed", "dead"}
  BY <1>0 DEF SessionInv, PumpsRun, PumpTypes, PumpGoes
<1>5. /\ server'[s] = server[s] \/ (server[s] \in {"top", "read"} /\ server'[s] = to)
      /\ \A t \in Sessions \ {s} :
           handler'[t] = handler[t] /\ client'[t] = client[t] /\ server'[t] = server[t]
  BY <1>0 DEF PumpTypes, PumpGoes
<1> QED
  BY <1>2, <1>3, <1>4, <1>5

LEMMA PumpTurn ==
  ASSUME BridgeInv, NEW s \in Sessions, NEW to \in {"top", "read", "end"}, PumpGoes(s, to),
         UNCHANGED <<lastModel, sawCreate, turnsBilled, frame, ledger, delivered, unbooked,
                     asked, crossed>>,
         \/ answered' = answered
         \/ /\ answered[s] < Len(asked[s]) /\ server[s] = "read"
            /\ answered' = [answered EXCEPT ![s] = @ + 1]
  PROVE  BridgeInv'
<1>1. lastModel' \in [Sessions -> Names]
  BY SessionFacts DEF PumpTypes
<1>2. /\ PumpTypes' /\ SlotsInv' /\ slots' \in [Users -> Nat] /\ PumpsRun(s)'
      /\ handler[s] \notin {"closed", "dead"}
      /\ server'[s] = server[s] \/ (server[s] \in {"top", "read"} /\ server'[s] = to)
      /\ \A t \in Sessions \ {s} :
           handler'[t] = handler[t] /\ client'[t] = client[t] /\ server'[t] = server[t]
  BY <1>1, PumpMoves
<1> QED
  BY <1>2, QuietStep DEF BookingPlaces

LEMMA ClientBridge ==
  ASSUME BridgeInv, NEW s \in Sessions,
         ClientTop(s) \/ ClientFrame(s) \/ ClientTooFast(s) \/ ClientEnds(s)
  PROVE  BridgeInv'
<1>1. UNCHANGED <<slots, handler, server, clientUp, upstreamUp, asked, answered, crossed,
                  lastModel, sawCreate, turnsBilled, frame, ledger, delivered, unbooked>>
  BY DEF ClientTop, ClientFrame, ClientTooFast, ClientEnds,
         connVars, askVars, stateVars, bookVars
<1>2. \E from \in {"top", "read"}, to \in {"top", "read", "end"} : ClientGoes(s, from, to)
  <2>1. AfterTop(s) \in {"top", "read", "end"}
        /\ (IF upstreamUp[s] THEN "top" ELSE "end") \in {"top", "read", "end"}
    BY DEF AfterTop
  <2> QED
    BY <2>1, Zenon DEF ClientTop, ClientFrame, ClientTooFast, ClientEnds
<1>3. PICK to \in {"top", "read", "end"} :
        /\ client[s] \in {"top", "read"} /\ client' = [client EXCEPT ![s] = to]
        /\ over' = [over EXCEPT ![s] = @ \/ to = "end"]
  BY <1>2 DEF ClientGoes
<1>4. PumpGoes(s, to)
  BY <1>1, <1>3 DEF PumpGoes
<1> QED
  BY <1>1, <1>4, PumpTurn

LEMMA ReadBridge ==
  ASSUME BridgeInv, NEW s \in Sessions,
         ServerTop(s) \/ ServerFrame(s) \/ ServerEnds(s)
  PROVE  BridgeInv'
<1>1. UNCHANGED <<slots, handler, client, clientUp, upstreamUp, asked, crossed, lastModel,
                  sawCreate, turnsBilled, frame, ledger, delivered, unbooked>>
  BY DEF ServerTop, ServerFrame, ServerEnds,
         connVars, askVars, stateVars, bookVars
<1>2. \E from \in {"top", "read"}, to \in {"top", "read", "end"} : ServerGoes(s, from, to)
  <2>1. AfterTop(s) \in {"top", "read", "end"}
        /\ (IF clientUp[s] THEN "top" ELSE "end") \in {"top", "read", "end"}
    BY DEF AfterTop
  <2> QED
    BY <2>1, Zenon DEF ServerTop, ServerFrame, ServerEnds
<1>3. PICK to \in {"top", "read", "end"} :
        /\ server[s] \in {"top", "read"} /\ server' = [server EXCEPT ![s] = to]
        /\ over' = [over EXCEPT ![s] = @ \/ to = "end"]
  BY <1>2 DEF ServerGoes
<1>4. \/ answered' = answered
      \/ /\ answered[s] < Len(asked[s]) /\ server[s] = "read"
         /\ answered' = [answered EXCEPT ![s] = @ + 1]
  BY DEF ServerTop, ServerFrame, ServerEnds, ServerGoes, askVars
<1>5. PumpGoes(s, to)
  BY <1>1, <1>3 DEF PumpGoes
<1> QED
  BY <1>1, <1>4, <1>5, PumpTurn

\* A request: the turns that wait then cross it, and it them.
LEMMA CreateBridge ==
  ASSUME BridgeInv, NEW s \in Sessions, NEW model \in AskModels \cup {NoModel},
         Create(s, model)
  PROVE  BridgeInv'
<1> DEFINE to == IF upstreamUp[s] THEN "top" ELSE "end"
           n == Len(asked[s]) + 1
<1>0. /\ PumpTypes /\ SessionTypes(s) /\ SessionInv(s) /\ SessionMaps
      /\ answered[s] \in Nat /\ Len(asked[s]) \in Nat /\ MaxTurns[s] \in Nat
      /\ answered[s] <= Len(asked[s]) /\ asked[s] \in Seq(Names)
  BY SessionFacts DEF SessionTypes
<1>1. /\ client[s] = "read" /\ client' = [client EXCEPT ![s] = to]
      /\ over' = [over EXCEPT ![s] = @ \/ to = "end"]
      /\ sawCreate' = [sawCreate EXCEPT ![s] = TRUE]
      /\ lastModel' = [lastModel EXCEPT ![s] = Named(s, model)]
      /\ Len(asked[s]) < MaxTurns[s]
      /\ asked' = IF upstreamUp[s] THEN [asked EXCEPT ![s] = Append(@, model)] ELSE asked
      /\ crossed' = IF Outstanding(s) = {} THEN crossed
                    ELSE [crossed EXCEPT ![s] = @ \cup Outstanding(s) \cup {n}]
      /\ UNCHANGED <<slots, handler, server, clientUp, upstreamUp, answered, turnsBilled,
                     frame, ledger, delivered, unbooked>>
  BY DEF Create, ClientGoes, connVars, bookVars
<1>2. to \in {"top", "read", "book", "end"} /\ PumpGoes(s, to) /\ to # "book"
  BY <1>1 DEF PumpGoes
<1> HIDE DEF to
<1>3. model \in Names /\ lastModel' \in [Sessions -> Names]
  <2>1. model \in Names /\ lastModel \in [Sessions -> Names]
    BY <1>0 DEF PumpTypes, Names
  <2>2. Named(s, model) \in Names
    BY <2>1 DEF Named
  <2> QED
    BY <1>1, <2>1, <2>2
<1>4. /\ PumpTypes' /\ SlotsInv' /\ slots' \in [Users -> Nat] /\ PumpsRun(s)'
      /\ handler[s] \notin {"closed", "dead"}
      /\ \A t \in Sessions \ {s} :
           handler'[t] = handler[t] /\ client'[t] = client[t] /\ server'[t] = server[t]
  BY <1>1, <1>2, <1>3, PumpMoves
<1>5. /\ asked'[s] \in Seq(Names) /\ Len(asked'[s]) <= MaxTurns[s]
      /\ DOMAIN asked' = Sessions /\ Len(asked'[s]) \in Nat
      /\ Len(asked[s]) <= Len(asked'[s]) /\ Len(asked'[s]) <= n
      /\ \A t \in 1 .. Len(asked[s]) : asked'[s][t] = asked[s][t]
      /\ Len(asked'[s]) = n => asked'[s][n] = model
  <2>1. CASE ~ upstreamUp[s]
    BY <1>0, <1>1, <2>1 DEF SessionTypes, SessionMaps
  <2>2. CASE upstreamUp[s]
    <3>1. asked'[s] = Append(asked[s], model) /\ DOMAIN asked' = Sessions
      BY <1>0, <1>1, <2>2 DEF SessionMaps
    <3>2. /\ asked'[s] \in Seq(Names) /\ Len(asked'[s]) = n /\ asked'[s][n] = model
          /\ \A t \in 1 .. Len(asked[s]) : asked'[s][t] = asked[s][t]
      BY <1>0, <1>3, <3>1
    <3> QED
      BY <1>0, <1>1, <3>1, <3>2
  <2> QED
    BY <2>1, <2>2
<1>6. /\ answered'[s] \in 0 .. Len(asked'[s]) /\ answered'[s] = answered[s]
      /\ DOMAIN answered' = Sessions
  BY <1>0, <1>1, <1>5 DEF SessionMaps
<1>7. n \in TurnsOf(s) /\ Outstanding(s) \subseteq TurnsOf(s)
  BY <1>0, <1>1 DEF TurnsOf, Outstanding
<1>8. /\ crossed[s] \subseteq crossed'[s] /\ crossed'[s] \subseteq TurnsOf(s)
      /\ DOMAIN crossed' = Sessions
      /\ Outstanding(s) # {} => Outstanding(s) \cup {n} \subseteq crossed'[s]
  BY <1>0, <1>1, <1>7 DEF SessionTypes, SessionMaps
<1>9. /\ \A t \in (answered[s] + 1) .. Len(asked[s]) : t \in Outstanding(s)
      /\ Booking(s) => answered[s] \in Outstanding(s)
  <2>1. Booking(s) => frame[s].turn \in TurnsOf(s) /\ frame[s].turn = answered[s]
    BY <1>0 DEF SessionInv, FrameInv, Frames
  <2>2. ASSUME NEW t \in (answered[s] + 1) .. Len(asked[s]) PROVE t \in TurnsOf(s)
    BY <1>0, <1>1 DEF TurnsOf
  <2> QED
    BY <2>1, <2>2 DEF Outstanding
<1>10. Booking(s)' <=> Booking(s)
  BY <1>1 DEF Booking
<1>11. Crossing(s)'
  <2>1. SUFFICES ASSUME Booking(s) \/ Len(asked'[s]) > answered[s] + 1,
                        NEW t \in (answered[s] + 1) .. Len(asked'[s])
                 PROVE  t \in crossed'[s]
    BY <1>6, <1>10 DEF Crossing
  <2>2. t \in (answered[s] + 1) .. Len(asked[s]) \/ t = n
    BY <1>0, <1>5
  <2>3. Outstanding(s) # {}
    <3>1. CASE Booking(s)
      BY <1>9, <3>1
    <3>2. CASE Len(asked'[s]) > answered[s] + 1
      <4>1. answered[s] + 1 \in (answered[s] + 1) .. Len(asked[s])
        BY <1>0, <1>5, <3>2
      <4> QED
        BY <1>9, <4>1
    <3> QED
      BY <2>1, <3>1, <3>2
  <2> QED
    BY <1>8, <1>9, <2>2, <2>3
<1>12. LastIsAsked(s)'
  <2>1. SUFFICES ASSUME NEW t \in TurnsOf(s), ToBook(s, t)', t \notin crossed'[s],
                        asked'[s][t] # NoModel
                 PROVE  lastModel'[s] = asked'[s][t]
    BY DEF LastIsAsked, TurnsOf
  <2>2. t \in (answered[s] + 1) .. Len(asked'[s]) \/ (Booking(s) /\ t = answered[s])
    BY <1>1, <1>6, <2>1 DEF ToBook, Booking, BookingPlaces
  <2>3. t \in Outstanding(s) \/ (t = n /\ Len(asked'[s]) = n)
    <3>1. t \in (answered[s] + 1) .. Len(asked'[s]) =>
            t \in (answered[s] + 1) .. Len(asked[s]) \/ (t = n /\ Len(asked'[s]) = n)
      BY <1>0, <1>5, <1>7, <2>1 DEF TurnsOf
    <3> QED
      BY <1>9, <2>2, <3>1
  <2>4. t = n /\ Len(asked'[s]) = n
    BY <1>8, <2>1, <2>3
  <2>5. asked'[s][t] = model
    BY <1>5, <2>4
  <2>6. lastModel'[s] = Named(s, model)
    BY <1>0, <1>1 DEF PumpTypes
  <2> QED
    BY <2>1, <2>5, <2>6 DEF Named
<1>13. OthersStay(s)
  <2>1. ASSUME NEW t \in Sessions \ {s}
        PROVE  /\ asked'[t] = asked[t] /\ answered'[t] = answered[t]
               /\ crossed'[t] = crossed[t] /\ lastModel'[t] = lastModel[t]
    BY <1>0, <1>1 DEF SessionMaps, PumpTypes
  <2> QED
    BY <1>4, <2>1 DEF OthersStay
<1> HIDE DEF n
<1>14. server'[s] = server[s]
  BY <1>1
<1> QED
  BY <1>0, <1>1, <1>4, <1>5, <1>6, <1>8, <1>11, <1>12, <1>13, <1>14, QuietSession

-----------------------------------------------------------------------------
(* Answers and entries.                                                    *)

\* the entries of a session after one more
LEMMA AppendsEntry ==
  ASSUME BridgeInv, NEW s \in Sessions, NEW e \in Entries(s),
         ledger' = [ledger EXCEPT ![s] = Append(@, e)]
  PROVE  /\ ledger'[s] \in Seq(Entries(s)) /\ DOMAIN ledger' = Sessions
         /\ Len(ledger'[s]) = Len(ledger[s]) + 1
         /\ DOMAIN ledger'[s] = 1 .. Len(ledger[s]) + 1
         /\ ledger'[s][Len(ledger[s]) + 1] = e
         /\ \A i \in 1 .. Len(ledger[s]) : ledger'[s][i] = ledger[s][i]
         /\ Booked(s)' = Booked(s) \cup {e.turn}
         /\ \A t \in Sessions \ {s} : ledger'[t] = ledger[t]
<1>1. /\ SessionTypes(s) /\ SessionMaps
      /\ Len(ledger[s]) \in Nat /\ DOMAIN ledger[s] = 1 .. Len(ledger[s])
  BY SessionFacts
<1>2. ledger[s] \in Seq(Entries(s)) /\ ledger'[s] = Append(ledger[s], e)
      /\ DOMAIN ledger' = Sessions
  BY <1>1 DEF SessionTypes, SessionMaps
<1>3. /\ ledger'[s] \in Seq(Entries(s))
      /\ Len(ledger'[s]) = Len(ledger[s]) + 1
      /\ ledger'[s][Len(ledger[s]) + 1] = e
      /\ \A i \in 1 .. Len(ledger[s]) : ledger'[s][i] = ledger[s][i]
  BY <1>1, <1>2
<1>4. DOMAIN ledger'[s] = 1 .. Len(ledger[s]) + 1
  BY <1>3
<1>5. 1 .. Len(ledger'[s]) = 1 .. Len(ledger[s]) \cup {Len(ledger[s]) + 1}
  BY <1>1, <1>3
<1>6. Booked(s)' = Booked(s) \cup {e.turn}
  BY <1>1, <1>3, <1>5 DEF Booked
<1> QED
  BY <1>1, <1>2, <1>3, <1>4, <1>6 DEF SessionMaps

LEMMA CompleteBridge ==
  ASSUME BridgeInv, NEW s \in Sessions, NEW f \in Answers(s), Complete(s, f)
  PROVE  BridgeInv'
<1>0. /\ PumpTypes /\ SessionTypes(s) /\ SessionInv(s) /\ SessionMaps
      /\ answered[s] \in Nat /\ Len(asked[s]) \in Nat /\ turnsBilled[s] \in Nat
      /\ Len(ledger[s]) \in Nat /\ DOMAIN ledger[s] = 1 .. Len(ledger[s])
  BY SessionFacts
<1>1. /\ answered[s] < Len(asked[s]) /\ f.turn = answered[s] + 1
      /\ answered' = [answered EXCEPT ![s] = answered[s] + 1]
      /\ UNCHANGED <<slots, handler, client, clientUp, upstreamUp, asked, crossed, lastModel,
                     sawCreate, turnsBilled, ledger, unbooked>>
      /\ server[s] = "read"
  BY DEF Complete, ServerGoes, connVars, stateVars
<1>2. CASE ~ clientUp[s]
  <2>1. /\ server' = [server EXCEPT ![s] = "end"]
        /\ over' = [over EXCEPT ![s] = @ \/ "end" = "end"]
        /\ UNCHANGED <<frame, delivered>>
    BY <1>2 DEF Complete, ServerGoes
  <2>2. PumpGoes(s, "end")
    BY <1>1, <2>1 DEF PumpGoes
  <2> QED
    BY <1>1, <2>1, <2>2, PumpTurn
<1>3. CASE clientUp[s]
  <2>1. /\ server' = [server EXCEPT ![s] = "book"]
        /\ over' = [over EXCEPT ![s] = @ \/ "book" = "end"]
        /\ frame' = [frame EXCEPT ![s] = f]
        /\ delivered' = [delivered EXCEPT ![s] = delivered[s] \cup {f}]
    BY <1>3 DEF Complete, ServerGoes
  <2>2. /\ PumpTypes' /\ SlotsInv' /\ slots' \in [Users -> Nat] /\ PumpsRun(s)'
        /\ handler[s] \notin {"closed", "dead"}
        /\ \A t \in Sessions \ {s} : server'[t] = server[t]
    <3>1. lastModel' \in [Sessions -> Names]
      BY <1>0, <1>1 DEF PumpTypes
    <3>2. PumpGoes(s, "book")
      BY <1>1, <2>1 DEF PumpGoes
    <3> QED
      BY <1>1, <3>1, <3>2, PumpMoves
  <2>3. SessionMaps'
    BY <1>0, <1>1, <2>1 DEF SessionMaps
  <2>4. /\ server'[s] = "book" /\ frame'[s] = f /\ answered'[s] = answered[s] + 1
        /\ delivered'[s] = delivered[s] \cup {f} /\ ledger'[s] = ledger[s]
    BY <1>0, <1>1, <2>1 DEF SessionMaps, PumpTypes
  <2>5. f \in Frames(s) /\ f.turn \in Nat /\ f.turn # 0
    BY DEF Answers, Frames, Names, TurnsOf
  <2>6. SessionTypes(s)'
    <3>1. Frames(s)' = Frames(s) /\ Entries(s)' = Entries(s) /\ Answers(s)' = Answers(s)
          /\ Names' = Names /\ TurnsOf(s)' = TurnsOf(s) /\ NoFrame' = NoFrame
      BY DEF Frames, TurnsOf, Names, Entries, Answers, NoFrame
    <3>2. answered'[s] \in 0 .. Len(asked'[s]) /\ turnsBilled'[s] \in 0 .. answered'[s]
      BY <1>0, <1>1, <2>4 DEF SessionTypes
    <3> QED
      BY <1>0, <1>1, <2>4, <2>5, <3>1, <3>2 DEF SessionTypes
  <2>7. /\ \A g \in delivered[s] : g.turn <= answered[s] /\ g.turn \in Nat
        /\ Booked(s) \ {0} \subseteq DeliveredTurns(s)
        /\ ~ Booking(s) /\ ~ Billing(s)
    BY <1>0, <1>1 DEF SessionInv, SessionTypes, FrameInv, LedgerInv, Booking, Billing,
                      BookingPlaces, BillingPlaces, Answers, TurnsOf
  <2>8. f.turn \notin DeliveredTurns(s) /\ f.turn \notin Booked(s)
    <3>1. f.turn \notin DeliveredTurns(s)
      BY <1>0, <1>1, <2>7 DEF DeliveredTurns
    <3> QED
      BY <2>5, <2>7, <3>1
  <2>9. /\ DeliveredTurns(s)' = DeliveredTurns(s) \cup {f.turn} /\ Booked(s)' = Booked(s)
        /\ ChargedTurns(s)' = ChargedTurns(s) /\ ChargedTurns(s) \subseteq Booked(s)
        /\ Booking(s)' /\ Billing(s)'
    BY <1>1, <2>4 DEF DeliveredTurns, Booked, ChargedTurns, Booking, Billing, BookingPlaces,
                      BillingPlaces
  <2>10. FrameInv(s)'
    <3>1. \A g \in delivered'[s] : g.turn <= answered'[s]
      BY <1>0, <1>1, <2>4, <2>7
    <3>2. \A g, h \in delivered'[s] : g.turn = h.turn => g = h
      <4>1. \A g, h \in delivered[s] : g.turn = h.turn => g = h
        BY <1>0 DEF SessionInv, FrameInv
      <4>2. \A g \in delivered[s] : g.turn # f.turn
        BY <2>8 DEF DeliveredTurns
      <4> QED
        BY <2>4, <4>1, <4>2
    <3>3. f \in Frames(s)'
      BY <2>5 DEF Frames, TurnsOf, Names
    <3> QED
      BY <1>1, <2>4, <2>9, <3>1, <3>2, <3>3 DEF FrameInv
  <2>11. CountInv(s)'
    <3>1. turnsBilled[s] <= answered[s]
      BY <1>0 DEF SessionTypes
    <3> QED
      BY <1>0, <1>1, <2>4, <2>9, <3>1 DEF CountInv
  <2>12. LedgerInv(s)'
    <3>1. 0 \notin Booked(s)
      BY <1>0, <2>2 DEF SessionInv, LedgerInv
    <3>2. ChargedOnceEach(s)'
      BY <1>0, <2>4 DEF SessionInv, LedgerInv, ChargedOnceEach
    <3>3. \A t \in DeliveredTurns(s) : t \in Booked(s) \/ t \in unbooked[s]
      BY <1>0, <2>2, <2>7 DEF SessionInv, LedgerInv
    <3> QED
      BY <1>1, <2>4, <2>7, <2>8, <2>9, <3>1, <3>2, <3>3 DEF LedgerInv
  <2>13. AskedInv(s)'
    <3>1. Crossing(s)'
      <4>1. SUFFICES ASSUME NEW t \in (answered[s] + 2) .. Len(asked[s])
                     PROVE  t \in crossed[s]
        BY <1>0, <1>1, <2>4 DEF Crossing
      <4>2. Len(asked[s]) > answered[s] + 1 /\ t \in (answered[s] + 1) .. Len(asked[s])
        BY <1>0, <4>1
      <4> QED
        BY <1>0, <4>2 DEF SessionInv, AskedInv, Crossing
    <3>2. LastIsAsked(s)'
      <4>1. SUFFICES ASSUME NEW t \in TurnsOf(s), ToBook(s, t)'
                     PROVE  ToBook(s, t)
        BY <1>0, <1>1 DEF SessionInv, AskedInv, LastIsAsked, TurnsOf
      <4>2. t \in Nat
        BY DEF TurnsOf
      <4> QED
        BY <1>0, <1>1, <2>4, <4>1, <4>2 DEF ToBook
    <3>3. ASSUME NEW i \in DOMAIN ledger[s]
          PROVE  AsAsked(s, ledger[s][i].turn, ledger[s][i].model)'
      <4> DEFINE t == ledger[s][i].turn
                 m == ledger[s][i].model
      <4>1. AsAsked(s, t, m)
        BY <1>0 DEF SessionInv, AskedInv
      <4>2. t # f.turn
        BY <2>8 DEF Booked
      <4>3. [turn |-> t, model |-> NoModel] # f
        <5>1. [turn |-> t, model |-> NoModel].turn = t
          OBVIOUS
        <5> QED
          BY <4>2, <5>1
      <4>4. [turn |-> t, model |-> NoModel] \in delivered'[s] =>
              [turn |-> t, model |-> NoModel] \in delivered[s]
        BY <2>4, <4>3
      <4>5. AsAsked(s, t, m)'
        <5>1. t' = t /\ m' = m /\ asked' = asked /\ crossed' = crossed
          BY <1>1
        <5> HIDE DEF t, m
        <5> QED
          BY <4>1, <4>4, <5>1 DEF AsAsked
      <4> QED
        BY <4>5
    <3>4. \A i \in DOMAIN ledger'[s] : AsAsked(s, ledger[s][i].turn, ledger[s][i].model)'
      BY <2>4, <3>3
    <3> QED
      BY <2>4, <3>1, <3>2, <3>4 DEF AskedInv
  <2>14. ASSUME NEW t \in Sessions, t # s PROVE SameSession(t)
    BY <1>0, <1>1, <2>1, <2>2, <2>14 DEF SameSession, SessionMaps, PumpTypes
  <2>15. SessionInv(s)'
    BY <2>2, <2>10, <2>11, <2>12, <2>13 DEF SessionInv
  <2> QED
    BY <2>2, <2>3, <2>6, <2>14, <2>15, EachSession
<1> QED
  BY <1>2, <1>3

\* a turn that is written has an entry, or is counted among those without one
LEMMA EntryWritten ==
  ASSUME BridgeInv, NEW s \in Sessions, frame[s] \in Frames(s),
         NEW m \in Names, NEW kind \in {"charged", "pending"}, NEW written \in BOOLEAN,
         Write(s, frame[s].turn, m, kind, written)
  PROVE  \/ unbooked' = unbooked /\ frame[s].turn \in Booked(s)'
         \/ unbooked' = [unbooked EXCEPT ![s] = @ \cup {frame[s].turn}]
<1> DEFINE e == [turn |-> frame[s].turn, model |-> m, state |-> kind]
<1>1. CASE written
  <2>1. ledger' = [ledger EXCEPT ![s] = Append(@, e)] /\ unbooked' = unbooked
    BY <1>1 DEF Write, With
  <2>2. e \in Entries(s) /\ e.turn = frame[s].turn
    <3>1. frame[s].turn \in 0 .. MaxTurns[s]
      BY SessionFacts DEF Frames, TurnsOf
    <3> QED
      BY <3>1 DEF Entries
  <2> HIDE DEF e
  <2>3. Booked(s)' = Booked(s) \cup {e.turn}
    BY <2>1, <2>2, AppendsEntry
  <2> QED
    BY <2>1, <2>2, <2>3
<1>2. CASE ~ written
  <2>1. Booked(s)' = Booked(s)
    BY <1>2 DEF Write, Booked
  <2> QED
    BY <1>2, <2>1 DEF Write
<1> QED
  BY <1>1, <1>2

\* what a turn being booked is booked as
Rebook(s, m) ==
  /\ frame'[s] = [turn |-> frame[s].turn, model |-> m]
  /\ DOMAIN frame' = Sessions
  /\ \A t \in Sessions \ {s} : frame'[t] = frame[t]

\* A turn is charged, recorded or left, at once or after an entry for its tokens.
LEMMA BookStep ==
  ASSUME BridgeInv, NEW s \in Sessions, NEW to \in {"charge", "cover", "note"},
         NEW m \in Names, NEW kind \in {"charged", "pending"},
         Billing(s), server' = [server EXCEPT ![s] = to],
         UNCHANGED <<slots, handler, client, over, clientUp, upstreamUp, asked, answered,
                     crossed, lastModel, sawCreate, turnsBilled, delivered>>,
         Rebook(s, m), AsAsked(s, frame[s].turn, m),
         \/ ledger' = ledger
         \/ ledger' = With(s, frame[s].turn, m, kind) /\ (kind = "charged" => to = "note"),
         \/ unbooked' = unbooked /\ (to = "note" => frame[s].turn \in Booked(s)')
         \/ unbooked' = [unbooked EXCEPT ![s] = @ \cup {frame[s].turn}]
  PROVE  BridgeInv'
<1> DEFINE turn == frame[s].turn
           e == [turn |-> turn, model |-> m, state |-> kind]
<1>0. /\ PumpTypes /\ SessionTypes(s) /\ SessionInv(s) /\ SessionMaps
      /\ answered[s] \in Nat /\ Len(asked[s]) \in Nat /\ turnsBilled[s] \in Nat
      /\ Len(ledger[s]) \in Nat /\ DOMAIN ledger[s] = 1 .. Len(ledger[s])
      /\ MaxTurns[s] \in Nat
  BY SessionFacts
<1>1. /\ server'[s] = to /\ server[s] \in BillingPlaces
      /\ Booking(s) /\ Booking(s)' /\ server'[s] # "book" /\ (Billing(s)' <=> to # "note")
  BY <1>0 DEF PumpTypes, Billing, Booking, BillingPlaces, BookingPlaces
<1>2. /\ frame[s] \in Frames(s) /\ turn = answered[s] /\ turn \in DeliveredTurns(s)
      /\ turn \in 1 .. MaxTurns[s] /\ turn \notin ChargedTurns(s)
  BY <1>0, <1>1 DEF SessionInv, FrameInv, LedgerInv, Frames, TurnsOf
<1>3. e \in Entries(s) /\ e.turn = turn /\ e.model = m /\ e.state = kind
  BY <1>0, <1>2 DEF Entries
<1>4. /\ handler[s] \notin {"closed", "dead"} /\ client[s] # "off"
      /\ server[s] # "off"
  BY <1>0, <1>1 DEF SessionInv, PumpsRun, BillingPlaces, PumpTypes, HandlerPlaces
<1>5. /\ PumpTypes' /\ PumpsRun(s)'
  <2>1. server' \in [Sessions -> ServerPlaces]
    BY <1>0 DEF PumpTypes, ServerPlaces
  <2>2. PumpTypes'
    BY <1>0, <2>1 DEF PumpTypes, Names, HandlerPlaces, ClientPlaces
  <2> QED
    BY <1>0, <1>1, <1>4, <2>2 DEF SessionInv, PumpsRun, BillingPlaces
<1>6. SlotsInv' /\ slots' \in [Users -> Nat]
  BY SlotsKept
<1>7. \/ ledger' = ledger
      \/ /\ ledger' = [ledger EXCEPT ![s] = Append(@, e)]
         /\ kind = "charged" => to = "note"
  BY DEF With
<1> HIDE DEF e, turn
\* the entries as they are afterwards
<1>8. /\ ledger'[s] \in Seq(Entries(s)) /\ DOMAIN ledger' = Sessions
      /\ \A t \in Sessions \ {s} : ledger'[t] = ledger[t]
      /\ Booked(s) \subseteq Booked(s)' /\ Booked(s)' \subseteq Booked(s) \cup {turn}
      /\ DOMAIN ledger'[s] \subseteq 1 .. Len(ledger[s]) + 1
      /\ \A i \in 1 .. Len(ledger[s]) : ledger'[s][i] = ledger[s][i]
      /\ Len(ledger[s]) + 1 \in DOMAIN ledger'[s] =>
           /\ ledger'[s][Len(ledger[s]) + 1] = e
           /\ kind = "charged" => to = "note"
  <2>1. CASE ledger' = ledger
    <3>1. Booked(s)' = Booked(s)
      BY <2>1 DEF Booked
    <3> QED
      BY <1>0, <2>1, <3>1 DEF SessionTypes, SessionMaps
  <2>2. CASE /\ ledger' = [ledger EXCEPT ![s] = Append(@, e)]
             /\ kind = "charged" => to = "note"
    <3>1. /\ ledger'[s] \in Seq(Entries(s)) /\ DOMAIN ledger' = Sessions
          /\ DOMAIN ledger'[s] = 1 .. Len(ledger[s]) + 1
          /\ ledger'[s][Len(ledger[s]) + 1] = e
          /\ \A i \in 1 .. Len(ledger[s]) : ledger'[s][i] = ledger[s][i]
          /\ Booked(s)' = Booked(s) \cup {e.turn}
          /\ \A t \in Sessions \ {s} : ledger'[t] = ledger[t]
      BY <1>3, <2>2, AppendsEntry
    <3> QED
      BY <1>3, <2>2, <3>1
  <2> QED
    BY <1>7, <2>1, <2>2
<1>9. /\ unbooked[s] \subseteq unbooked'[s] /\ unbooked'[s] \subseteq 0 .. MaxTurns[s]
      /\ DOMAIN unbooked' = Sessions
      /\ \A t \in Sessions \ {s} : unbooked'[t] = unbooked[t]
      /\ to = "note" => turn \in Booked(s)' \/ turn \in unbooked'[s]
  <2>1. unbooked' = unbooked \/ unbooked' = [unbooked EXCEPT ![s] = @ \cup {turn}]
    BY DEF turn
  <2>2. unbooked' = unbooked /\ to = "note" => turn \in Booked(s)'
          \/ unbooked' = [unbooked EXCEPT ![s] = @ \cup {turn}]
    BY DEF turn
  <2> QED
    BY <1>0, <1>2, <2>1, <2>2 DEF SessionTypes, SessionMaps
<1>10. SessionMaps'
  BY <1>0, <1>8, <1>9 DEF SessionMaps, Rebook
<1>11. frame'[s] = [turn |-> turn, model |-> m] /\ frame'[s] \in Frames(s) /\ frame'[s].turn = turn
       /\ frame'[s].model = m
  <2>1. turn \in TurnsOf(s)
    BY <1>2 DEF TurnsOf
  <2> QED
    BY <2>1 DEF Rebook, turn, Frames
<1>12. SessionTypes(s)'
  <2>1. Frames(s)' = Frames(s) /\ Entries(s)' = Entries(s) /\ Answers(s)' = Answers(s)
        /\ Names' = Names /\ TurnsOf(s)' = TurnsOf(s)
    BY DEF Frames, TurnsOf, Names, Entries, Answers
  <2> QED
    BY <1>0, <1>8, <1>9, <1>11, <2>1 DEF SessionTypes
<1>13. DeliveredTurns(s)' = DeliveredTurns(s)
  BY DEF DeliveredTurns
<1>14. FrameInv(s)'
  <2>1. frame'[s] \in Frames(s)'
    BY <1>11 DEF Frames, TurnsOf, Names
  <2>2. \A f \in delivered[s] : f.turn <= answered[s]
    BY <1>0 DEF SessionInv, FrameInv
  <2>3. \A f, g \in delivered[s] : f.turn = g.turn => f = g
    BY <1>0 DEF SessionInv, FrameInv
  <2> QED
    BY <1>1, <1>2, <1>11, <1>13, <2>1, <2>2, <2>3 DEF FrameInv
<1>15. CountInv(s)'
  BY <1>0, <1>1 DEF SessionInv, CountInv
\* the turn, if charged, was not charged before
<1>16. ChargedOnceEach(s)'
  <2>1. SUFFICES ASSUME NEW i \in DOMAIN ledger'[s], NEW j \in DOMAIN ledger'[s],
                        ledger'[s][i].state = "charged", ledger'[s][j].state = "charged",
                        ledger'[s][i].turn = ledger'[s][j].turn
                 PROVE  i = j
    BY DEF ChargedOnceEach
  <2>2. \A k \in 1 .. Len(ledger[s]) : ledger[s][k].state = "charged" => ledger[s][k].turn # turn
    BY <1>0, <1>2 DEF ChargedTurns
  <2>3. \A k, l \in 1 .. Len(ledger[s]) :
          /\ ledger[s][k].state = "charged" /\ ledger[s][l].state = "charged"
          /\ ledger[s][k].turn = ledger[s][l].turn
          => k = l
    BY <1>0 DEF SessionInv, LedgerInv, ChargedOnceEach
  <2>4. \A k \in DOMAIN ledger'[s] : k \in 1 .. Len(ledger[s]) \/ k = Len(ledger[s]) + 1
    BY <1>0, <1>8
  <2>5. /\ i = Len(ledger[s]) + 1 => ledger'[s][i] = e
        /\ j = Len(ledger[s]) + 1 => ledger'[s][j] = e
    BY <1>8, <2>1
  <2> QED
    BY <1>3, <1>8, <2>1, <2>2, <2>3, <2>4, <2>5
<1>17. LedgerInv(s)'
  <2>1. 0 \notin Booked(s)'
    BY <1>0, <1>2, <1>4, <1>8 DEF SessionInv, LedgerInv
  <2>2. Booked(s)' \ {0} \subseteq DeliveredTurns(s)'
    BY <1>0, <1>2, <1>8, <1>13 DEF SessionInv, LedgerInv
  <2>3. to # "note" => turn \notin ChargedTurns(s)'
    <3>1. SUFFICES ASSUME to # "note", NEW i \in DOMAIN ledger'[s],
                          ledger'[s][i].state = "charged"
                   PROVE  ledger'[s][i].turn # turn
      BY DEF ChargedTurns
    <3>2. i \in 1 .. Len(ledger[s])
      <4>1. i = Len(ledger[s]) + 1 => kind # "charged" /\ ledger'[s][i] = e
        BY <1>8, <3>1
      <4> QED
        BY <1>0, <1>3, <1>8, <3>1, <4>1
    <3> QED
      BY <1>0, <1>2, <1>8, <3>1, <3>2 DEF ChargedTurns
  <2>4. \A t \in DeliveredTurns(s) :
          t \in Booked(s)' \/ t \in unbooked'[s] \/ (Billing(s)' /\ t = turn)
    <3>1. \A t \in DeliveredTurns(s) : t \in Booked(s) \/ t \in unbooked[s] \/ t = turn
      BY <1>0, <1>4 DEF SessionInv, LedgerInv, turn
    <3> QED
      BY <1>1, <1>8, <1>9, <3>1
  <2> QED
    BY <1>1, <1>11, <1>13, <1>16, <2>1, <2>2, <2>3, <2>4 DEF LedgerInv
<1>18. AskedInv(s)'
  <2>1. Crossing(s)' /\ LastIsAsked(s)'
    BY <1>0, <1>1, AskedKept
  <2>2. ASSUME NEW t, NEW model, AsAsked(s, t, model) PROVE AsAsked(s, t, model)'
    BY <2>2 DEF AsAsked
  <2>3. AsAsked(s, turn, m)
    BY DEF turn
  <2>4. server'[s] \in {"charge", "cover"} => AsAsked(s, frame[s].turn, frame[s].model)'
    BY <1>11, <2>2, <2>3 DEF AsAsked
  <2>5. ASSUME NEW i \in DOMAIN ledger'[s]
        PROVE  AsAsked(s, ledger[s][i].turn, ledger[s][i].model)'
    <3>1. CASE i \in 1 .. Len(ledger[s])
      <4>1. AsAsked(s, ledger[s][i].turn, ledger[s][i].model)
        BY <1>0, <3>1 DEF SessionInv, AskedInv
      <4> QED
        BY <1>8, <3>1, <4>1 DEF AsAsked
    <3>2. CASE i = Len(ledger[s]) + 1
      <4>1. ledger'[s][i] = e
        BY <1>8, <2>5, <3>2
      <4> QED
        BY <1>3, <2>3, <4>1 DEF AsAsked
    <3> QED
      BY <1>0, <1>8, <2>5, <3>1, <3>2
  <2> QED
    BY <2>1, <2>4, <2>5 DEF AskedInv
<1>19. ASSUME NEW t \in Sessions, t # s PROVE SameSession(t)
  BY <1>0, <1>8, <1>9, <1>19 DEF SameSession, PumpTypes, Rebook
<1>20. SessionInv(s)'
  BY <1>5, <1>14, <1>15, <1>17, <1>18 DEF SessionInv
<1> QED
  BY <1>5, <1>6, <1>10, <1>12, <1>19, <1>20, EachSession

LEMMA BookBridge ==
  ASSUME BridgeInv, NEW s \in Sessions, NEW price \in Prices, NEW written \in BOOLEAN,
         Book(s, price, written)
  PROVE  BridgeInv'
<1> DEFINE m == ModelOf(s)
           turn == frame[s].turn
           unmetered == m = NoModel \/ price = "unpriced"
           to == IF unmetered THEN "note" ELSE IF price = "positive" THEN "charge" ELSE "cover"
<1>0. /\ PumpTypes /\ SessionTypes(s) /\ SessionInv(s) /\ SessionMaps
      /\ answered[s] \in Nat
  BY SessionFacts
<1>1. /\ server[s] = "book" /\ server' = [server EXCEPT ![s] = to]
      /\ UNCHANGED <<slots, handler, client, over, clientUp, upstreamUp, asked, answered, crossed,
                     lastModel, sawCreate, turnsBilled, delivered>>
      /\ frame' = [frame EXCEPT ![s].model = m]
      /\ IF unmetered THEN Write(s, turn, m, "pending", written)
         ELSE /\ ledger' = IF price = "free" /\ written THEN With(s, turn, m, "pending") ELSE ledger
              /\ UNCHANGED unbooked
  BY DEF Book, ServerBooks, connVars, askVars, stateVars
<1>2. /\ Billing(s) /\ to \in {"charge", "cover", "note"}
      /\ frame[s] \in Frames(s) /\ frame[s] \in delivered[s] /\ turn = answered[s]
      /\ \A f, g \in delivered[s] : f.turn = g.turn => f = g
  BY <1>0, <1>1 DEF SessionInv, FrameInv, Booking, BookingPlaces, Billing, BillingPlaces
<1>3. /\ m \in Names
      /\ frame[s].model = NoModel => m = lastModel[s]
  BY <1>0, <1>2 DEF ModelOf, PumpTypes, Frames
<1>4. Rebook(s, m)
  <2>1. /\ DOMAIN frame' = Sessions /\ frame'[s] = [frame[s] EXCEPT !.model = m]
        /\ \A t \in Sessions \ {s} : frame'[t] = frame[t]
    BY <1>0, <1>1 DEF SessionMaps
  <2>2. frame'[s] = [turn |-> turn, model |-> m]
    BY <1>2, <2>1 DEF Frames
  <2> QED
    BY <2>1, <2>2 DEF Rebook
<1>5. AsAsked(s, turn, m)
  <2>1. SUFFICES ASSUME [turn |-> turn, model |-> NoModel] \in delivered[s],
                        turn \notin crossed[s], asked[s][turn] # NoModel
                 PROVE  m = asked[s][turn]
    BY DEF AsAsked
  <2>2. frame[s].model = NoModel
    BY <1>2, <2>1
  <2>3. turn \in TurnsOf(s) /\ ToBook(s, turn)
    BY <1>1, <1>2 DEF Frames, ToBook
  <2>4. LastIsAsked(s)
    BY <1>0 DEF SessionInv, AskedInv
  <2> QED
    BY <1>3, <2>1, <2>2, <2>3, <2>4 DEF LastIsAsked
<1>6. \/ ledger' = ledger
      \/ ledger' = With(s, turn, m, "pending")
  BY <1>1 DEF Write
<1>7. \/ unbooked' = unbooked /\ (to = "note" => turn \in Booked(s)')
      \/ unbooked' = [unbooked EXCEPT ![s] = @ \cup {turn}]
  <2>1. CASE ~ unmetered
    BY <1>1, <2>1
  <2>2. CASE unmetered
    <3>1. Write(s, turn, m, "pending", written)
      BY <1>1, <2>2
    <3> HIDE DEF m, turn
    <3> QED
      BY <1>0, <1>2, <1>3, <3>1, EntryWritten DEF turn
  <2> QED
    BY <2>1, <2>2
<1> HIDE DEF to, m
<1> QED
  BY <1>1, <1>2, <1>3, <1>4, <1>5, <1>6, <1>7, BookStep

LEMMA PayBridge ==
  ASSUME BridgeInv, NEW s \in Sessions, NEW kind \in {"charged", "pending"},
         NEW written \in BOOLEAN,
         Pay(s, kind, written) \/ Cover(s, kind, written)
           \/ (kind = "pending" /\ ~ written /\ CoverNothing(s))
  PROVE  BridgeInv'
<1> DEFINE m == frame[s].model
           turn == frame[s].turn
<1>0. PumpTypes /\ SessionInv(s) /\ SessionMaps
  BY SessionFacts
<1>1. /\ server[s] \in {"charge", "cover"} /\ server' = [server EXCEPT ![s] = "note"]
      /\ UNCHANGED <<slots, handler, client, over, clientUp, upstreamUp, asked, answered, crossed,
                     lastModel, sawCreate, turnsBilled, delivered, frame>>
      /\ Write(s, turn, m, kind, written)
  <2>1. CASE Pay(s, kind, written)
    BY <2>1 DEF Pay, ServerBooks, connVars, askVars, stateVars
  <2>2. CASE Cover(s, kind, written)
    BY <2>2 DEF Cover, ServerBooks, connVars, askVars, stateVars
  <2>3. CASE kind = "pending" /\ ~ written /\ CoverNothing(s)
    BY <2>3 DEF CoverNothing, ServerBooks, connVars, askVars, stateVars, Write
  <2> QED
    BY <2>1, <2>2, <2>3
<1>2. /\ Billing(s) /\ frame[s] \in Frames(s) /\ m \in Names
      /\ AsAsked(s, turn, m)
  BY <1>0, <1>1 DEF SessionInv, FrameInv, AskedInv, Booking, BookingPlaces, Billing,
                    BillingPlaces, Frames
<1>3. Rebook(s, m)
  <2>1. frame[s] = [turn |-> turn, model |-> m]
    BY <1>2 DEF Frames
  <2> QED
    BY <1>0, <1>1, <2>1 DEF Rebook, SessionMaps
<1>4. ledger' = ledger \/ ledger' = With(s, turn, m, kind)
  BY <1>1 DEF Write
<1>5. \/ unbooked' = unbooked /\ turn \in Booked(s)'
      \/ unbooked' = [unbooked EXCEPT ![s] = @ \cup {turn}]
  BY <1>1, <1>2, EntryWritten
<1> HIDE DEF m
<1> QED
  BY <1>1, <1>2, <1>3, <1>4, <1>5, BookStep

LEMMA NoteBridge ==
  ASSUME BridgeInv, NEW s \in Sessions, Note(s)
  PROVE  BridgeInv'
<1>0. /\ PumpTypes /\ SessionTypes(s) /\ SessionInv(s) /\ SessionMaps
      /\ answered[s] \in Nat /\ Len(asked[s]) \in Nat /\ turnsBilled[s] \in Nat
  BY SessionFacts
<1>1. /\ server[s] = "note" /\ server' = [server EXCEPT ![s] = "top"]
      /\ turnsBilled' = [turnsBilled EXCEPT ![s] = @ + 1]
      /\ lastModel' = [lastModel EXCEPT ![s] = IF frame[s].model = NoModel THEN @ ELSE frame[s].model]
      /\ frame' = [frame EXCEPT ![s] = NoFrame]
      /\ UNCHANGED <<slots, handler, client, over, clientUp, upstreamUp, asked, answered, crossed,
                     sawCreate, ledger, delivered, unbooked>>
  BY DEF Note, connVars, askVars
<1>2. /\ server'[s] = "top" /\ turnsBilled'[s] = turnsBilled[s] + 1 /\ frame'[s] = NoFrame
      /\ SessionMaps'
  BY <1>0, <1>1 DEF SessionMaps, PumpTypes
<1>3. /\ Booking(s) /\ ~ Booking(s)' /\ ~ Billing(s) /\ ~ Billing(s)'
      /\ frame[s] \in Frames(s)
  BY <1>0, <1>1, <1>2 DEF Booking, Billing, BookingPlaces, BillingPlaces, SessionInv, FrameInv
<1>4. PumpTypes'
  <2>1. server' \in [Sessions -> ServerPlaces]
    BY <1>0, <1>1 DEF PumpTypes, ServerPlaces
  <2>2. frame[s].model \in Names
    BY <1>3 DEF Frames
  <2>3. lastModel' \in [Sessions -> Names]
    BY <1>0, <1>1, <2>2 DEF PumpTypes
  <2> QED
    BY <1>0, <1>1, <2>1, <2>3 DEF PumpTypes, Names, HandlerPlaces, ClientPlaces
<1>5. SlotsInv' /\ slots' \in [Users -> Nat]
  BY <1>1, SlotsKept
<1>6. turnsBilled[s] + 1 <= answered[s]
  BY <1>0, <1>3 DEF SessionInv, CountInv
<1>7. SessionTypes(s)'
  <2>1. Frames(s)' = Frames(s) /\ Entries(s)' = Entries(s) /\ Answers(s)' = Answers(s)
        /\ Names' = Names /\ NoFrame' = NoFrame /\ TurnsOf(s)' = TurnsOf(s)
    BY DEF Frames, TurnsOf, Names, Entries, NoFrame, Answers
  <2>2. turnsBilled'[s] \in 0 .. answered'[s]
    BY <1>0, <1>1, <1>2, <1>6
  <2> QED
    BY <1>0, <1>1, <1>2, <2>1, <2>2 DEF SessionTypes
<1>8. PumpsRun(s)'
  BY <1>0, <1>1, <1>2 DEF SessionInv, PumpsRun
<1>9. /\ DeliveredTurns(s)' = DeliveredTurns(s) /\ Booked(s)' = Booked(s)
  BY <1>1 DEF DeliveredTurns, Booked
<1>10. FrameInv(s)'
  <2>1. /\ \A f \in delivered[s] : f.turn <= answered[s]
        /\ \A f, g \in delivered[s] : f.turn = g.turn => f = g
    BY <1>0 DEF SessionInv, FrameInv
  <2> QED
    BY <1>1, <1>2, <1>3, <2>1 DEF FrameInv, NoFrame
<1>11. CountInv(s)'
  BY <1>0, <1>1, <1>2, <1>3, <1>6 DEF CountInv
<1>12. LedgerInv(s)'
  <2>1. ChargedOnceEach(s)'
    BY <1>0, <1>1 DEF SessionInv, LedgerInv, ChargedOnceEach
  <2> QED
    BY <1>0, <1>1, <1>3, <1>9, <2>1 DEF SessionInv, LedgerInv
<1>13. AskedInv(s)'
  <2>1. \A t \in (answered[s] + 1) .. Len(asked[s]) : t \in crossed[s]
    BY <1>0, <1>3 DEF SessionInv, AskedInv, Crossing
  <2>2. Crossing(s)' /\ LastIsAsked(s)'
    BY <1>1, <1>2, <2>1 DEF Crossing, LastIsAsked, ToBook
  <2>3. \A i \in DOMAIN ledger'[s] : AsAsked(s, ledger[s][i].turn, ledger[s][i].model)'
    BY <1>0, <1>1 DEF SessionInv, AskedInv, AsAsked
  <2> QED
    BY <1>2, <2>2, <2>3 DEF AskedInv
<1>14. ASSUME NEW t \in Sessions, t # s PROVE SameSession(t)
  BY <1>0, <1>1, <1>14 DEF SameSession, SessionMaps, PumpTypes
<1>15. SessionInv(s)'
  BY <1>8, <1>10, <1>11, <1>12, <1>13 DEF SessionInv
<1> QED
  BY <1>2, <1>4, <1>5, <1>7, <1>14, <1>15, EachSession

LEMMA CloseBridge ==
  ASSUME BridgeInv, NEW s \in Sessions, NEW written \in BOOLEAN, Close(s, written)
  PROVE  BridgeInv'
<1> DEFINE e == [turn |-> 0, model |-> lastModel[s], state |-> "pending"]
<1>0. /\ PumpTypes /\ SessionTypes(s) /\ SessionInv(s) /\ SessionMaps
      /\ Len(ledger[s]) \in Nat /\ DOMAIN ledger[s] = 1 .. Len(ledger[s])
      /\ MaxTurns[s] \in Nat /\ asked[s] \in Seq(Names)
  BY SessionFacts DEF SessionTypes
<1>1. /\ handler[s] = "open" /\ handler' = [handler EXCEPT ![s] = "closed"]
      /\ client[s] = "end" /\ server[s] = "end" /\ slots' = Released(s)
      /\ clientUp' = [clientUp EXCEPT ![s] = FALSE]
      /\ upstreamUp' = [upstreamUp EXCEPT ![s] = FALSE]
      /\ UNCHANGED <<client, server, over, asked, answered, crossed, lastModel,
                     sawCreate, turnsBilled, frame, delivered>>
  BY DEF Close, HandlerGoes, ClosesClient, askVars, stateVars
<1>2. SlotsInv' /\ slots' \in [Users -> Nat]
  BY <1>1, SlotGivenBack DEF BridgeAt
<1>3. PumpTypes' /\ handler'[s] = "closed"
  <2>1. handler' \in [Sessions -> HandlerPlaces] /\ handler'[s] = "closed"
    BY <1>0, <1>1 DEF PumpTypes, HandlerPlaces
  <2>2. {over, clientUp, upstreamUp, sawCreate} \subseteq [Sessions -> BOOLEAN]
    BY <1>0 DEF PumpTypes
  <2>3. {over', clientUp', upstreamUp', sawCreate'} \subseteq [Sessions -> BOOLEAN]
    BY <1>1, <2>2
  <2> QED
    BY <1>0, <1>1, <2>1, <2>3 DEF PumpTypes, Names, ClientPlaces, ServerPlaces
<1>4. PumpsRun(s)'
  BY <1>1, <1>3 DEF PumpsRun
<1>5. ~ Booking(s) /\ ~ Booking(s)' /\ ~ Billing(s) /\ ~ Billing(s)' /\ frame[s] = NoFrame
  BY <1>0, <1>1 DEF Booking, Billing, BookingPlaces, BillingPlaces, SessionInv, FrameInv
\* the closing entry, and what it stands beside
<1>6. /\ ledger'[s] \in Seq(Entries(s)) /\ DOMAIN ledger' = Sessions
      /\ \A t \in Sessions \ {s} : ledger'[t] = ledger[t]
      /\ unbooked'[s] \subseteq 0 .. MaxTurns[s] /\ unbooked[s] \subseteq unbooked'[s]
      /\ DOMAIN unbooked' = Sessions
      /\ \A t \in Sessions \ {s} : unbooked'[t] = unbooked[t]
      /\ \/ ledger'[s] = ledger[s]
         \/ /\ delivered[s] = {} /\ Len(ledger'[s]) = 1 /\ DOMAIN ledger'[s] = {1}
            /\ ledger'[s][1] = e
  <2>1. CASE ~ Unrecorded(s) \/ ~ written
    <3>1. ledger' = ledger
      BY <2>1 DEF Close, Write
    <3>2. unbooked' = unbooked \/ unbooked' = [unbooked EXCEPT ![s] = @ \cup {0}]
      BY <2>1 DEF Close, Write
    <3>3. 0 \in 0 .. MaxTurns[s]
      BY <1>0
    <3> QED
      BY <1>0, <3>1, <3>2, <3>3 DEF SessionTypes, SessionMaps
  <2>2. CASE Unrecorded(s) /\ written
    <3>1. /\ ledger' = [ledger EXCEPT ![s] = Append(@, e)] /\ unbooked' = unbooked
          /\ turnsBilled[s] = 0
      BY <2>2 DEF Close, Unrecorded, Write, With
    <3>2. e \in Entries(s)
      BY <1>0 DEF Entries, PumpTypes
    <3> HIDE DEF e
    <3>3. delivered[s] = {} /\ ledger[s] = <<>>
      BY <1>0, <1>1, <1>5, <3>1 DEF SessionInv, CountInv
    <3>4. /\ ledger'[s] \in Seq(Entries(s)) /\ DOMAIN ledger' = Sessions
          /\ Len(ledger'[s]) = Len(ledger[s]) + 1
          /\ DOMAIN ledger'[s] = 1 .. Len(ledger[s]) + 1
          /\ ledger'[s][Len(ledger[s]) + 1] = e
          /\ \A t \in Sessions \ {s} : ledger'[t] = ledger[t]
      BY <3>1, <3>2, AppendsEntry
    <3>5. Len(ledger[s]) = 0
      BY <3>3
    <3>6. /\ Len(ledger'[s]) = 1 /\ DOMAIN ledger'[s] = {1} /\ ledger'[s][1] = e
      BY <3>4, <3>5
    <3> QED
      BY <1>0, <3>1, <3>3, <3>4, <3>6 DEF SessionTypes, SessionMaps
  <2> QED
    BY <2>1, <2>2
<1>7. e.turn = 0 /\ e.state = "pending"
  OBVIOUS
<1> HIDE DEF e
<1>8. SessionMaps'
  BY <1>0, <1>1, <1>6 DEF SessionMaps
<1>9. SessionTypes(s)'
  <2>1. Frames(s)' = Frames(s) /\ Entries(s)' = Entries(s) /\ Answers(s)' = Answers(s)
        /\ Names' = Names /\ NoFrame' = NoFrame /\ TurnsOf(s)' = TurnsOf(s)
    BY DEF Frames, TurnsOf, Names, Entries, NoFrame, Answers
  <2> QED
    BY <1>0, <1>1, <1>6, <2>1 DEF SessionTypes
<1>10. DeliveredTurns(s)' = DeliveredTurns(s)
  BY <1>1 DEF DeliveredTurns
<1>11. FrameInv(s)'
  <2>1. /\ \A f \in delivered[s] : f.turn <= answered[s]
        /\ \A f, g \in delivered[s] : f.turn = g.turn => f = g
    BY <1>0 DEF SessionInv, FrameInv
  <2> QED
    BY <1>1, <1>5, <2>1 DEF FrameInv, NoFrame
<1>12. CountInv(s)'
  BY <1>0, <1>1, <1>3, <1>5 DEF SessionInv, CountInv
<1>13. LedgerInv(s)'
  <2>1. CASE ledger'[s] = ledger[s]
    <3>1. Booked(s)' = Booked(s)
      BY <2>1 DEF Booked
    <3>2. ChargedOnceEach(s)'
      BY <1>0, <2>1 DEF SessionInv, LedgerInv, ChargedOnceEach
    <3>3. 0 \notin Booked(s)
      BY <1>0, <1>1 DEF SessionInv, LedgerInv
    <3>4. \A t \in DeliveredTurns(s) : t \in Booked(s) \/ t \in unbooked[s]
      BY <1>0, <1>1, <1>5 DEF SessionInv, LedgerInv
    <3>5. Booked(s) \ {0} \subseteq DeliveredTurns(s)
      BY <1>0 DEF SessionInv, LedgerInv
    <3> QED
      BY <1>5, <1>6, <1>10, <3>1, <3>2, <3>3, <3>4, <3>5 DEF LedgerInv
  <2>2. CASE /\ delivered[s] = {} /\ Len(ledger'[s]) = 1 /\ DOMAIN ledger'[s] = {1}
             /\ ledger'[s][1] = e
    <3>1. Booked(s)' = {0} /\ DeliveredTurns(s)' = {} /\ delivered'[s] = {}
      BY <1>1, <1>7, <2>2 DEF Booked, DeliveredTurns
    <3>2. ChargedOnceEach(s)'
      BY <2>2 DEF ChargedOnceEach
    <3> QED
      BY <1>3, <1>5, <2>2, <3>1, <3>2 DEF LedgerInv
  <2> QED
    BY <1>6, <2>1, <2>2
<1>14. AskedInv(s)'
  <2>1. Crossing(s)' /\ LastIsAsked(s)'
    BY <1>0, <1>1, <1>5, AskedKept, SessionFacts
  <2>2. \A i \in DOMAIN ledger'[s] : AsAsked(s, ledger[s][i].turn, ledger[s][i].model)'
    <3>1. CASE ledger'[s] = ledger[s]
      BY <1>0, <1>1, <3>1 DEF SessionInv, AskedInv, AsAsked
    <3>2. CASE DOMAIN ledger'[s] = {1} /\ ledger'[s][1] = e
      BY <1>7, <3>2 DEF AsAsked
    <3> QED
      BY <1>6, <3>1, <3>2
  <2> QED
    BY <1>1, <2>1, <2>2 DEF AskedInv
<1>15. ASSUME NEW t \in Sessions, t # s PROVE SameSession(t)
  BY <1>0, <1>1, <1>6, <1>15 DEF SameSession, PumpTypes
<1>16. SessionInv(s)'
  BY <1>4, <1>11, <1>12, <1>13, <1>14 DEF SessionInv
<1> QED
  BY <1>2, <1>3, <1>8, <1>9, <1>15, <1>16, EachSession

\* The process dies: its sessions and slots are gone, and what they booked stays.
LEMMA DeathBridge ==
  ASSUME BridgeInv, ProcessDies
  PROVE  BridgeInv'
<1> DEFINE gone(f, x) == [s \in Sessions |-> IF Alive(s) THEN x ELSE f[s]]
<1>0. PumpTypes /\ SessionMaps
  BY BridgeTypes DEF BridgeInv
<1>1. /\ slots' = [u \in Users |-> 0]
      /\ handler' = gone(handler, "dead") /\ client' = gone(client, "off")
      /\ server' = gone(server, "off") /\ over' = gone(over, TRUE)
      /\ clientUp' = gone(clientUp, FALSE) /\ upstreamUp' = gone(upstreamUp, FALSE)
      /\ frame' = gone(frame, NoFrame)
      /\ UNCHANGED <<asked, answered, crossed, lastModel, sawCreate, turnsBilled, ledger,
                     delivered, unbooked>>
  BY DEF ProcessDies, askVars, stateVars
<1>2. PumpTypes'
  <2>1. /\ handler' \in [Sessions -> HandlerPlaces] /\ client' \in [Sessions -> ClientPlaces]
        /\ server' \in [Sessions -> ServerPlaces]
    BY <1>0, <1>1 DEF PumpTypes, HandlerPlaces, ClientPlaces, ServerPlaces
  <2>2. {over', clientUp', upstreamUp', sawCreate'} \subseteq [Sessions -> BOOLEAN]
    <3>1. {over, clientUp, upstreamUp, sawCreate} \subseteq [Sessions -> BOOLEAN]
      BY <1>0 DEF PumpTypes
    <3>2. /\ over' \in [Sessions -> BOOLEAN] /\ clientUp' \in [Sessions -> BOOLEAN]
          /\ upstreamUp' \in [Sessions -> BOOLEAN]
      BY <1>1, <3>1
    <3> QED
      BY <1>1, <3>1, <3>2
  <2> QED
    BY <1>0, <1>1, <2>1, <2>2 DEF PumpTypes, Names
<1>3. SessionMaps'
  BY <1>0, <1>1 DEF SessionMaps
<1>4. SlotsInv' /\ slots' \in [Users -> Nat]
  <2>1. \A u \in Users : Bridges(u)' = {}
    BY <1>1 DEF Bridges, Alive
  <2>2. slots' \in [Users -> Nat] /\ \A u \in Users : slots'[u] = 0
    BY <1>1
  <2> QED
    BY <2>1, <2>2, FS_EmptySet, BridgeAssumption DEF SlotsInv
<1>5. ASSUME NEW t \in Sessions
      PROVE  SameSession(t) \/ (SessionTypes(t)' /\ SessionInv(t)')
  <2>1. CASE ~ Alive(t)
    BY <1>1, <2>1 DEF SameSession
  <2>2. CASE Alive(t)
    <3>0. /\ SessionTypes(t) /\ SessionInv(t) /\ handler[t] # "closed"
          /\ answered[t] \in Nat /\ turnsBilled[t] \in Nat
      BY <2>2, SessionFacts DEF Alive
    <3>1. /\ handler'[t] = "dead" /\ client'[t] = "off" /\ server'[t] = "off"
          /\ frame'[t] = NoFrame
      BY <1>1, <2>2
    <3>2. ~ Booking(t)' /\ ~ Billing(t)'
      BY <3>1 DEF Booking, Billing, BookingPlaces, BillingPlaces
    <3>3. SessionTypes(t)'
      <4>1. Frames(t)' = Frames(t) /\ Entries(t)' = Entries(t) /\ Answers(t)' = Answers(t)
            /\ Names' = Names /\ NoFrame' = NoFrame /\ TurnsOf(t)' = TurnsOf(t)
        BY DEF Frames, TurnsOf, Names, Entries, NoFrame, Answers
      <4> QED
        BY <1>1, <3>0, <3>1, <4>1 DEF SessionTypes
    <3>4. Booked(t)' = Booked(t) /\ DeliveredTurns(t)' = DeliveredTurns(t)
      BY <1>1 DEF Booked, DeliveredTurns
    <3>5. PumpsRun(t)'
      BY <3>1 DEF PumpsRun
    <3>6. FrameInv(t)'
      <4>1. /\ \A f \in delivered[t] : f.turn <= answered[t]
            /\ \A f, g \in delivered[t] : f.turn = g.turn => f = g
        BY <3>0 DEF SessionInv, FrameInv
      <4> QED
        BY <1>1, <3>1, <3>2, <4>1 DEF FrameInv, NoFrame
    <3>7. CountInv(t)'
      <4>1. turnsBilled[t] <= answered[t]
        BY <3>0 DEF SessionTypes
      <4>2. turnsBilled'[t] = turnsBilled[t] /\ answered'[t] = answered[t]
        BY <1>1
      <4> QED
        BY <3>0, <3>1, <3>2, <4>1, <4>2 DEF CountInv
    <3>8. LedgerInv(t)'
      <4>1. ChargedOnceEach(t)' /\ 0 \notin Booked(t)
        BY <1>1, <3>0 DEF SessionInv, LedgerInv, ChargedOnceEach
      <4> QED
        BY <3>0, <3>1, <3>2, <3>4, <4>1 DEF SessionInv, LedgerInv
    <3>9. AskedInv(t)'
      <4>1. Crossing(t)' /\ LastIsAsked(t)'
        BY <1>1, <3>0, <3>1, <3>2 DEF SessionInv, AskedInv, Crossing, LastIsAsked, ToBook, TurnsOf
      <4>2. \A i \in DOMAIN ledger'[t] : AsAsked(t, ledger[t][i].turn, ledger[t][i].model)'
        BY <1>1, <3>0 DEF SessionInv, AskedInv, AsAsked
      <4> QED
        BY <3>1, <4>1, <4>2 DEF AskedInv
    <3> QED
      BY <3>3, <3>5, <3>6, <3>7, <3>8, <3>9 DEF SessionInv
  <2> QED
    BY <2>1, <2>2
<1> QED
  BY <1>2, <1>3, <1>4, <1>5, EachSession

-----------------------------------------------------------------------------
(* The theorems about the bridge.                                          *)

LEMMA InitBridgeInv == BridgeInit => BridgeInv
<1> SUFFICES ASSUME BridgeInit
             PROVE  BridgeInv
  OBVIOUS
<1>1. /\ SessionMaps /\ PumpTypes /\ slots \in [Users -> Nat]
  BY DEF BridgeInit, SessionMaps, PumpTypes, Names, HandlerPlaces, ClientPlaces, ServerPlaces
<1>2. ASSUME NEW s \in Sessions
      PROVE  SessionTypes(s) /\ SessionInv(s)
  <2>1. /\ handler[s] = "new" /\ client[s] = "off" /\ server[s] = "off" /\ asked[s] = <<>>
        /\ answered[s] = 0 /\ frame[s] = NoFrame /\ turnsBilled[s] = 0
        /\ ledger[s] = <<>> /\ delivered[s] = {} /\ crossed[s] = {} /\ unbooked[s] = {}
        /\ MaxTurns[s] \in Nat
    BY BridgeAssumption DEF BridgeInit
  <2>2. SessionTypes(s)
    BY <2>1 DEF SessionTypes
  <2>3. /\ Booked(s) = {} /\ DeliveredTurns(s) = {} /\ ~ Booking(s) /\ ~ Billing(s)
        /\ Len(asked[s]) = 0
    BY <2>1 DEF Booked, DeliveredTurns, Booking, Billing, BookingPlaces, BillingPlaces
  <2>4. PumpsRun(s)
    BY <2>1 DEF PumpsRun
  <2>5. FrameInv(s)
    BY <2>1, <2>3 DEF FrameInv
  <2>6. CountInv(s)
    BY <2>1, <2>3 DEF CountInv
  <2>7. LedgerInv(s)
    BY <2>1, <2>3 DEF LedgerInv, ChargedOnceEach
  <2>8. AskedInv(s)
    BY <2>1, <2>3 DEF AskedInv, Crossing, LastIsAsked, ToBook
  <2> QED
    BY <2>2, <2>4, <2>5, <2>6, <2>7, <2>8 DEF SessionInv
<1>3. SlotsInv
  <2>1. \A u \in Users : Bridges(u) = {}
    BY DEF BridgeInit, Bridges
  <2>2. \A u \in Users : slots[u] = 0
    BY DEF BridgeInit
  <2> QED
    BY <2>1, <2>2, FS_EmptySet, BridgeAssumption DEF SlotsInv
<1>4. BridgeTypeOK
  BY <1>1, <1>2, BridgeTypes
<1> QED
  BY <1>1, <1>2, <1>3, <1>4 DEF BridgeInv

LEMMA NextBridgeInv == BridgeInv /\ [BridgeNext]_bridgeVars => BridgeInv'
<1> SUFFICES ASSUME BridgeInv, [BridgeNext]_bridgeVars
             PROVE  BridgeInv'
  OBVIOUS
<1>1. CASE UNCHANGED bridgeVars
  <2>1. UNCHANGED <<slots, handler, client, server, over, clientUp, upstreamUp, asked, answered,
                    crossed, lastModel, sawCreate, turnsBilled, frame, ledger, delivered, unbooked>>
    BY <1>1 DEF bridgeVars, connVars, askVars, stateVars, bookVars
  <2>2. PumpTypes' /\ SessionMaps'
    BY <2>1, BridgeTypes DEF BridgeInv, PumpTypes, SessionMaps, Names, HandlerPlaces,
                             ClientPlaces, ServerPlaces
  <2>3. SlotsInv' /\ slots' \in [Users -> Nat]
    BY <2>1, SlotsKept
  <2>4. \A t \in Sessions : SameSession(t)
    BY <2>1 DEF SameSession
  <2> QED
    BY <2>2, <2>3, <2>4, EachSession
<1>2. ASSUME NEW s \in Sessions,
             \/ Handshake(s) \/ HandleSession(s)
             \/ ClientTop(s) \/ ClientFrame(s) \/ ClientTooFast(s) \/ ClientEnds(s)
             \/ \E model \in AskModels \cup {NoModel} : Create(s, model)
             \/ PumpServer(s) \/ ServerFrame(s)
             \/ \E f \in Answers(s) : Complete(s, f)
             \/ HourEnds(s) \/ ClientLeaves(s) \/ UpstreamLeaves(s)
      PROVE  BridgeInv'
  <2>1. CASE Handshake(s) \/ HandleSession(s)
    BY <2>1, HandlerBridge, CloseBridge DEF HandleSession
  <2>2. CASE ClientTop(s) \/ ClientFrame(s) \/ ClientTooFast(s) \/ ClientEnds(s)
    BY <2>2, ClientBridge
  <2>3. CASE \E model \in AskModels \cup {NoModel} : Create(s, model)
    BY <2>3, CreateBridge
  <2>4. CASE ServerTop(s) \/ ServerFrame(s) \/ ServerEnds(s) \/ Note(s)
    BY <2>4, ReadBridge, NoteBridge
  <2>5. CASE Settle(s) \/ CoverNothing(s)
    <3>1. CASE CoverNothing(s)
      BY <3>1, PayBridge
    <3>2. CASE Settle(s)
      <4>1. PICK written \in BOOLEAN :
              \/ \E price \in Prices : Book(s, price, written)
              \/ \E kind \in {"charged", "pending"} :
                   Pay(s, kind, written) \/ Cover(s, kind, written)
        BY <3>2 DEF Settle
      <4> QED
        BY <4>1, BookBridge, PayBridge
    <3> QED
      BY <2>5, <3>1, <3>2
  <2>6. CASE \E f \in Answers(s) : Complete(s, f)
    BY <2>6, CompleteBridge
  <2>7. CASE HourEnds(s) \/ ClientLeaves(s) \/ UpstreamLeaves(s)
    BY <2>7, ConnectionBridge
  <2> QED
    BY <1>2, <2>1, <2>2, <2>3, <2>4, <2>5, <2>6, <2>7 DEF PumpServer
<1>3. CASE BridgeNext
  <2>1. CASE ProcessDies
    BY <2>1, DeathBridge
  <2> QED
    BY <1>2, <1>3, <2>1 DEF BridgeNext
<1> QED
  BY <1>1, <1>3

LEMMA BridgeSafe ==
  BridgeInv => BridgeTypeOK /\ SlotsAreBridges /\ DeliveredIsBooked /\ FallbackIsAsked
<1> SUFFICES ASSUME BridgeInv
             PROVE  BridgeTypeOK /\ SlotsAreBridges /\ DeliveredIsBooked /\ FallbackIsAsked
  OBVIOUS
<1>1. SlotsAreBridges
  <2>1. SlotsInv
    BY DEF BridgeInv
  <2> QED
    BY <2>1 DEF SlotsInv, SlotsAreBridges
<1>2. DeliveredIsBooked
  <2>1. ASSUME NEW s \in Sessions
        PROVE  /\ Booked(s) \ {0} \subseteq DeliveredTurns(s)
               /\ ChargedOnceEach(s)
               /\ 0 \in Booked(s) => Len(ledger[s]) = 1 /\ delivered[s] = {}
               /\ handler[s] = "closed" => DeliveredTurns(s) \subseteq Booked(s) \cup unbooked[s]
    <3>1. PumpsRun(s) /\ LedgerInv(s)
      BY SessionFacts DEF SessionInv
    <3>2. handler[s] = "closed" => ~ Billing(s)
      BY <3>1 DEF PumpsRun, Billing, BillingPlaces
    <3> QED
      BY <3>1, <3>2 DEF LedgerInv
  <2> QED
    BY <2>1 DEF DeliveredIsBooked, ChargedOnceEach
<1>3. FallbackIsAsked
  <2>1. ASSUME NEW s \in Sessions, NEW i \in DOMAIN ledger[s]
        PROVE  AsAsked(s, ledger[s][i].turn, ledger[s][i].model)
    BY SessionFacts DEF SessionInv, AskedInv
  <2> QED
    BY <2>1 DEF FallbackIsAsked, AsAsked
<1>4. BridgeTypeOK
  BY DEF BridgeInv
<1> QED
  BY <1>1, <1>2, <1>3, <1>4

\* The handler and the pumps keep their state typed, and no more turns are
\* noted than the upstream has ended.
THEOREM BridgeTypeCorrect == BridgeSpec => []BridgeTypeOK
<1> QED
  BY InitBridgeInv, NextBridgeInv, BridgeSafe, PTL DEF BridgeSpec

\* wsUserConnCount is the number of a user's bridges and stays within the limit,
\* for any number of sessions and however many handshakes passed at once.
THEOREM SlotsAreBridgesHolds == BridgeSpec => []SlotsAreBridges
<1> QED
  BY InitBridgeInv, NextBridgeInv, BridgeSafe, PTL DEF BridgeSpec

\* When a session is over, every answer its client was given has an entry, or had
\* nothing to bill or lost its entry to a fault, and none is charged twice.
THEOREM DeliveredIsBookedHolds == BridgeSpec => []DeliveredIsBooked
<1> QED
  BY InitBridgeInv, NextBridgeInv, BridgeSafe, PTL DEF BridgeSpec

\* A turn for which the upstream names no model is booked by the model that the
\* client asked for in that turn, unless a request and an answer crossed.
THEOREM FallbackIsAskedHolds == BridgeSpec => []FallbackIsAsked
<1> QED
  BY InitBridgeInv, NextBridgeInv, BridgeSafe, PTL DEF BridgeSpec
-----------------------------------------------------------------------------
(***************************************************************************)
(* The import of the usage queue: UsageSync, for any turns, syncs, admins, *)
(* rates and bounds.                                                       *)
(***************************************************************************)
\* one works, under a lock that has not expired
OneWorks ==
  ~ lapsed => /\ \A s, z \in Working : s = z
              /\ Working # {} => lock.live

\* a record with an ID has its row, or is a phantom
HasRow(t) == status[t] = "pending" \/ (status[t] = None /\ t \in phantom)

StoredOrFailed(s, t) == IF t \in ids[s] THEN HasRow(t) ELSE t \in befallen

\* what a sync has in hand, by its stage
StageInv(s) ==
  /\ stage[s] \in {"idle", "fetch", "release"} => batch[s] = {} /\ left[s] = {}
  /\ stage[s] \in {"idle", "fetch", "release", "batch", "match"} => ids[s] = {}
  /\ stage[s] = "match" => batch[s] = {} /\ \A t \in left[s] : HasRow(t)
  /\ stage[s] \in {"batch", "keys"} => left[s] = batch[s]
  /\ stage[s] \in {"batch", "rows"} => \A t \in left[s] : status[t] = None
  /\ stage[s] = "rows" => /\ left[s] \subseteq batch[s]
                       /\ \A t \in batch[s] \ left[s] : StoredOrFailed(s, t)
  /\ stage[s] = "keys" => \A t \in batch[s] : StoredOrFailed(s, t)

\* a record that is in the queue or in a sync's hands
Unsettled(t) == t \in queue \/ \E s \in Syncs : t \in InHand(s)

\* each record is popped once, and until it is looked at nothing is attributed to it
HandsApart ==
  /\ \A s \in Syncs : InHand(s) \cap queue = {}
  /\ \A s, z \in Syncs : s # z => InHand(s) \cap InHand(z) = {}
  /\ \A t \in queue : status[t] = None
  /\ \A t \in Turns : Unsettled(t) => \A l \in Turns : attributed[l] # t

AgreeInv ==
  /\ \A t \in Turns : status[t] = "matched" =>
       matchedLog[t] \in Turns /\ attributed[matchedLog[t]] = t
  /\ \A l \in Turns : attributed[l] \notin phantom \cup {None} =>
       /\ status[attributed[l]] = "matched" /\ matchedLog[attributed[l]] = l
       /\ used[attributed[l]] # Other

\* an entry whose estimate an edit renews, and which has been computed
Costly(l) == OfAccount(l) /\ l \notin unpriced

\* Without overlap or failure the one edit that is under way has the rate of
\* the account, and what it has not read needs no new estimate.
EstimatesInv ==
  ~ disturbed =>
    /\ \A a, b \in Admins : EditOpen(a) /\ EditOpen(b) => a = b
    /\ rate > 0 /\ (\A a \in Admins : ~ EditOpen(a)) =>
         \A l \in Turns : Costly(l) => estimate[l] = rate
    /\ \A a \in Admins :
         /\ edit[a].at \in {"read", "write"} => edit[a].rate = rate /\ rate > 0
         /\ edit[a].at = "write" =>
              \A l \in Turns \ edit[a].rows : Costly(l) => estimate[l] = rate

UsageMaps ==
  /\ estimate \in [Turns -> Rates \cup {0}]
  /\ batch \in [Syncs -> SUBSET Turns] /\ left \in [Syncs -> SUBSET Turns]
  /\ ids \in [Syncs -> SUBSET Turns]

UsageInv ==
  /\ UsageTypeOK
  /\ UsageMaps
  /\ OneWorks
  /\ \A s \in Syncs : StageInv(s)
  /\ HandsApart
  /\ EachFailsAlone
  /\ AgreeInv
  /\ EstimatesInv

-----------------------------------------------------------------------------
(* Types, by the groups of variables that steps leave alone.               *)

TurnTypes == used \in Uses /\ queue \subseteq Turns /\ logged \subseteq Turns

RowTypes ==
  /\ status \in [Turns -> {None, "pending", "matched", "unmatched", "ignored"}]
  /\ matchedLog \in [Turns -> Turns \cup {None}]
  /\ attributed \in [Turns -> Turns \cup {None}]
  /\ estimate \in [Turns -> Rates \cup {0}]
  /\ unpriced \subseteq Turns

Stages == {"idle", "fetch", "batch", "rows", "keys", "match", "release"}

SyncTypes ==
  /\ proc \in [Syncs -> Nat]
  /\ stage \in [Syncs -> Stages]
  /\ batch \in [Syncs -> SUBSET Turns] /\ left \in [Syncs -> SUBSET Turns]
  /\ ids \in [Syncs -> SUBSET Turns]
  /\ \A s \in Syncs : ids[s] \subseteq batch[s]
  /\ keepsAlive \in [Syncs -> BOOLEAN]

EditTypes ==
  /\ rate \in Rates \cup {0}
  /\ edit \in [Admins -> [at : {"none", "refetch", "read", "write"},
                          rate : Rates \cup {0}, rows : SUBSET Turns]]
  /\ disturbed \in BOOLEAN
  /\ edits \in 0 .. MaxEdits

RestTypes ==
  /\ lock \in [owner : Nat, live : BOOLEAN]
  /\ phantom \subseteq befallen /\ befallen \subseteq Turns
  /\ lapsed \in BOOLEAN
  /\ faults \in 0 .. MaxFaults

LEMMA UsageTypes ==
  UsageTypeOK /\ UsageMaps <=> TurnTypes /\ RowTypes /\ SyncTypes /\ EditTypes /\ RestTypes
<1>1. UsageTypeOK /\ UsageMaps => TurnTypes /\ RowTypes /\ SyncTypes /\ EditTypes /\ RestTypes
  BY DEF UsageTypeOK, UsageMaps, TurnTypes, RowTypes, SyncTypes, EditTypes, RestTypes, Stages
<1>2. ASSUME TurnTypes, RowTypes, SyncTypes, EditTypes, RestTypes
      PROVE  UsageTypeOK /\ UsageMaps
  <2>1. UsageMaps
    BY <1>2 DEF UsageMaps, RowTypes, SyncTypes
  <2>2. {rate} \cup {estimate[t] : t \in Turns} \subseteq Rates \cup {0}
    BY <1>2 DEF RowTypes, EditTypes
  <2>3. \A s \in Syncs : ids[s] \subseteq batch[s] /\ InHand(s) \subseteq Turns
    BY <1>2 DEF SyncTypes, InHand
  <2> QED
    BY <1>2, <2>1, <2>2, <2>3
       DEF UsageTypeOK, TurnTypes, RowTypes, SyncTypes, EditTypes, RestTypes, Stages
<1> QED
  BY <1>1, <1>2

LEMMA UsageFacts ==
  ASSUME UsageInv
  PROVE  /\ TurnTypes /\ RowTypes /\ SyncTypes /\ EditTypes /\ RestTypes
         /\ OneWorks /\ (\A s \in Syncs : StageInv(s)) /\ HandsApart
         /\ EachFailsAlone /\ AgreeInv /\ EstimatesInv
         /\ MaxFaults \in Nat /\ MaxEdits \in Nat
         /\ None \notin Turns \cup {"pending", "matched", "unmatched", "ignored"}
         /\ Rates \subseteq Nat \ {0}
<1>1. TurnTypes /\ RowTypes /\ SyncTypes /\ EditTypes /\ RestTypes
  BY UsageTypes DEF UsageInv
<1>2. /\ OneWorks /\ (\A s \in Syncs : StageInv(s)) /\ HandsApart
      /\ EachFailsAlone /\ AgreeInv /\ EstimatesInv
  BY DEF UsageInv
<1>3. /\ MaxFaults \in Nat /\ MaxEdits \in Nat
         /\ None \notin Turns \cup {"pending", "matched", "unmatched", "ignored"}
      /\ Rates \subseteq Nat \ {0}
  BY UsageAssumption
<1> QED
  BY <1>1, <1>2, <1>3

LEMMA UsageInvFrom ==
  ASSUME UsageInv,
         TurnTypes', RowTypes', SyncTypes', EditTypes', RestTypes',
         OneWorks', \A s \in Syncs : StageInv(s)', HandsApart', EachFailsAlone',
         AgreeInv', EstimatesInv'
  PROVE  UsageInv'
<1>1. UsageTypeOK' /\ UsageMaps'
  BY UsageTypes, PTL
<1> QED
  BY <1>1 DEF UsageInv

-----------------------------------------------------------------------------
(* What a step keeps by leaving variables alone.                           *)

Settled(t) == status[t] \in {"matched", "unmatched", "ignored"}

\* A sync does something to its records: to their rows, and to what they are
\* attributed to when it is done with them.
LEMMA RecordStep ==
  ASSUME UsageInv, NEW s \in Syncs,
         queue' \subseteq queue, befallen \subseteq befallen', phantom \subseteq phantom',
         \A z \in Syncs \ {s} : /\ stage'[z] = stage[z] /\ batch'[z] = batch[z]
                                /\ left'[z] = left[z] /\ ids'[z] = ids[z],
         StageInv(s)',
         InHand(s)' \subseteq InHand(s) \cup (queue \ queue'),
         \A t \in Turns : status'[t] = status[t] \/ t \in InHand(s),
         \A t \in Turns \ befallen' :
           t \in InHand(s) \cup (queue \ queue') => t \in InHand(s)' \/ Settled(t)',
         \A l \in Turns : \/ attributed'[l] = attributed[l]
                          \/ attributed'[l] \in InHand(s) \ InHand(s)'
  PROVE  (\A z \in Syncs : StageInv(z)') /\ HandsApart' /\ EachFailsAlone'
<1>0. /\ TurnTypes /\ SyncTypes /\ RestTypes /\ HandsApart /\ EachFailsAlone
      /\ \A z \in Syncs : StageInv(z)
  BY UsageFacts
<1>1. \A z \in Syncs : InHand(z) \subseteq Turns
  BY <1>0 DEF SyncTypes, InHand
<1>2. \A z \in Syncs \ {s} : InHand(z)' = InHand(z)
  BY DEF InHand
<1>3. \A z \in Syncs \ {s} : \A t \in InHand(z) : t \notin InHand(s) /\ t \notin queue
  BY <1>0 DEF HandsApart
<1>4. ASSUME NEW z \in Syncs
      PROVE  StageInv(z)'
  <2>1. CASE z = s
    BY <2>1
  <2>2. CASE z # s
    <3>1. \A t \in batch[z] \cup left[z] : status'[t] = status[t]
      BY <1>1, <1>3, <2>2 DEF InHand
    <3>2. \A t \in batch[z] \cup left[z] : HasRow(t) => HasRow(t)'
      BY <3>1 DEF HasRow
    <3>3. ids'[z] = ids[z] /\ batch'[z] = batch[z] /\ left'[z] = left[z] /\ stage'[z] = stage[z]
      BY <2>2
    <3>4. \A t \in batch[z] : StoredOrFailed(z, t) => StoredOrFailed(z, t)'
      BY <3>2, <3>3 DEF StoredOrFailed
    <3> QED
      BY <1>0, <3>1, <3>2, <3>3, <3>4 DEF StageInv
  <2> QED
    BY <2>1, <2>2
<1>5. HandsApart'
  <2>1. ASSUME NEW z \in Syncs PROVE InHand(z)' \cap queue' = {}
    <3>1. CASE z = s
      BY <1>0, <3>1 DEF HandsApart
    <3>2. CASE z # s
      BY <1>2, <1>3, <3>2
    <3> QED
      BY <3>1, <3>2
  <2>2. ASSUME NEW y \in Syncs, NEW z \in Syncs, y # z
        PROVE  InHand(y)' \cap InHand(z)' = {}
    BY <1>0, <1>2, <1>3, <2>2 DEF HandsApart
  <2>3. \A t \in queue' : status'[t] = None
    BY <1>0 DEF HandsApart, TurnTypes
  <2>4. ASSUME NEW t \in Turns, Unsettled(t)', NEW l \in Turns
        PROVE  attributed'[l] # t
    <3>1. Unsettled(t)
      BY <1>2, <2>4 DEF Unsettled
    <3>2. attributed[l] # t
      BY <1>0, <3>1 DEF HandsApart
    <3>3. CASE attributed'[l] = attributed[l]
      BY <3>2, <3>3
    <3>4. CASE attributed'[l] \in InHand(s) \ InHand(s)'
      <4>1. t \in queue \/ t \in InHand(s)' \/ \E z \in Syncs \ {s} : t \in InHand(z)
        BY <1>2, <2>4 DEF Unsettled
      <4> QED
        BY <1>0, <1>3, <3>4, <4>1 DEF HandsApart
    <3> QED
      BY <3>3, <3>4
  <2> QED
    BY <2>1, <2>2, <2>3, <2>4 DEF HandsApart
<1>6. EachFailsAlone'
  <2>1. SUFFICES ASSUME NEW t \in Turns, t \notin queue', t \notin befallen'
                 PROVE  (\E z \in Syncs : t \in InHand(z)') \/ Settled(t)'
    BY DEF EachFailsAlone, Popped, Settled
  <2>2. CASE t \in InHand(s) \cup (queue \ queue')
    BY <2>1, <2>2
  <2>3. CASE t \notin InHand(s) \cup (queue \ queue')
    <3>1. status'[t] = status[t] /\ t \notin queue /\ t \notin befallen
      BY <2>1, <2>3
    <3>2. (\E z \in Syncs : t \in InHand(z)) \/ Settled(t)
      BY <1>0, <3>1 DEF EachFailsAlone, Popped, Settled
    <3> QED
      BY <1>2, <2>3, <3>1, <3>2 DEF Settled
  <2> QED
    BY <2>2, <2>3
<1> QED
  BY <1>4, <1>5, <1>6

\* a step that changes nothing of the records
LEMMA RecordsKept ==
  ASSUME UsageInv,
         UNCHANGED <<queue, status, attributed, stage, batch, left, ids, befallen, phantom>>
  PROVE  (\A z \in Syncs : StageInv(z)') /\ HandsApart' /\ EachFailsAlone'
<1>1. HandsApart /\ EachFailsAlone /\ (\A z \in Syncs : StageInv(z)) /\ TurnTypes
  BY UsageFacts
<1>2. \A z \in Syncs : InHand(z)' = InHand(z)
  BY DEF InHand
<1>3. \A z \in Syncs : StageInv(z)'
  BY <1>1 DEF StageInv, StoredOrFailed, HasRow
<1>4. \A t \in Turns : Unsettled(t)' <=> Unsettled(t)
  BY <1>2 DEF Unsettled
<1>5. HandsApart'
  BY <1>1, <1>2, <1>4 DEF HandsApart
<1>6. EachFailsAlone'
  BY <1>1, <1>2 DEF EachFailsAlone, Popped
<1> QED
  BY <1>3, <1>5, <1>6

\* a step that attributes nothing and matches none
LEMMA AgreeKept ==
  ASSUME UsageInv, attributed' = attributed, matchedLog' = matchedLog, used' = used,
         phantom \subseteq phantom',
         \A t \in Turns : \/ status'[t] = status[t]
                          \/ Unsettled(t) /\ status'[t] # "matched"
  PROVE  AgreeInv'
<1>0. RowTypes /\ HandsApart /\ AgreeInv
  BY UsageFacts
<1>1. ASSUME NEW t \in Turns, status'[t] = "matched"
      PROVE  matchedLog'[t] \in Turns /\ attributed'[matchedLog'[t]] = t
  BY <1>0, <1>1 DEF AgreeInv
<1>2. ASSUME NEW l \in Turns, attributed'[l] \notin phantom' \cup {None}
      PROVE  /\ status'[attributed'[l]] = "matched" /\ matchedLog'[attributed'[l]] = l
             /\ used'[attributed'[l]] # Other
  <2>1. attributed[l] \in Turns
    BY <1>0, <1>2 DEF RowTypes
  <2>2. ~ Unsettled(attributed[l])
    BY <1>0, <2>1 DEF HandsApart
  <2> QED
    BY <1>0, <1>2, <2>1, <2>2 DEF AgreeInv
<1> QED
  BY <1>1, <1>2 DEF AgreeInv

LEMMA EstimatesKept ==
  ASSUME UsageInv, UNCHANGED <<used, attributed, estimate, unpriced, rate, edit, disturbed>>
  PROVE  EstimatesInv'
<1>1. EstimatesInv
  BY UsageFacts
<1>2. /\ \A a \in Admins : EditOpen(a)' <=> EditOpen(a)
      /\ \A l \in Turns : Costly(l)' <=> Costly(l)
  BY DEF EditOpen, Costly, OfAccount
<1> QED
  BY <1>1, <1>2 DEF EstimatesInv

LEMMA OneWorksKept ==
  ASSUME UsageInv, UNCHANGED <<lock, lapsed>>,
         \A z \in Syncs : stage'[z] # "idle" => stage[z] # "idle"
  PROVE  OneWorks'
<1>1. OneWorks
  BY UsageFacts
<1>2. Working' \subseteq Working
  BY DEF Working
<1> QED
  BY <1>1, <1>2 DEF OneWorks

-----------------------------------------------------------------------------
(* The log, the lock, and the process.                                     *)

LEMMA WriteLogUsage ==
  ASSUME UsageInv, NEW t \in Turns, WriteLog(t)
  PROVE  UsageInv'
<1>0. TurnTypes /\ RowTypes /\ SyncTypes /\ EditTypes /\ RestTypes
  BY UsageFacts
<1>1. /\ logged' = logged \cup {t}
      /\ UNCHANGED <<used, queue, status, matchedLog, attributed, estimate, unpriced, proc, stage, batch,
                     left, ids, keepsAlive, rate, edit, disturbed, edits, lock, befallen, phantom,
                     lapsed, faults>>
  BY DEF WriteLog, rowVars, syncVars, editVars
<1>2. TurnTypes' /\ RowTypes' /\ SyncTypes' /\ EditTypes' /\ RestTypes'
  BY <1>0, <1>1 DEF TurnTypes, RowTypes, SyncTypes, EditTypes, RestTypes
<1>3. OneWorks' /\ EstimatesInv' /\ AgreeInv'
  BY <1>1, OneWorksKept, EstimatesKept, AgreeKept
<1> QED
  BY <1>1, <1>2, <1>3, RecordsKept, UsageInvFrom

\* a sync starts, stops, or is no longer renewed, with nothing in its hands
LEMMA LockUsage ==
  ASSUME UsageInv, NEW s \in Syncs,
         \/ AcquireLock(s) \/ KeepAliveEnds(s)
         \/ \E works \in BOOLEAN : ReleaseLock(s, works)
  PROVE  UsageInv'
<1>0. /\ TurnTypes /\ RowTypes /\ SyncTypes /\ EditTypes /\ RestTypes
      /\ OneWorks /\ StageInv(s) /\ MaxFaults \in Nat
  BY UsageFacts
<1>1. UNCHANGED <<used, queue, logged, status, matchedLog, attributed, estimate, unpriced, proc, batch,
                  left, ids, rate, edit, disturbed, edits, befallen, phantom, lapsed>>
  BY DEF AcquireLock, KeepAliveEnds, ReleaseLock,
         turnVars, rowVars, editVars
<1>2. /\ keepsAlive' = [keepsAlive EXCEPT ![s] = TRUE] \/ keepsAlive' = [keepsAlive EXCEPT ![s] = FALSE]
      /\ faults' = faults \/ (faults < MaxFaults /\ faults' = faults + 1)
  BY DEF AcquireLock, KeepAliveEnds, ReleaseLock, Fault
<1>3. \/ stage' = stage /\ lock' = lock
      \/ /\ stage[s] = "idle" /\ stage' = [stage EXCEPT ![s] = "fetch"]
         /\ ~ lock.live /\ lock' = [owner |-> proc[s], live |-> TRUE]
      \/ /\ stage[s] = "release" /\ stage' = [stage EXCEPT ![s] = "idle"]
         /\ lock' = lock \/ lock' = NoLock
  BY DEF AcquireLock, KeepAliveEnds, ReleaseLock, Free
<1>4. TurnTypes' /\ RowTypes' /\ EditTypes'
  BY <1>0, <1>1 DEF TurnTypes, RowTypes, EditTypes
<1>5. SyncTypes'
  <2>1. stage' \in [Syncs -> Stages] /\ keepsAlive' \in [Syncs -> BOOLEAN]
    BY <1>0, <1>2, <1>3 DEF SyncTypes, Stages
  <2> QED
    BY <1>0, <1>1, <2>1 DEF SyncTypes
<1>6. RestTypes'
  <2>1. lock' \in [owner : Nat, live : BOOLEAN]
    <3>1. lock \in [owner : Nat, live : BOOLEAN] /\ proc[s] \in Nat
      BY <1>0 DEF RestTypes, SyncTypes
    <3>2. [owner |-> proc[s], live |-> TRUE] \in [owner : Nat, live : BOOLEAN]
          /\ NoLock \in [owner : Nat, live : BOOLEAN]
      BY <3>1 DEF NoLock
    <3> QED
      BY <1>3, <3>1, <3>2
  <2>2. faults' \in 0 .. MaxFaults
    BY <1>0, <1>2 DEF RestTypes
  <2> QED
    BY <1>0, <1>1, <2>1, <2>2 DEF RestTypes
<1>7. EstimatesInv' /\ AgreeInv'
  BY <1>1, EstimatesKept, AgreeKept
<1>8. (\A z \in Syncs : StageInv(z)') /\ HandsApart' /\ EachFailsAlone'
  <2>1. StageInv(s)'
    BY <1>0, <1>1, <1>3 DEF StageInv, StoredOrFailed, HasRow, SyncTypes
  <2>2. InHand(s)' = InHand(s)
    BY <1>1 DEF InHand
  <2>3. \A z \in Syncs \ {s} : stage'[z] = stage[z]
    BY <1>0, <1>3 DEF SyncTypes
  <2> QED
    BY <1>1, <2>1, <2>2, <2>3, RecordStep
<1>9. OneWorks'
  <2>1. CASE stage' = stage /\ lock' = lock
    BY <1>1, <2>1, OneWorksKept
  <2>2. CASE stage[s] = "idle" /\ stage' = [stage EXCEPT ![s] = "fetch"]
             /\ ~ lock.live /\ lock' = [owner |-> proc[s], live |-> TRUE]
    <3>1. lock'.live /\ Working' = Working \cup {s}
      BY <1>0, <2>2 DEF Working, SyncTypes
    <3>2. ~ lapsed => Working = {}
      BY <1>0, <2>2 DEF OneWorks
    <3> QED
      BY <1>1, <3>1, <3>2 DEF OneWorks
  <2>3. CASE stage[s] = "release" /\ stage' = [stage EXCEPT ![s] = "idle"]
    <3>1. Working' = Working \ {s} /\ s \in Working
      BY <1>0, <2>3 DEF Working, SyncTypes
    <3>2. ~ lapsed => Working' = {}
      BY <1>0, <3>1 DEF OneWorks
    <3> QED
      BY <1>1, <3>2 DEF OneWorks
  <2> QED
    BY <1>3, <2>1, <2>2, <2>3
<1> QED
  BY <1>4, <1>5, <1>6, <1>7, <1>8, <1>9, UsageInvFrom

LEMMA LapseUsage ==
  ASSUME UsageInv, Lapse
  PROVE  UsageInv'
<1>0. TurnTypes /\ RowTypes /\ SyncTypes /\ EditTypes /\ RestTypes /\ OneWorks /\ MaxFaults \in Nat
  BY UsageFacts
<1>1. /\ lock' = [lock EXCEPT !.live = FALSE]
      /\ lapsed' = (lapsed \/ Working # {})
      /\ faults' = faults \/ (faults < MaxFaults /\ faults' = faults + 1)
      /\ UNCHANGED <<used, queue, logged, status, matchedLog, attributed, estimate, unpriced, proc, stage, batch,
                     left, ids, keepsAlive, rate, edit, disturbed, edits, befallen, phantom>>
  BY DEF Lapse, Fault, turnVars, rowVars, syncVars, editVars
<1>2. TurnTypes' /\ RowTypes' /\ SyncTypes' /\ EditTypes'
  BY <1>0, <1>1 DEF TurnTypes, RowTypes, SyncTypes, EditTypes
<1>3. RestTypes'
  <2>1. faults' \in 0 .. MaxFaults
    BY <1>0, <1>1 DEF RestTypes
  <2>2. lapsed' \in BOOLEAN
    BY <1>1
  <2>3. lock \in [owner : Nat, live : BOOLEAN]
    BY <1>0 DEF RestTypes
  <2>4. lock' \in [owner : Nat, live : BOOLEAN]
    BY <1>1, <2>3
  <2> QED
    BY <1>0, <1>1, <2>1, <2>2, <2>4 DEF RestTypes
<1>4. Working' = Working
  BY <1>1 DEF Working
<1>5. OneWorks'
  BY <1>0, <1>1, <1>4 DEF OneWorks
<1>6. EstimatesInv' /\ AgreeInv'
  BY <1>1, EstimatesKept, AgreeKept
<1> QED
  BY <1>1, <1>2, <1>3, <1>5, <1>6, RecordsKept, UsageInvFrom

LEMMA SyncsCounted == Cardinality(Syncs) \in Nat
BY FS_CardinalityType, UsageAssumption

LEMMA CrashUsage ==
  ASSUME UsageInv, NEW p, Crash(p)
  PROVE  UsageInv'
<1> DEFINE gone == {s \in Syncs : proc[s] = p}
<1>0. /\ TurnTypes /\ RowTypes /\ SyncTypes /\ EditTypes /\ RestTypes /\ MaxFaults \in Nat
      /\ \A s \in Syncs : StageInv(s)
      /\ HandsApart /\ EachFailsAlone
      /\ Cardinality(Syncs) \in Nat
  BY UsageFacts, SyncsCounted
<1>1. /\ gone # {} /\ faults < MaxFaults /\ faults' = faults + 1
      /\ proc' = [s \in Syncs |-> IF s \in gone THEN Cardinality(Syncs) + faults' ELSE proc[s]]
      /\ stage' = [s \in Syncs |-> IF s \in gone THEN "idle" ELSE stage[s]]
      /\ keepsAlive' = [s \in Syncs |-> IF s \in gone THEN FALSE ELSE keepsAlive[s]]
      /\ batch' = [s \in Syncs |-> IF s \in gone THEN {} ELSE batch[s]]
      /\ left' = [s \in Syncs |-> IF s \in gone THEN {} ELSE left[s]]
      /\ ids' = [s \in Syncs |-> IF s \in gone THEN {} ELSE ids[s]]
      /\ befallen' = befallen \cup UNION {InHand(s) : s \in gone}
      /\ UNCHANGED <<used, queue, logged, status, matchedLog, attributed, estimate, unpriced, rate, edit,
                     disturbed, edits, lock, phantom, lapsed>>
  BY DEF Crash, Fault, turnVars, rowVars, editVars
<1>2. gone \subseteq Syncs
  OBVIOUS
<1> HIDE DEF gone
<1>3. faults' \in 0 .. MaxFaults /\ faults' \in Nat
  BY <1>0, <1>1 DEF RestTypes
<1>4. TurnTypes' /\ RowTypes' /\ EditTypes'
  BY <1>0, <1>1 DEF TurnTypes, RowTypes, EditTypes
<1>5. SyncTypes'
  <2>1. /\ proc' \in [Syncs -> Nat] /\ stage' \in [Syncs -> Stages]
        /\ keepsAlive' \in [Syncs -> BOOLEAN]
    <3>1. Cardinality(Syncs) + faults' \in Nat
      BY <1>0, <1>3
    <3>2. proc \in [Syncs -> Nat] /\ stage \in [Syncs -> Stages] /\ keepsAlive \in [Syncs -> BOOLEAN]
      BY <1>0 DEF SyncTypes
    <3>3. proc' \in [Syncs -> Nat]
      BY <1>1, <3>1, <3>2
    <3>4. "idle" \in Stages
      BY DEF Stages
    <3> QED
      BY <1>1, <3>2, <3>3, <3>4
  <2>2. /\ batch' \in [Syncs -> SUBSET Turns] /\ left' \in [Syncs -> SUBSET Turns]
        /\ ids' \in [Syncs -> SUBSET Turns]
    BY <1>0, <1>1 DEF SyncTypes
  <2>3. \A s \in Syncs : ids'[s] \subseteq batch'[s]
    BY <1>0, <1>1 DEF SyncTypes
  <2> QED
    BY <2>1, <2>2, <2>3 DEF SyncTypes
<1>6. \A s \in Syncs : InHand(s)' = IF s \in gone THEN {} ELSE InHand(s)
  BY <1>1 DEF InHand
<1>7. RestTypes' /\ befallen \subseteq befallen'
  <2>1. \A s \in Syncs : InHand(s) \subseteq Turns
    BY <1>0 DEF SyncTypes, InHand
  <2>2. befallen' \subseteq Turns /\ befallen \subseteq befallen'
    BY <1>0, <1>1, <1>2, <2>1 DEF RestTypes
  <2> QED
    BY <1>0, <1>1, <1>3, <2>2 DEF RestTypes
<1>8. OneWorks'
  BY <1>1, OneWorksKept
<1>9. EstimatesInv' /\ AgreeInv'
  BY <1>1, EstimatesKept, AgreeKept
<1>10. ASSUME NEW s \in Syncs PROVE StageInv(s)'
  <2>1. CASE s \in gone
    <3>1. stage'[s] = "idle" /\ batch'[s] = {} /\ left'[s] = {} /\ ids'[s] = {}
      BY <1>1, <2>1
    <3> QED
      BY <3>1 DEF StageInv
  <2>2. CASE s \notin gone
    <3>1. stage'[s] = stage[s] /\ batch'[s] = batch[s] /\ left'[s] = left[s] /\ ids'[s] = ids[s]
      BY <1>1, <2>2
    <3>2. \A t : HasRow(t) => HasRow(t)'
      BY <1>1 DEF HasRow
    <3>3. \A t : StoredOrFailed(s, t) => StoredOrFailed(s, t)'
      BY <1>7, <3>1, <3>2 DEF StoredOrFailed
    <3> QED
      BY <1>0, <1>1, <3>1, <3>2, <3>3 DEF StageInv
  <2> QED
    BY <2>1, <2>2
<1>11. HandsApart'
  <2>1. \A t \in Turns : Unsettled(t)' => Unsettled(t)
    BY <1>1, <1>6 DEF Unsettled
  <2> QED
    BY <1>0, <1>1, <1>6, <2>1 DEF HandsApart
<1>12. EachFailsAlone'
  <2>1. SUFFICES ASSUME NEW t \in Turns, t \notin queue', t \notin befallen'
                 PROVE  (\E z \in Syncs : t \in InHand(z)') \/ Settled(t)'
    BY DEF EachFailsAlone, Popped, Settled
  <2>2. (\E z \in Syncs : t \in InHand(z)) \/ Settled(t)
    BY <1>0, <1>1, <1>7, <2>1 DEF EachFailsAlone, Popped, Settled
  <2>3. ASSUME NEW z \in Syncs, t \in InHand(z)
        PROVE  t \in InHand(z)'
    <3>1. z \notin gone
      BY <1>1, <2>1, <2>3
    <3> QED
      BY <1>6, <2>3, <3>1
  <2> QED
    BY <1>1, <2>2, <2>3 DEF Settled
<1> QED
  BY <1>4, <1>5, <1>7, <1>8, <1>9, <1>10, <1>11, <1>12, UsageInvFrom

-----------------------------------------------------------------------------
(* The stages of a sync.                                                   *)

Matches == {None, "pending", "matched", "unmatched", "ignored"}

\* a sync is somewhere else, with other records in its hands
Moves(s, to, b, l, i) ==
  /\ to \in Stages /\ b \subseteq Turns /\ l \subseteq Turns /\ i \subseteq b
  /\ stage' = [stage EXCEPT ![s] = to] /\ left' = [left EXCEPT ![s] = l]
  /\ batch' = [batch EXCEPT ![s] = b] /\ ids' = [ids EXCEPT ![s] = i]
  /\ UNCHANGED <<proc, keepsAlive>>

LEMMA SyncMoves ==
  ASSUME UsageInv, NEW s \in Syncs, NEW to, NEW b, NEW l, NEW i, Moves(s, to, b, l, i)
  PROVE  /\ SyncTypes'
         /\ stage'[s] = to /\ left'[s] = l /\ batch'[s] = b /\ ids'[s] = i
         /\ InHand(s)' = b \cup l
         /\ \A z \in Syncs \ {s} : /\ stage'[z] = stage[z] /\ batch'[z] = batch[z]
                                   /\ left'[z] = left[z] /\ ids'[z] = ids[z]
<1>1. SyncTypes
  BY UsageFacts
<1>2. stage'[s] = to /\ left'[s] = l /\ batch'[s] = b /\ ids'[s] = i
  BY <1>1 DEF SyncTypes, Moves
<1>3. \A z \in Syncs \ {s} : /\ stage'[z] = stage[z] /\ batch'[z] = batch[z]
                             /\ left'[z] = left[z] /\ ids'[z] = ids[z]
  BY <1>1 DEF SyncTypes, Moves
<1>4. /\ stage' \in [Syncs -> Stages] /\ batch' \in [Syncs -> SUBSET Turns]
      /\ left' \in [Syncs -> SUBSET Turns] /\ ids' \in [Syncs -> SUBSET Turns]
  BY <1>1 DEF SyncTypes, Moves
<1>5. \A z \in Syncs : ids'[z] \subseteq batch'[z]
  BY <1>1, <1>2, <1>3 DEF SyncTypes, Moves
<1>6. SyncTypes'
  BY <1>1, <1>4, <1>5 DEF SyncTypes, Moves
<1>7. InHand(s)' = b \cup l
  BY <1>2 DEF InHand
<1> QED
  BY <1>2, <1>3, <1>6, <1>7

\* and nothing was attributed
LEMMA StageStep ==
  ASSUME UsageInv, NEW s \in Syncs,
         UNCHANGED <<used, logged, matchedLog, attributed, estimate, unpriced, rate, edit, disturbed, edits,
                     lock, lapsed>>,
         stage[s] # "idle", SyncTypes',
         \A z \in Syncs \ {s} : /\ stage'[z] = stage[z] /\ batch'[z] = batch[z]
                                /\ left'[z] = left[z] /\ ids'[z] = ids[z],
         queue' \subseteq queue, faults' \in 0 .. MaxFaults,
         befallen \subseteq befallen', befallen' \subseteq Turns,
         phantom \subseteq phantom', phantom' \subseteq befallen',
         status' \in [Turns -> Matches],
         \A t \in Turns : \/ status'[t] = status[t]
                          \/ t \in InHand(s) /\ status'[t] # "matched",
         StageInv(s)',
         InHand(s)' \subseteq InHand(s) \cup (queue \ queue'),
         \A t \in Turns \ befallen' :
           t \in InHand(s) \cup (queue \ queue') => t \in InHand(s)' \/ Settled(t)'
  PROVE  UsageInv'
<1>0. TurnTypes /\ RowTypes /\ EditTypes /\ RestTypes
  BY UsageFacts
<1>1. TurnTypes' /\ RowTypes' /\ EditTypes' /\ RestTypes'
  BY <1>0 DEF TurnTypes, RowTypes, EditTypes, RestTypes, Matches
<1>2. (\A z \in Syncs : StageInv(z)') /\ HandsApart' /\ EachFailsAlone'
  BY RecordStep
<1>3. AgreeInv'
  <2>1. \A t \in InHand(s) : Unsettled(t)
    BY DEF Unsettled
  <2> QED
    BY <2>1, AgreeKept
<1>4. EstimatesInv'
  BY EstimatesKept
<1>5. OneWorks'
  BY OneWorksKept
<1> QED
  BY <1>1, <1>2, <1>3, <1>4, <1>5, UsageInvFrom

\* where a sync stands, and what it has
LEMMA StageFacts ==
  ASSUME UsageInv, NEW s \in Syncs
  PROVE  /\ SyncTypes /\ StageInv(s) /\ status \in [Turns -> Matches]
         /\ left[s] \subseteq Turns /\ batch[s] \subseteq Turns /\ ids[s] \subseteq batch[s]
         /\ left = [left EXCEPT ![s] = left[s]] /\ batch = [batch EXCEPT ![s] = batch[s]]
         /\ ids = [ids EXCEPT ![s] = ids[s]]
         /\ queue \subseteq Turns /\ befallen \subseteq Turns /\ phantom \subseteq befallen
         /\ faults \in 0 .. MaxFaults /\ faults \in Nat /\ MaxFaults \in Nat
         /\ None \notin Turns \cup {"pending", "matched", "unmatched", "ignored"}
         /\ HandsApart
         /\ Fault => faults' \in 0 .. MaxFaults
<1>1. SyncTypes /\ RestTypes /\ TurnTypes /\ RowTypes /\ HandsApart /\ StageInv(s)
      /\ MaxFaults \in Nat
      /\ None \notin Turns \cup {"pending", "matched", "unmatched", "ignored"}
  BY UsageFacts
<1>2. /\ left = [left EXCEPT ![s] = left[s]] /\ batch = [batch EXCEPT ![s] = batch[s]]
      /\ ids = [ids EXCEPT ![s] = ids[s]]
  BY <1>1 DEF SyncTypes
<1>3. left[s] \subseteq Turns /\ batch[s] \subseteq Turns /\ ids[s] \subseteq batch[s]
  BY <1>1 DEF SyncTypes
<1>4. Fault => faults' \in 0 .. MaxFaults
  BY <1>1 DEF RestTypes, Fault
<1> QED
  BY <1>1, <1>2, <1>3, <1>4 DEF RestTypes, TurnTypes, RowTypes, Matches

LEMMA FetchUsage ==
  ASSUME UsageInv, NEW s \in Syncs,
         \/ \E got \in SUBSET queue : Fetch(s, got)
         \/ \E gone \in SUBSET queue : FetchFails(s, gone)
  PROVE  UsageInv'
<1>0. /\ StageInv(s) /\ status \in [Turns -> Matches] /\ HandsApart
      /\ left = [left EXCEPT ![s] = left[s]] /\ batch = [batch EXCEPT ![s] = batch[s]]
      /\ ids = [ids EXCEPT ![s] = ids[s]]
      /\ queue \subseteq Turns /\ befallen \subseteq Turns /\ phantom \subseteq befallen
      /\ faults \in 0 .. MaxFaults
      /\ Fault => faults' \in 0 .. MaxFaults
  BY StageFacts
<1>1. UNCHANGED <<used, logged, matchedLog, attributed, estimate, unpriced, rate, edit, disturbed, edits,
                  lock, lapsed, proc, keepsAlive, ids, phantom, status>>
  BY DEF Fetch, FetchFails, rowVars, editVars
<1>2. stage[s] = "fetch"
  BY DEF Fetch, FetchFails, Move
<1>3. batch[s] = {} /\ left[s] = {} /\ ids[s] = {} /\ InHand(s) = {}
  BY <1>0, <1>2 DEF StageInv, InHand
<1>4. ASSUME NEW got \in SUBSET queue, Fetch(s, got)
      PROVE  UsageInv'
  <2> DEFINE to == IF got = {} THEN "release" ELSE "batch"
  <2>1. /\ stage' = [stage EXCEPT ![s] = to] /\ left' = [left EXCEPT ![s] = got]
        /\ batch' = [batch EXCEPT ![s] = got] /\ ids' = [ids EXCEPT ![s] = {}]
        /\ queue' = queue \ got /\ befallen' = befallen /\ faults' = faults
    BY <1>0, <1>3, <1>4 DEF Fetch, Move
  <2>2. to \in Stages /\ got \in SUBSET Turns
    BY <1>0 DEF Stages
  <2>3. (to = "release" /\ got = {}) \/ to = "batch"
    OBVIOUS
  <2> HIDE DEF to
  <2>4. /\ SyncTypes'
        /\ stage'[s] = to /\ left'[s] = got /\ batch'[s] = got /\ ids'[s] = {}
        /\ InHand(s)' = got \cup got
        /\ \A z \in Syncs \ {s} : /\ stage'[z] = stage[z] /\ batch'[z] = batch[z]
                                  /\ left'[z] = left[z] /\ ids'[z] = ids[z]
    <3>1. Moves(s, to, got, got, {})
      BY <1>1, <2>1, <2>2 DEF Moves
    <3> QED
      BY <3>1, SyncMoves
  <2>5. StageInv(s)'
    BY <1>0, <1>1, <2>3, <2>4 DEF StageInv, HandsApart
  <2>6. queue \ queue' = got
    BY <2>1
  <2> QED
    BY <1>0, <1>1, <1>2, <1>3, <2>1, <2>4, <2>5, <2>6, StageStep
<1>5. ASSUME NEW gone \in SUBSET queue, FetchFails(s, gone)
      PROVE  UsageInv'
  <2>1. /\ stage' = [stage EXCEPT ![s] = "release"] /\ left' = [left EXCEPT ![s] = {}]
        /\ batch' = [batch EXCEPT ![s] = {}] /\ ids' = [ids EXCEPT ![s] = {}]
        /\ queue' = queue \ gone /\ befallen' = befallen \cup gone /\ faults' \in 0 .. MaxFaults
    BY <1>0, <1>3, <1>5 DEF FetchFails, Move
  <2>2. "release" \in Stages
    BY DEF Stages
  <2>3. /\ SyncTypes'
        /\ stage'[s] = "release" /\ left'[s] = {} /\ batch'[s] = {} /\ ids'[s] = {}
        /\ InHand(s)' = {}
        /\ \A z \in Syncs \ {s} : /\ stage'[z] = stage[z] /\ batch'[z] = batch[z]
                                  /\ left'[z] = left[z] /\ ids'[z] = ids[z]
    <3>1. Moves(s, "release", {}, {}, {})
      BY <1>1, <2>1, <2>2 DEF Moves
    <3> QED
      BY <3>1, SyncMoves
  <2>4. StageInv(s)'
    BY <2>3 DEF StageInv
  <2> QED
    BY <1>0, <1>1, <1>2, <1>3, <2>1, <2>3, <2>4, StageStep
<1> QED
  BY <1>4, <1>5

LEMMA BatchUsage ==
  ASSUME UsageInv, NEW s \in Syncs,
         \/ StoreBatch(s) \/ \E given \in SUBSET Turns : BatchFails(s, given)
  PROVE  UsageInv'
<1>0. /\ StageInv(s) /\ status \in [Turns -> Matches] /\ HandsApart
      /\ left[s] \subseteq Turns
      /\ left = [left EXCEPT ![s] = left[s]] /\ batch = [batch EXCEPT ![s] = batch[s]]
      /\ befallen \subseteq Turns /\ phantom \subseteq befallen
      /\ faults \in 0 .. MaxFaults
  BY StageFacts
<1>1. UNCHANGED <<used, queue, logged, matchedLog, attributed, estimate, unpriced, rate, edit, disturbed,
                  edits, lock, lapsed, proc, keepsAlive, batch, befallen, phantom, faults>>
  BY DEF StoreBatch, BatchFails, turnVars, rowVars, editVars
<1>2. stage[s] = "batch" /\ left' = [left EXCEPT ![s] = left[s]]
  BY DEF StoreBatch, BatchFails, Move
<1>3. /\ left[s] = batch[s] /\ InHand(s) = left[s]
      /\ \A t \in left[s] : status[t] = None
  BY <1>0, <1>2 DEF StageInv, InHand
<1>4. CASE StoreBatch(s)
  <2>1. /\ stage' = [stage EXCEPT ![s] = "keys"] /\ ids' = [ids EXCEPT ![s] = left[s]]
        /\ status' = [t \in Turns |-> IF t \in left[s] THEN "pending" ELSE status[t]]
    BY <1>4 DEF StoreBatch, Move
  <2>2. "keys" \in Stages
    BY DEF Stages
  <2>3. /\ SyncTypes'
        /\ stage'[s] = "keys" /\ left'[s] = left[s] /\ batch'[s] = left[s] /\ ids'[s] = left[s]
        /\ InHand(s)' = left[s] \cup left[s]
        /\ \A z \in Syncs \ {s} : /\ stage'[z] = stage[z] /\ batch'[z] = batch[z]
                                  /\ left'[z] = left[z] /\ ids'[z] = ids[z]
    <3>1. Moves(s, "keys", left[s], left[s], left[s])
      BY <1>0, <1>1, <1>2, <1>3, <2>1, <2>2 DEF Moves
    <3> QED
      BY <3>1, SyncMoves
  <2>4. /\ status' \in [Turns -> Matches]
        /\ \A t \in left[s] : status'[t] = "pending"
        /\ \A t \in Turns \ left[s] : status'[t] = status[t]
    BY <1>0, <2>1 DEF Matches
  <2>5. StageInv(s)'
    BY <2>3, <2>4 DEF StageInv, StoredOrFailed, HasRow
  <2> QED
    BY <1>0, <1>1, <1>2, <1>3, <2>3, <2>4, <2>5, StageStep
<1>5. ASSUME NEW given \in SUBSET Turns, BatchFails(s, given)
      PROVE  UsageInv'
  <2>1. /\ given \subseteq left[s]
        /\ stage' = [stage EXCEPT ![s] = "rows"] /\ ids' = [ids EXCEPT ![s] = given]
        /\ status' = status
    BY <1>5 DEF BatchFails, Move, rowVars
  <2>2. "rows" \in Stages
    BY DEF Stages
  <2>3. /\ SyncTypes'
        /\ stage'[s] = "rows" /\ left'[s] = left[s] /\ batch'[s] = left[s] /\ ids'[s] = given
        /\ InHand(s)' = left[s] \cup left[s]
        /\ \A z \in Syncs \ {s} : /\ stage'[z] = stage[z] /\ batch'[z] = batch[z]
                                  /\ left'[z] = left[z] /\ ids'[z] = ids[z]
    <3>1. Moves(s, "rows", left[s], left[s], given)
      BY <1>0, <1>1, <1>2, <1>3, <2>1, <2>2 DEF Moves
    <3> QED
      BY <3>1, SyncMoves
  <2>4. StageInv(s)'
    BY <1>3, <2>1, <2>3 DEF StageInv
  <2> QED
    BY <1>0, <1>1, <1>2, <1>3, <2>1, <2>3, <2>4, StageStep
<1> QED
  BY <1>4, <1>5

\* one row of a batch that was rolled back: stored or given up
LEMMA RowUsage ==
  ASSUME UsageInv, NEW s \in Syncs, NEW t \in Turns,
         StoreRow(s, t) \/ DropRow(s, t)
  PROVE  UsageInv'
<1> DEFINE rest == left[s] \ {t}
           to == IF rest = {} THEN "keys" ELSE "rows"
           next == IF rest = {} THEN batch[s] ELSE rest
<1>0. /\ StageInv(s) /\ status \in [Turns -> Matches] /\ HandsApart
      /\ left[s] \subseteq Turns /\ batch[s] \subseteq Turns /\ ids[s] \subseteq batch[s]
      /\ left = [left EXCEPT ![s] = left[s]] /\ batch = [batch EXCEPT ![s] = batch[s]]
      /\ ids = [ids EXCEPT ![s] = ids[s]]
      /\ befallen \subseteq Turns /\ phantom \subseteq befallen
      /\ faults \in 0 .. MaxFaults
      /\ Fault => faults' \in 0 .. MaxFaults
      /\ None # "matched"
  BY StageFacts
<1>1. UNCHANGED <<used, queue, logged, matchedLog, attributed, estimate, unpriced, rate, edit, disturbed,
                  edits, lock, lapsed, proc, keepsAlive, batch>>
  BY DEF StoreRow, DropRow, turnVars, rowVars, editVars
<1>2. /\ t \in left[s] /\ stage[s] = "rows"
      /\ stage' = [stage EXCEPT ![s] = to] /\ left' = [left EXCEPT ![s] = next]
  BY DEF StoreRow, DropRow, RowDone, Move, AfterRow
<1>3. /\ left[s] \subseteq batch[s] /\ InHand(s) = batch[s]
      /\ \A u \in left[s] : status[u] = None
      /\ \A u \in batch[s] \ left[s] : StoredOrFailed(s, u)
  BY <1>0, <1>2 DEF StageInv, InHand
<1>4. /\ to \in Stages /\ next \in SUBSET Turns
      /\ \/ to = "keys" /\ next = batch[s] /\ rest = {}
         \/ to = "rows" /\ next = rest
  BY <1>0 DEF Stages
<1>5. next \subseteq batch[s] /\ rest = left[s] \ {t}
  BY <1>3
<1> HIDE DEF to, next, rest
<1>6. /\ \/ ids' = [ids EXCEPT ![s] = ids[s] \cup {t}] /\ status' = [status EXCEPT ![t] = "pending"]
            /\ UNCHANGED <<befallen, phantom, faults>>
         \/ ids' = [ids EXCEPT ![s] = ids[s]] /\ status' = status
            /\ befallen' = befallen \cup {t} /\ faults' \in 0 .. MaxFaults
            /\ phantom' = IF t \in ids[s] THEN phantom \cup {t} ELSE phantom
  BY <1>0 DEF StoreRow, DropRow, rowVars
<1>7. PICK i \in SUBSET batch[s] :
        /\ ids' = [ids EXCEPT ![s] = i]
        /\ \/ i = ids[s] \cup {t} /\ status' = [status EXCEPT ![t] = "pending"]
              /\ UNCHANGED <<befallen, phantom, faults>>
           \/ i = ids[s] /\ status' = status
              /\ befallen' = befallen \cup {t} /\ faults' \in 0 .. MaxFaults
              /\ phantom' = IF t \in ids[s] THEN phantom \cup {t} ELSE phantom
  <2>1. ids[s] \cup {t} \in SUBSET batch[s] /\ ids[s] \in SUBSET batch[s]
    BY <1>0, <1>2, <1>3
  <2> QED
    BY <1>6, <2>1
<1>8. /\ SyncTypes'
      /\ stage'[s] = to /\ left'[s] = next /\ batch'[s] = batch[s] /\ ids'[s] = i
      /\ InHand(s)' = batch[s] \cup next
      /\ \A z \in Syncs \ {s} : /\ stage'[z] = stage[z] /\ batch'[z] = batch[z]
                                /\ left'[z] = left[z] /\ ids'[z] = ids[z]
  <2>1. Moves(s, to, batch[s], next, i)
    BY <1>0, <1>1, <1>2, <1>4, <1>7 DEF Moves
  <2> QED
    BY <2>1, SyncMoves
<1>9. /\ status' \in [Turns -> Matches]
      /\ \A u \in Turns \ {t} : status'[u] = status[u]
      /\ status'[t] # "matched"
      /\ befallen \subseteq befallen' /\ befallen' \subseteq Turns
      /\ phantom \subseteq phantom' /\ phantom' \subseteq befallen' /\ faults' \in 0 .. MaxFaults
  <2>1. status[t] = None /\ t \in Turns
    BY <1>2, <1>3
  <2>2. status' = status \/ status' = [status EXCEPT ![t] = "pending"]
    BY <1>7
  <2>3. /\ status' \in [Turns -> Matches]
        /\ \A u \in Turns \ {t} : status'[u] = status[u]
        /\ status'[t] \in {None, "pending"}
    BY <1>0, <2>1, <2>2 DEF Matches
  <2>4. status'[t] # "matched"
    BY <1>0, <2>1, <2>3
  <2>5. /\ befallen \subseteq befallen' /\ befallen' \subseteq Turns
        /\ phantom \subseteq phantom' /\ phantom' \subseteq befallen' /\ faults' \in 0 .. MaxFaults
    BY <1>0, <1>7
  <2> QED
    BY <2>3, <2>4, <2>5
<1>10. StoredOrFailed(s, t)'
  BY <1>0, <1>2, <1>3, <1>7, <1>8 DEF StoredOrFailed, HasRow
<1>11. \A u \in batch[s] \ left[s] : StoredOrFailed(s, u)'
  <2>1. SUFFICES ASSUME NEW u \in batch[s] \ left[s]
                 PROVE  StoredOrFailed(s, u)'
    OBVIOUS
  <2>2. u # t /\ status'[u] = status[u] /\ StoredOrFailed(s, u) /\ (u \in i <=> u \in ids[s])
    BY <1>0, <1>2, <1>3, <1>7, <1>9
  <2> QED
    BY <1>8, <1>9, <2>2 DEF StoredOrFailed, HasRow
<1>12. StageInv(s)'
  <2>1. CASE to = "keys" /\ next = batch[s] /\ rest = {}
    <3>1. \A u \in batch[s] : u = t \/ u \in batch[s] \ left[s]
      BY <1>5, <2>1
    <3> QED
      BY <1>8, <1>10, <1>11, <2>1, <3>1 DEF StageInv
  <2>2. CASE to = "rows" /\ next = rest
    <3>1. \A u \in batch[s] \ rest : u = t \/ u \in batch[s] \ left[s]
      BY <1>5
    <3>2. \A u \in rest : status'[u] = None
      BY <1>0, <1>3, <1>5, <1>9
    <3> QED
      BY <1>5, <1>8, <1>10, <1>11, <2>2, <3>1, <3>2 DEF StageInv
  <2> QED
    BY <1>4, <2>1, <2>2
<1>13. InHand(s)' = batch[s] /\ t \in InHand(s)
  BY <1>2, <1>3, <1>5, <1>8
<1> QED
  BY <1>1, <1>2, <1>3, <1>8, <1>9, <1>12, <1>13, StageStep

LEMMA LoadKeysUsage ==
  ASSUME UsageInv, NEW s \in Syncs, NEW works \in BOOLEAN, LoadKeys(s, works)
  PROVE  UsageInv'
<1> DEFINE rows == {t \in left[s] : HasID(s, t)}
           to == IF works /\ rows # {} THEN "match" ELSE "release"
           next == IF works THEN rows ELSE {}
<1>0. /\ StageInv(s) /\ status \in [Turns -> Matches]
      /\ left[s] \subseteq Turns
      /\ befallen \subseteq Turns /\ phantom \subseteq befallen
      /\ faults \in 0 .. MaxFaults
      /\ Fault => faults' \in 0 .. MaxFaults
  BY StageFacts
<1>1. UNCHANGED <<used, queue, logged, status, matchedLog, attributed, estimate, unpriced, rate, edit,
                  disturbed, edits, lock, lapsed, proc, keepsAlive, phantom>>
  BY DEF LoadKeys, turnVars, rowVars, editVars
<1>2. /\ stage[s] = "keys" /\ stage' = [stage EXCEPT ![s] = to] /\ left' = [left EXCEPT ![s] = next]
      /\ batch' = [batch EXCEPT ![s] = {}] /\ ids' = [ids EXCEPT ![s] = {}]
      /\ befallen' = IF works THEN befallen ELSE befallen \cup left[s]
  BY DEF LoadKeys, Move
<1>3. faults' \in 0 .. MaxFaults
  BY <1>0 DEF LoadKeys
<1>4. /\ left[s] = batch[s] /\ InHand(s) = left[s]
      /\ \A t \in left[s] : StoredOrFailed(s, t)
  BY <1>0, <1>2 DEF StageInv, InHand
<1>5. to \in Stages /\ next \in SUBSET Turns /\ next \subseteq left[s]
  BY <1>0 DEF Stages
<1>6. /\ \A t \in next : HasRow(t)
      /\ \A t \in left[s] \ next : works => t \in befallen
      /\ to = "match" \/ (to = "release" /\ next = {})
  BY <1>4 DEF HasID, StoredOrFailed
<1> HIDE DEF to, next, rows
<1>7. /\ SyncTypes'
      /\ stage'[s] = to /\ left'[s] = next /\ batch'[s] = {} /\ ids'[s] = {}
      /\ InHand(s)' = next
      /\ \A z \in Syncs \ {s} : /\ stage'[z] = stage[z] /\ batch'[z] = batch[z]
                                /\ left'[z] = left[z] /\ ids'[z] = ids[z]
  <2>1. Moves(s, to, {}, next, {})
    BY <1>1, <1>2, <1>5 DEF Moves
  <2>2. /\ SyncTypes'
        /\ stage'[s] = to /\ left'[s] = next /\ batch'[s] = {} /\ ids'[s] = {}
        /\ InHand(s)' = {} \cup next
        /\ \A z \in Syncs \ {s} : /\ stage'[z] = stage[z] /\ batch'[z] = batch[z]
                                  /\ left'[z] = left[z] /\ ids'[z] = ids[z]
    BY <2>1, SyncMoves
  <2> QED
    BY <2>2
<1>8. StageInv(s)'
  BY <1>1, <1>6, <1>7 DEF StageInv, HasRow
<1>9. befallen \subseteq befallen' /\ befallen' \subseteq Turns /\ phantom \subseteq befallen'
  BY <1>0, <1>2
<1>10. \A t \in Turns \ befallen' : t \in left[s] => t \in next
  BY <1>2, <1>6
<1> QED
  BY <1>0, <1>1, <1>2, <1>3, <1>4, <1>5, <1>7, <1>8, <1>9, <1>10, StageStep

-----------------------------------------------------------------------------
(* The attribution.                                                        *)

\* what the step that looks at a record does to the sync and to the row
LEMMA MatchedFacts ==
  ASSUME UsageInv, NEW s \in Syncs, NEW t \in Turns, Matched(s, t)
  PROVE  /\ UNCHANGED <<used, queue, logged, rate, edit, disturbed, edits, lock, phantom, lapsed>>
         /\ stage[s] = "match" /\ t \in InHand(s) /\ HasRow(t)
         /\ SyncTypes'
         /\ stage'[s] \in {"match", "release"} /\ left'[s] = left[s] \ {t}
         /\ batch'[s] = {} /\ ids'[s] = {}
         /\ InHand(s) = left[s] /\ InHand(s)' = left[s] \ {t}
         /\ \A z \in Syncs \ {s} : /\ stage'[z] = stage[z] /\ batch'[z] = batch[z]
                                   /\ left'[z] = left[z] /\ ids'[z] = ids[z]
         /\ (\A u \in left[s] \ {t} : HasRow(u)') => StageInv(s)'
         /\ \A u \in left[s] : HasRow(u)
<1> DEFINE to == IF left[s] = {t} THEN "release" ELSE "match"
<1>0. /\ StageInv(s) /\ left[s] \subseteq Turns
      /\ batch = [batch EXCEPT ![s] = batch[s]] /\ ids = [ids EXCEPT ![s] = ids[s]]
  BY StageFacts
<1>1. /\ UNCHANGED <<used, queue, logged, rate, edit, disturbed, edits, lock, phantom, lapsed,
                     proc, keepsAlive, batch, ids>>
      /\ t \in left[s] /\ stage[s] = "match"
      /\ stage' = [stage EXCEPT ![s] = to] /\ left' = [left EXCEPT ![s] = left[s] \ {t}]
  BY DEF Matched, Move, turnVars, editVars
<1>2. batch[s] = {} /\ ids[s] = {} /\ InHand(s) = left[s] /\ \A u \in left[s] : HasRow(u)
  BY <1>0, <1>1 DEF StageInv, InHand
<1>3. /\ to \in Stages /\ to \in {"match", "release"}
      /\ to = "release" => left[s] \ {t} = {}
  BY DEF Stages
<1> HIDE DEF to
<1>4. /\ SyncTypes'
      /\ stage'[s] = to /\ left'[s] = left[s] \ {t} /\ batch'[s] = {} /\ ids'[s] = {}
      /\ InHand(s)' = {} \cup (left[s] \ {t})
      /\ \A z \in Syncs \ {s} : /\ stage'[z] = stage[z] /\ batch'[z] = batch[z]
                                /\ left'[z] = left[z] /\ ids'[z] = ids[z]
  <2>1. Moves(s, to, {}, left[s] \ {t}, {})
    BY <1>0, <1>1, <1>2, <1>3 DEF Moves
  <2> QED
    BY <2>1, SyncMoves
<1>5. ASSUME \A u \in left[s] \ {t} : HasRow(u)'
      PROVE  StageInv(s)'
  BY <1>3, <1>4, <1>5 DEF StageInv
<1> QED
  BY <1>1, <1>2, <1>3, <1>4, <1>5

\* a row takes its state, and a phantom has none
LEMMA MarkFacts ==
  ASSUME UsageInv, NEW t \in Turns, HasRow(t),
         NEW mark \in {"matched", "unmatched", "ignored"}, MarkRow(t, mark)
  PROVE  /\ status' \in [Turns -> Matches]
         /\ \A u \in Turns \ {t} : status'[u] = status[u]
         /\ status'[t] = mark \/ (status'[t] = None /\ t \in befallen /\ t \in phantom)
         /\ status[t] = None <=> status'[t] = None
<1>1. /\ RowTypes /\ RestTypes
      /\ None \notin Turns \cup {"pending", "matched", "unmatched", "ignored"}
  BY UsageFacts
<1>2. CASE status[t] = None
  BY <1>1, <1>2 DEF HasRow, MarkRow, RowTypes, RestTypes, Matches
<1>3. CASE status[t] # None
  <2>1. status' = [status EXCEPT ![t] = mark]
    BY <1>3 DEF MarkRow
  <2> QED
    BY <1>1, <1>3, <2>1 DEF RowTypes, Matches
<1> QED
  BY <1>2, <1>3

\* the record is no turn of the platform, has no entry, or cannot be written
LEMMA UnattributedUsage ==
  ASSUME UsageInv, NEW s \in Syncs, NEW t \in Turns,
         Ignore(s, t) \/ Unmatch(s, t) \/ MatchFails(s, t)
  PROVE  UsageInv'
<1>1. Matched(s, t)
  BY DEF Ignore, Unmatch, MatchFails
<1>2. /\ UNCHANGED <<used, queue, logged, rate, edit, disturbed, edits, lock, phantom, lapsed>>
      /\ stage[s] = "match" /\ t \in InHand(s) /\ HasRow(t)
      /\ SyncTypes'
      /\ InHand(s) = left[s] /\ InHand(s)' = left[s] \ {t}
      /\ \A z \in Syncs \ {s} : /\ stage'[z] = stage[z] /\ batch'[z] = batch[z]
                                /\ left'[z] = left[z] /\ ids'[z] = ids[z]
      /\ (\A u \in left[s] \ {t} : HasRow(u)') => StageInv(s)'
      /\ \A u \in left[s] : HasRow(u)
  BY <1>1, MatchedFacts
<1>3. /\ left[s] \subseteq Turns /\ status \in [Turns -> Matches]
      /\ befallen \subseteq Turns /\ phantom \subseteq befallen
      /\ faults \in 0 .. MaxFaults
      /\ Fault => faults' \in 0 .. MaxFaults
      /\ None # "matched"
  BY StageFacts
<1>4. /\ UNCHANGED <<matchedLog, attributed, estimate, unpriced>>
      /\ faults' \in 0 .. MaxFaults
      /\ befallen' = befallen \/ befallen' = befallen \cup {t}
  BY <1>3 DEF Ignore, Unmatch, MatchFails, rowVars
<1>5. /\ status' \in [Turns -> Matches]
      /\ \A u \in Turns \ {t} : status'[u] = status[u]
      /\ status'[t] = status[t] \/ status'[t] # "matched"
      /\ t \in befallen' \/ Settled(t)'
  <2>1. CASE MatchFails(s, t)
    BY <1>3, <2>1 DEF MatchFails, rowVars
  <2>2. CASE Ignore(s, t) \/ Unmatch(s, t)
    <3>1. PICK mark \in {"unmatched", "ignored"} : MarkRow(t, mark)
      BY <2>2 DEF Ignore, Unmatch
    <3>2. befallen' = befallen
      BY <2>2 DEF Ignore, Unmatch
    <3>3. /\ status' \in [Turns -> Matches]
          /\ \A u \in Turns \ {t} : status'[u] = status[u]
          /\ status'[t] = mark \/ (status'[t] = None /\ t \in befallen /\ t \in phantom)
      BY <1>2, <3>1, MarkFacts
    <3> QED
      BY <1>3, <3>2, <3>3 DEF Settled
  <2> QED
    BY <2>1, <2>2
<1>6. StageInv(s)'
  BY <1>2, <1>3, <1>5 DEF HasRow
<1> QED
  BY <1>2, <1>3, <1>4, <1>5, <1>6, StageStep

LEMMA AttributeUsage ==
  ASSUME UsageInv, NEW s \in Syncs, NEW t \in Turns, NEW l \in Turns, NEW priced \in BOOLEAN,
         Attribute(s, t, l, priced)
  PROVE  UsageInv'
<1>1. /\ UNCHANGED <<used, queue, logged, rate, edit, disturbed, edits, lock, phantom, lapsed>>
      /\ stage[s] = "match" /\ t \in InHand(s) /\ HasRow(t)
      /\ SyncTypes'
      /\ stage'[s] \in {"match", "release"}
      /\ InHand(s) = left[s] /\ InHand(s)' = left[s] \ {t}
      /\ \A z \in Syncs \ {s} : /\ stage'[z] = stage[z] /\ batch'[z] = batch[z]
                                /\ left'[z] = left[z] /\ ids'[z] = ids[z]
      /\ (\A u \in left[s] \ {t} : HasRow(u)') => StageInv(s)'
      /\ \A u \in left[s] : HasRow(u)
  BY MatchedFacts DEF Attribute
<1>2. /\ used[t] # Other
      /\ attributed' = [attributed EXCEPT ![l] = t]
      /\ priced => /\ estimate' = IF used[l] > 0 /\ rate > 0 THEN [estimate EXCEPT ![l] = rate]
                                ELSE estimate
                   /\ unpriced' = unpriced /\ faults' = faults
      /\ ~ priced => Fault /\ unpriced' = unpriced \cup {l} /\ estimate' = estimate
      /\ MarkRow(t, "matched")
      /\ matchedLog' = IF status[t] = None THEN matchedLog ELSE [matchedLog EXCEPT ![t] = l]
      /\ befallen' = befallen
  BY DEF Attribute
<1>3. attributed[l] = None
  BY DEF Attribute, Fitting, Candidates, Taken
<1>4. /\ TurnTypes /\ RowTypes /\ SyncTypes /\ EditTypes /\ RestTypes
      /\ HandsApart /\ AgreeInv /\ EstimatesInv
      /\ None \notin Turns \cup {"pending", "matched", "unmatched", "ignored"}
      /\ Rates \subseteq Nat \ {0}
  BY UsageFacts
<1>5. /\ status' \in [Turns -> Matches]
      /\ \A u \in Turns \ {t} : status'[u] = status[u]
      /\ status'[t] = "matched" \/ (status'[t] = None /\ t \in befallen /\ t \in phantom)
      /\ status[t] = None <=> status'[t] = None
  BY <1>1, <1>2, MarkFacts
<1>6. /\ attributed' \in [Turns -> Turns \cup {None}]
      /\ attributed'[l] = t /\ \A m \in Turns \ {l} : attributed'[m] = attributed[m]
  BY <1>2, <1>4 DEF RowTypes
<1>7. left[s] \subseteq Turns
  BY StageFacts
<1>8. TurnTypes' /\ RowTypes' /\ EditTypes' /\ RestTypes'
  <2>1. matchedLog' \in [Turns -> Turns \cup {None}] /\ estimate' \in [Turns -> Rates \cup {0}]
    BY <1>2, <1>4 DEF RowTypes, EditTypes
  <2>2. unpriced' \subseteq Turns
    BY <1>2, <1>4 DEF RowTypes
  <2>3. faults' \in 0 .. MaxFaults
    BY <1>2, StageFacts
  <2> QED
    BY <1>1, <1>2, <1>4, <1>5, <1>6, <2>1, <2>2, <2>3
       DEF TurnTypes, RowTypes, EditTypes, RestTypes, Matches
<1>9. (\A z \in Syncs : StageInv(z)') /\ HandsApart' /\ EachFailsAlone'
  <2>1. StageInv(s)'
    BY <1>1, <1>5, <1>7 DEF HasRow
  <2>2. \A u \in Turns \ befallen' :
          u \in InHand(s) \cup (queue \ queue') => u \in InHand(s)' \/ Settled(u)'
    BY <1>1, <1>2, <1>5 DEF Settled
  <2>3. \A m \in Turns : \/ attributed'[m] = attributed[m]
                         \/ attributed'[m] \in InHand(s) \ InHand(s)'
    BY <1>1, <1>6
  <2>4. \A u \in Turns : status'[u] = status[u] \/ u \in InHand(s)
    BY <1>1, <1>5
  <2>5. InHand(s)' \subseteq InHand(s) \cup (queue \ queue')
    BY <1>1
  <2> QED
    BY <1>1, <1>2, <2>1, <2>2, <2>3, <2>4, <2>5, RecordStep
<1>10. \A m \in Turns : attributed[m] # t
  BY <1>1, <1>4 DEF HandsApart, Unsettled
<1>11. AgreeInv'
  <2>1. ASSUME NEW u \in Turns, status'[u] = "matched"
        PROVE  matchedLog'[u] \in Turns /\ attributed'[matchedLog'[u]] = u
    <3>1. CASE u = t
      BY <1>2, <1>4, <1>5, <1>6, <2>1, <3>1 DEF RowTypes
    <3>2. CASE u # t
      <4>1. status[u] = "matched" /\ matchedLog'[u] = matchedLog[u]
        BY <1>2, <1>4, <1>5, <2>1, <3>2 DEF RowTypes
      <4>2. matchedLog[u] \in Turns /\ attributed[matchedLog[u]] = u
        BY <1>4, <4>1 DEF AgreeInv
      <4>3. matchedLog[u] # l
        BY <1>3, <1>4, <4>2
      <4> QED
        BY <1>6, <4>1, <4>2, <4>3
    <3> QED
      BY <3>1, <3>2
  <2>2. ASSUME NEW m \in Turns, attributed'[m] \notin phantom' \cup {None}
        PROVE  /\ status'[attributed'[m]] = "matched" /\ matchedLog'[attributed'[m]] = m
               /\ used'[attributed'[m]] # Other
    <3>1. CASE m = l
      <4>1. status'[t] = "matched" /\ status[t] # None
        BY <1>1, <1>4, <1>5, <1>6, <2>2, <3>1
      <4>2. matchedLog'[t] = l
        BY <1>2, <1>4, <4>1 DEF RowTypes
      <4> QED
        BY <1>1, <1>2, <1>6, <3>1, <4>1, <4>2
    <3>2. CASE m # l
      <4>1. attributed'[m] = attributed[m] /\ attributed[m] \notin phantom \cup {None}
        BY <1>1, <1>6, <2>2, <3>2
      <4>2. attributed[m] \in Turns /\ attributed[m] # t
        BY <1>4, <1>10, <4>1 DEF RowTypes
      <4>3. /\ status[attributed[m]] = "matched" /\ matchedLog[attributed[m]] = m
            /\ used[attributed[m]] # Other
        BY <1>4, <4>1 DEF AgreeInv
      <4>4. matchedLog'[attributed[m]] = matchedLog[attributed[m]]
        BY <1>2, <1>4, <4>2 DEF RowTypes
      <4> QED
        BY <1>1, <1>5, <4>1, <4>2, <4>3, <4>4
    <3> QED
      BY <3>1, <3>2
  <2> QED
    BY <2>1, <2>2 DEF AgreeInv
<1>12. EstimatesInv'
  <2>1. /\ \A m \in Turns \ {l} : Costly(m)' <=> Costly(m)
        /\ \A m \in Turns \ {l} : estimate'[m] = estimate[m]
        /\ Costly(l)' => used[l] > 0 /\ priced
    BY <1>1, <1>2, <1>4, <1>6 DEF Costly, OfAccount, RowTypes
  <2>2. Costly(l)' /\ rate > 0 => estimate'[l] = rate
    BY <1>2, <1>4, <2>1 DEF RowTypes
  <2>3. \A a \in Admins : EditOpen(a)' <=> EditOpen(a)
    BY <1>1 DEF EditOpen
  <2> QED
    BY <1>1, <1>4, <2>1, <2>2, <2>3 DEF EstimatesInv
<1>13. OneWorks'
  <2>1. \A z \in Syncs : stage'[z] # "idle" => stage[z] # "idle"
    BY <1>1
  <2> QED
    BY <1>1, <2>1, OneWorksKept
<1> QED
  BY <1>1, <1>8, <1>9, <1>11, <1>12, <1>13, UsageInvFrom

-----------------------------------------------------------------------------
(* The edits of the account.                                               *)

EditRows == [at : {"none", "refetch", "read", "write"}, rate : Rates \cup {0}, rows : SUBSET Turns]

\* an edit leaves the records and the syncs alone
LEMMA EditStep ==
  ASSUME UsageInv,
         UNCHANGED <<used, queue, logged, status, matchedLog, attributed, proc, stage, batch, left,
                     ids, keepsAlive, lock, befallen, phantom, lapsed>>,
         estimate' \in [Turns -> Rates \cup {0}], unpriced' \subseteq Turns,
         EditTypes', faults' \in 0 .. MaxFaults, EstimatesInv'
  PROVE  UsageInv'
<1>0. TurnTypes /\ RowTypes /\ SyncTypes /\ RestTypes
  BY UsageFacts
<1>1. TurnTypes' /\ RowTypes' /\ SyncTypes' /\ RestTypes'
  BY <1>0 DEF TurnTypes, RowTypes, SyncTypes, RestTypes
<1>2. OneWorks' /\ AgreeInv'
  BY OneWorksKept, AgreeKept
<1> QED
  BY <1>1, <1>2, RecordsKept, UsageInvFrom

\* the first step of an edit: with no other under way, it alone is open
LEMMA WriteAccountUsage ==
  ASSUME UsageInv, NEW a \in Admins, NEW v \in Rates \cup {0}, NEW next \in EditRows,
         WriteAccount(a, v, next),
         next.at \in {"none", "refetch", "read"},
         next.at = "none" => v = 0,
         next.at = "read" => next.rate = v /\ v # 0
  PROVE  UsageInv'
<1>0. /\ RowTypes /\ EditTypes /\ RestTypes /\ MaxEdits \in Nat
      /\ Rates \subseteq Nat \ {0}
  BY UsageFacts
<1>1. /\ UNCHANGED <<used, queue, logged, status, matchedLog, attributed, estimate, unpriced, proc, stage,
                     batch, left, ids, keepsAlive, lock, befallen, phantom, lapsed, faults>>
      /\ edits < MaxEdits /\ edits' = edits + 1
      /\ rate' = v /\ edit' = [edit EXCEPT ![a] = next]
      /\ disturbed' = \E b \in Admins : EditOpen(b)
  BY DEF WriteAccount, turnVars, rowVars, syncVars
<1>2. EditTypes'
  <2>1. edit \in [Admins -> EditRows] /\ edits \in 0 .. MaxEdits
    BY <1>0 DEF EditTypes, EditRows
  <2>2. edit' \in [Admins -> EditRows]
    BY <1>1, <2>1
  <2>3. edits' \in 0 .. MaxEdits
    BY <1>0, <1>1, <2>1
  <2>4. disturbed' \in BOOLEAN
    BY <1>1
  <2> QED
    BY <1>1, <2>2, <2>3, <2>4 DEF EditTypes, EditRows
<1>3. ASSUME ~ disturbed'
      PROVE  /\ \A b \in Admins \ {a} : edit'[b].at = "none"
             /\ edit'[a] = next
  BY <1>0, <1>1, <1>3 DEF EditTypes, EditOpen
<1>4. EstimatesInv'
  <2>1. SUFFICES ASSUME ~ disturbed'
                 PROVE  /\ \A b, c \in Admins : EditOpen(b)' /\ EditOpen(c)' => b = c
                        /\ rate' > 0 /\ (\A b \in Admins : ~ EditOpen(b)') =>
                             \A l \in Turns : Costly(l)' => estimate'[l] = rate'
                        /\ \A b \in Admins :
                             /\ edit'[b].at \in {"read", "write"} => edit'[b].rate = rate' /\ rate' > 0
                             /\ edit'[b].at = "write" =>
                                  \A l \in Turns \ edit'[b].rows : Costly(l)' => estimate'[l] = rate'
    BY DEF EstimatesInv
  <2>2. \A b, c \in Admins : EditOpen(b)' /\ EditOpen(c)' => b = c
    BY <1>3, <2>1 DEF EditOpen
  <2>3. ~ (rate' > 0 /\ \A b \in Admins : ~ EditOpen(b)')
    BY <1>0, <1>1, <1>3, <2>1 DEF EditOpen
  <2>4. \A b \in Admins :
          /\ edit'[b].at \in {"read", "write"} => edit'[b].rate = rate' /\ rate' > 0
          /\ edit'[b].at # "write"
    BY <1>0, <1>1, <1>3, <2>1
  <2> QED
    BY <2>2, <2>3, <2>4
<1>5. estimate' \in [Turns -> Rates \cup {0}] /\ unpriced' \subseteq Turns
      /\ faults' \in 0 .. MaxFaults
  BY <1>0, <1>1 DEF RowTypes, RestTypes
<1> QED
  BY <1>1, <1>2, <1>4, <1>5, EditStep

LEMMA RefreshingFacts ==
  ASSUME UsageInv, NEW v \in Rates \cup {0}
  PROVE  /\ NoEdit \in EditRows /\ Refreshing(v) \in EditRows
         /\ NoEdit.at = "none"
         /\ v = 0 => Refreshing(v).at = "none"
         /\ v # 0 => Refreshing(v).at = "read" /\ Refreshing(v).rate = v
<1>1. Rates \subseteq Nat \ {0}
  BY UsageFacts
<1> QED
  BY <1>1 DEF NoEdit, Refreshing, EditRows

LEMMA BeginEditUsage ==
  ASSUME UsageInv, NEW a \in Admins,
         \/ \E v \in Rates \cup {0} : \/ UpdateUpstreamAccountCost(a, v)
                                      \/ UpsertUpstreamAccountCost(a, v)
         \/ DeleteUpstreamAccountCost(a)
  PROVE  UsageInv'
<1>1. ASSUME NEW v \in Rates \cup {0}, UpdateUpstreamAccountCost(a, v)
      PROVE  UsageInv'
  <2>1. WriteAccount(a, v, Refreshing(v))
    BY <1>1 DEF UpdateUpstreamAccountCost, RateWritten
  <2> QED
    BY <2>1, RefreshingFacts, WriteAccountUsage
<1>2. ASSUME NEW v \in Rates \cup {0}, UpsertUpstreamAccountCost(a, v)
      PROVE  UsageInv'
  <2> DEFINE next == [NoEdit EXCEPT !.at = "refetch"]
  <2>1. next \in EditRows /\ next.at = "refetch"
    BY DEF NoEdit, EditRows
  <2>2. WriteAccount(a, v, next)
    BY <1>2 DEF UpsertUpstreamAccountCost
  <2> QED
    BY <2>1, <2>2, WriteAccountUsage
<1>3. CASE DeleteUpstreamAccountCost(a)
  <2>1. WriteAccount(a, 0, NoEdit) /\ 0 \in Rates \cup {0}
    BY <1>3 DEF DeleteUpstreamAccountCost
  <2> QED
    BY <2>1, RefreshingFacts, WriteAccountUsage
<1> QED
  BY <1>1, <1>2, <1>3

\* the other steps, with the account's row left as it is
LEMMA EditGoesUsage ==
  ASSUME UsageInv, NEW a \in Admins, NEW from, NEW to, to \in EditRows,
         EditGoes(a, from, to)
  PROVE  /\ UNCHANGED <<used, queue, logged, status, matchedLog, attributed, proc, stage, batch,
                        left, ids, keepsAlive, rate, edits, lock, befallen, phantom, lapsed>>
         /\ edit[a].at = from /\ edit[a] \in EditRows
         /\ edit'[a] = to /\ \A b \in Admins \ {a} : edit'[b] = edit[b]
         /\ disturbed' \in BOOLEAN => EditTypes'
         /\ \A l \in Turns : OfAccount(l)' <=> OfAccount(l)
<1>1. EditTypes
  BY UsageFacts
<1>2. /\ UNCHANGED <<used, queue, logged, status, matchedLog, attributed, proc, stage, batch,
                     left, ids, keepsAlive, rate, edits, lock, befallen, phantom, lapsed>>
      /\ edit[a].at = from /\ edit' = [edit EXCEPT ![a] = to]
  BY DEF EditGoes, turnVars, syncVars
<1>3. edit \in [Admins -> EditRows]
  BY <1>1 DEF EditTypes, EditRows
<1>4. edit' \in [Admins -> EditRows]
  BY <1>2, <1>3
<1>5. edit'[a] = to /\ \A b \in Admins \ {a} : edit'[b] = edit[b]
  BY <1>2, <1>3
<1>6. disturbed' \in BOOLEAN => EditTypes'
  BY <1>1, <1>2, <1>4 DEF EditTypes, EditRows
<1>7. \A l \in Turns : OfAccount(l)' <=> OfAccount(l)
  BY <1>2 DEF OfAccount
<1> QED
  BY <1>2, <1>3, <1>5, <1>6, <1>7

LEMMA RefetchUsage ==
  ASSUME UsageInv, NEW a \in Admins, Refetch(a)
  PROVE  UsageInv'
<1>0. /\ RowTypes /\ EditTypes /\ RestTypes /\ EstimatesInv
      /\ Rates \subseteq Nat \ {0}
  BY UsageFacts
<1>1. rate \in Rates \cup {0} /\ disturbed \in BOOLEAN
  BY <1>0 DEF EditTypes
<1> DEFINE to == Refreshing(rate)
<1>2. EditGoes(a, "refetch", to) /\ UNCHANGED <<estimate, unpriced, disturbed, faults>>
  BY DEF Refetch
<1>3. /\ to \in EditRows
      /\ rate = 0 => to.at = "none"
      /\ rate # 0 => to.at = "read" /\ to.rate = rate
  BY <1>1, RefreshingFacts
<1> HIDE DEF to
<1>4. /\ UNCHANGED <<used, queue, logged, status, matchedLog, attributed, proc, stage, batch,
                     left, ids, keepsAlive, rate, edits, lock, befallen, phantom, lapsed>>
      /\ edit[a].at = "refetch"
      /\ edit'[a] = to /\ \A b \in Admins \ {a} : edit'[b] = edit[b]
      /\ EditTypes'
      /\ \A l \in Turns : Costly(l)' <=> Costly(l)
  BY <1>1, <1>2, <1>3, EditGoesUsage DEF Costly
<1>5. EstimatesInv'
  <2>1. SUFFICES ASSUME ~ disturbed PROVE EstimatesInv'
    BY <1>2 DEF EstimatesInv
  <2>2. \A b \in Admins : EditOpen(b)' => EditOpen(b)
    BY <1>4 DEF EditOpen
  <2>3. \A b \in Admins \ {a} : edit[b].at = "none"
    BY <1>0, <1>4, <2>1 DEF EstimatesInv, EditOpen
  <2>4. ~ (rate > 0 /\ \A b \in Admins : ~ EditOpen(b)')
    BY <1>0, <1>1, <1>3, <1>4 DEF EditOpen
  <2>5. \A b \in Admins : edit'[b].at # "write"
                          /\ (edit'[b].at = "read" => edit'[b].rate = rate /\ rate > 0)
    <3>1. rate # 0 => rate > 0
      BY <1>0, <1>1
    <3>2. to.at # "write" /\ (to.at = "read" => to.rate = rate /\ rate > 0)
      BY <1>3, <3>1
    <3> QED
      BY <1>4, <2>3, <3>2
  <2> QED
    BY <1>0, <1>2, <1>4, <2>1, <2>2, <2>4, <2>5 DEF EstimatesInv
<1>6. estimate' \in [Turns -> Rates \cup {0}] /\ unpriced' \subseteq Turns
      /\ faults' \in 0 .. MaxFaults
  BY <1>0, <1>2 DEF RowTypes, RestTypes
<1> QED
  BY <1>4, <1>5, <1>6, EditStep

LEMMA ReadRowsUsage ==
  ASSUME UsageInv, NEW a \in Admins, ReadRows(a)
  PROVE  UsageInv'
<1>0. /\ RowTypes /\ EditTypes /\ RestTypes /\ EstimatesInv
      /\ edit[a] \in EditRows
  BY UsageFacts DEF EditTypes, EditRows
<1> DEFINE rows == {l \in Turns : OfAccount(l)}
           to == [edit[a] EXCEPT !.at = "write", !.rows = rows]
<1>1. EditGoes(a, "read", to) /\ UNCHANGED <<estimate, unpriced, disturbed, faults>>
  BY DEF ReadRows
<1>2. to \in EditRows /\ to.at = "write" /\ to.rate = edit[a].rate /\ to.rows = rows
  BY <1>0 DEF EditRows
<1>3. \A l \in Turns : Costly(l) => l \in rows
  BY DEF Costly
<1> HIDE DEF to, rows
<1>4. disturbed' \in BOOLEAN
  BY <1>0, <1>1 DEF EditTypes
<1>5. /\ UNCHANGED <<used, queue, logged, status, matchedLog, attributed, proc, stage, batch,
                     left, ids, keepsAlive, rate, edits, lock, befallen, phantom, lapsed>>
      /\ edit[a].at = "read"
      /\ edit'[a] = to /\ \A b \in Admins \ {a} : edit'[b] = edit[b]
      /\ EditTypes'
      /\ \A l \in Turns : Costly(l)' <=> Costly(l)
  BY <1>1, <1>2, <1>4, EditGoesUsage DEF Costly
<1>6. EstimatesInv'
  <2>1. \A b \in Admins : EditOpen(b)' <=> EditOpen(b)
    BY <1>2, <1>5 DEF EditOpen
  <2>2. EditOpen(a)
    BY <1>5 DEF EditOpen
  <2> QED
    BY <1>0, <1>1, <1>2, <1>3, <1>5, <2>1, <2>2 DEF EstimatesInv
<1>7. estimate' \in [Turns -> Rates \cup {0}] /\ unpriced' \subseteq Turns
      /\ faults' \in 0 .. MaxFaults
  BY <1>0, <1>1 DEF RowTypes, RestTypes
<1> QED
  BY <1>5, <1>6, <1>7, EditStep

LEMMA WriteEstimatesUsage ==
  ASSUME UsageInv, NEW a \in Admins, WriteEstimates(a)
  PROVE  UsageInv'
<1>0. /\ RowTypes /\ EditTypes /\ RestTypes /\ EstimatesInv
      /\ edit[a] \in EditRows
  BY UsageFacts DEF EditTypes, EditRows
<1>1. /\ EditGoes(a, "write", NoEdit) /\ UNCHANGED <<disturbed, faults>>
      /\ estimate' = [l \in Turns |-> IF l \in edit[a].rows THEN edit[a].rate ELSE estimate[l]]
      /\ unpriced' = unpriced \ edit[a].rows
  BY DEF WriteEstimates
<1>2. NoEdit \in EditRows /\ NoEdit.at = "none"
  BY DEF EditRows, NoEdit
<1>3. disturbed' \in BOOLEAN
  BY <1>0, <1>1 DEF EditTypes
<1>4. /\ UNCHANGED <<used, queue, logged, status, matchedLog, attributed, proc, stage, batch,
                     left, ids, keepsAlive, rate, edits, lock, befallen, phantom, lapsed>>
      /\ edit[a].at = "write"
      /\ edit'[a] = NoEdit /\ \A b \in Admins \ {a} : edit'[b] = edit[b]
      /\ EditTypes'
      /\ \A l \in Turns : OfAccount(l)' <=> OfAccount(l)
  BY <1>1, <1>2, <1>3, EditGoesUsage
<1>5. estimate' \in [Turns -> Rates \cup {0}] /\ unpriced' \subseteq Turns
      /\ faults' \in 0 .. MaxFaults
  <2>1. edit[a].rate \in Rates \cup {0}
    BY <1>0 DEF EditRows
  <2> QED
    BY <1>0, <1>1, <2>1 DEF RowTypes, RestTypes
<1>6. EstimatesInv'
  <2>1. SUFFICES ASSUME ~ disturbed PROVE EstimatesInv'
    BY <1>1 DEF EstimatesInv
  <2>2. \A b \in Admins : ~ EditOpen(b)' /\ edit'[b].at = "none"
    BY <1>0, <1>2, <1>4, <2>1 DEF EstimatesInv, EditOpen
  <2>3. \A l \in Turns : Costly(l)' => estimate'[l] = rate
    <3>1. \A l \in Turns \ edit[a].rows : Costly(l)' => Costly(l)
      BY <1>1, <1>4 DEF Costly
    <3> QED
      BY <1>0, <1>1, <1>4, <2>1, <3>1 DEF EstimatesInv, RowTypes
  <2> QED
    BY <1>4, <2>2, <2>3 DEF EstimatesInv
<1> QED
  BY <1>4, <1>5, <1>6, EditStep

LEMMA EditFailsUsage ==
  ASSUME UsageInv, NEW a \in Admins, EditFails(a)
  PROVE  UsageInv'
<1>0. /\ RowTypes /\ EditTypes /\ RestTypes
  BY UsageFacts
<1>1. /\ EditGoes(a, edit[a].at, NoEdit) /\ Fault
      /\ disturbed' = TRUE /\ estimate' = estimate /\ unpriced' = unpriced
  BY DEF EditFails
<1>2. NoEdit \in EditRows
  BY DEF EditRows, NoEdit
<1>3. /\ UNCHANGED <<used, queue, logged, status, matchedLog, attributed, proc, stage, batch,
                     left, ids, keepsAlive, rate, edits, lock, befallen, phantom, lapsed>>
      /\ EditTypes'
  BY <1>1, <1>2, EditGoesUsage
<1>4. EstimatesInv'
  BY <1>1 DEF EstimatesInv
<1>5. faults' \in 0 .. MaxFaults
  <2>1. MaxFaults \in Nat
    BY UsageFacts
  <2> QED
    BY <1>0, <1>1, <2>1 DEF RestTypes, Fault
<1>6. estimate' \in [Turns -> Rates \cup {0}] /\ unpriced' \subseteq Turns
  BY <1>0, <1>1 DEF RowTypes
<1> QED
  BY <1>3, <1>4, <1>5, <1>6, EditStep

-----------------------------------------------------------------------------
(* All together.                                                           *)

LEMMA StutterUsage ==
  ASSUME UsageInv, UNCHANGED usageVars
  PROVE  UsageInv'
<1>0. TurnTypes /\ RowTypes /\ SyncTypes /\ EditTypes /\ RestTypes
  BY UsageFacts
<1>1. UNCHANGED <<used, queue, logged, status, matchedLog, attributed, estimate, unpriced, proc, stage, batch,
                  left, ids, keepsAlive, rate, edit, disturbed, edits, lock, befallen, phantom,
                  lapsed, faults>>
  BY DEF usageVars, turnVars, rowVars, syncVars, editVars
<1>2. TurnTypes' /\ RowTypes' /\ SyncTypes' /\ EditTypes' /\ RestTypes'
  BY <1>0, <1>1 DEF TurnTypes, RowTypes, SyncTypes, EditTypes, RestTypes
<1>3. OneWorks' /\ EstimatesInv' /\ AgreeInv'
  BY <1>1, OneWorksKept, EstimatesKept, AgreeKept
<1> QED
  BY <1>1, <1>2, <1>3, RecordsKept, UsageInvFrom

LEMMA InitUsageInv ==
  ASSUME UsageInit
  PROVE  UsageInv
<1>0. /\ None \notin Turns \cup {"pending", "matched", "unmatched", "ignored"}
      /\ MaxFaults \in Nat /\ MaxEdits \in Nat
      /\ Placements \subseteq [Syncs -> 1 .. Cardinality(Syncs)]
      /\ Cardinality(Syncs) \in Nat
  BY SyncsCounted, UsageAssumption
<1>1. TurnTypes /\ RowTypes
  BY DEF UsageInit, TurnTypes, RowTypes
<1>2. SyncTypes
  <2>1. proc \in [Syncs -> Nat]
    BY <1>0 DEF UsageInit
  <2> QED
    BY <2>1 DEF UsageInit, SyncTypes, Stages
<1>3. EditTypes /\ RestTypes
  <2>1. /\ NoLock \in [owner : Nat, live : BOOLEAN]
        /\ NoEdit \in EditRows
    BY DEF NoEdit, NoLock, EditRows
  <2>2. /\ rate = 0 /\ edit = [a \in Admins |-> NoEdit] /\ disturbed = FALSE
        /\ edits = 0 /\ faults = 0 /\ lapsed = FALSE
        /\ lock = NoLock /\ befallen = {} /\ phantom = {}
    BY DEF UsageInit
  <2>3. MaxFaults \in Nat /\ MaxEdits \in Nat
    BY <1>0
  <2>4. 0 \in 0 .. MaxFaults /\ 0 \in 0 .. MaxEdits
    BY <2>3
  <2>5. edit \in [Admins -> EditRows]
    BY <2>1, <2>2
  <2>6. EditTypes
    BY <2>2, <2>4, <2>5 DEF EditTypes, EditRows
  <2>7. RestTypes
    BY <2>1, <2>2, <2>4 DEF RestTypes
  <2> QED
    BY <2>6, <2>7
<1>4. UsageTypeOK /\ UsageMaps
  BY <1>1, <1>2, <1>3, UsageTypes
<1>5. OneWorks
  BY DEF UsageInit, OneWorks, Working
<1>6. \A s \in Syncs : StageInv(s) /\ InHand(s) = {}
  BY DEF UsageInit, StageInv, InHand
<1>7. HandsApart
  BY <1>0, <1>6 DEF UsageInit, HandsApart
<1>8. EachFailsAlone
  BY DEF UsageInit, EachFailsAlone, Popped
<1>9. AgreeInv
  BY <1>0 DEF UsageInit, AgreeInv
<1>10. EstimatesInv
  BY <1>0, UsageAssumption DEF UsageInit, EstimatesInv, EditOpen, NoEdit, Costly, OfAccount
<1> QED
  BY <1>4, <1>5, <1>6, <1>7, <1>8, <1>9, <1>10 DEF UsageInv

LEMMA NextUsageInv ==
  ASSUME UsageInv, [UsageNext]_usageVars
  PROVE  UsageInv'
<1>1. ASSUME NEW t \in Turns, WriteLog(t)
      PROVE  UsageInv'
  BY <1>1, WriteLogUsage
<1>2. ASSUME NEW s \in Syncs, AcquireLock(s) \/ KeepAliveEnds(s)
      PROVE  UsageInv'
  BY <1>2, LockUsage
<1>3. ASSUME NEW s \in Syncs, Handle(s)
      PROVE  UsageInv'
  <2>1. CASE ReleaseLock(s, TRUE)
    BY <2>1, LockUsage
  <2>2. CASE \E got \in SUBSET queue : Fetch(s, got)
    BY <2>2, FetchUsage
  <2>3. CASE StoreBatch(s)
    BY <2>3, BatchUsage
  <2>4. CASE LoadKeys(s, TRUE)
    BY <2>4, LoadKeysUsage
  <2>5. ASSUME NEW t \in Turns, StoreRow(s, t)
        PROVE  UsageInv'
    BY <2>5, RowUsage
  <2>6. ASSUME NEW t \in Turns, Ignore(s, t) \/ Unmatch(s, t)
        PROVE  UsageInv'
    BY <2>6, UnattributedUsage
  <2>7. ASSUME NEW t \in Turns, NEW l \in Turns, Attribute(s, t, l, TRUE)
        PROVE  UsageInv'
    BY <2>7, AttributeUsage
  <2> QED
    BY <1>3, <2>1, <2>2, <2>3, <2>4, <2>5, <2>6, <2>7 DEF Handle
<1>4. ASSUME NEW s \in Syncs, Fails(s)
      PROVE  UsageInv'
  <2>1. CASE ReleaseLock(s, FALSE)
    BY <2>1, LockUsage
  <2>2. CASE \E gone \in SUBSET queue : FetchFails(s, gone)
    BY <2>2, FetchUsage
  <2>3. CASE \E given \in SUBSET Turns : BatchFails(s, given)
    BY <2>3, BatchUsage
  <2>4. CASE LoadKeys(s, FALSE)
    BY <2>4, LoadKeysUsage
  <2>5. ASSUME NEW t \in Turns, DropRow(s, t)
        PROVE  UsageInv'
    BY <2>5, RowUsage
  <2>6. ASSUME NEW t \in Turns, MatchFails(s, t)
        PROVE  UsageInv'
    BY <2>6, UnattributedUsage
  <2>7. ASSUME NEW t \in Turns, NEW l \in Turns, Attribute(s, t, l, FALSE)
        PROVE  UsageInv'
    BY <2>7, AttributeUsage
  <2> QED
    BY <1>4, <2>1, <2>2, <2>3, <2>4, <2>5, <2>6, <2>7 DEF Fails
<1>5. CASE Lapse
  BY <1>5, LapseUsage
<1>6. ASSUME NEW p, Crash(p)
      PROVE  UsageInv'
  BY <1>6, CrashUsage
<1>7. ASSUME NEW a \in Admins, Edit(a)
      PROVE  UsageInv'
  BY <1>7, BeginEditUsage, RefetchUsage, ReadRowsUsage, WriteEstimatesUsage, EditFailsUsage
     DEF Edit
<1>8. CASE UNCHANGED usageVars
  BY <1>8, StutterUsage
<1> QED
  BY <1>1, <1>2, <1>3, <1>4, <1>5, <1>6, <1>7, <1>8 DEF UsageNext

LEMMA UsageInvHolds == UsageSpec => []UsageInv
<1>1. UsageInit => UsageInv
  BY InitUsageInv
<1>2. UsageInv /\ [UsageNext]_usageVars => UsageInv'
  BY NextUsageInv
<1> QED
  BY <1>1, <1>2, PTL DEF UsageSpec

LEMMA UsageSafe ==
  UsageInv => /\ UsageTypeOK
              /\ OneSyncAtATime
              /\ EachFailsAlone
              /\ AttributionsAgree
              /\ EstimatesFollowAccount
<1> SUFFICES ASSUME UsageInv
             PROVE  /\ UsageTypeOK
                    /\ OneSyncAtATime
                    /\ EachFailsAlone
                    /\ AttributionsAgree
                    /\ EstimatesFollowAccount
  OBVIOUS
<1>0. OneWorks /\ EachFailsAlone /\ AgreeInv /\ EstimatesInv /\ EditTypes /\ UsageTypeOK
  BY UsageFacts DEF UsageInv
<1>1. OneSyncAtATime
  <2>1. SUFFICES ASSUME ~ lapsed PROVE Cardinality(Working) <= 1
    BY DEF OneSyncAtATime
  <2>2. \A s, z \in Working : s = z
    BY <1>0, <2>1 DEF OneWorks
  <2>3. CASE Working = {}
    <3>1. Cardinality(Working) = 0
      BY <2>3, FS_EmptySet
    <3> QED
      BY <3>1
  <2>4. ASSUME NEW s \in Working
        PROVE  Cardinality(Working) <= 1
    <3>1. Working = {s}
      BY <2>2
    <3>2. Cardinality(Working) = 1
      BY <3>1, FS_Singleton
    <3> QED
      BY <3>2
  <2> QED
    BY <2>3, <2>4
<1>2. AttributionsAgree
  BY <1>0 DEF AgreeInv, AttributionsAgree
<1>3. EstimatesFollowAccount
  BY <1>0 DEF EstimatesInv, EstimatesFollowAccount, Costly
<1> QED
  BY <1>0, <1>1, <1>2, <1>3

(***************************************************************************)
(* Every variable of the import has its type: a sync stands at one of its  *)
(* stages, with IDs only for the records of its batch.                     *)
(***************************************************************************)
THEOREM UsageTypeCorrect == UsageSpec => []UsageTypeOK
BY UsageInvHolds, UsageSafe, PTL

(***************************************************************************)
(* SyncCLIProxyUsageQueue, cliproxy_usage_sync.go:217: however many syncs  *)
(* and processes there are, whatever crashes, and with a lock that names   *)
(* only the process, two syncs never work at once unless a lock expired    *)
(* under one that worked.  An unexpired lock is what shows a sync that     *)
(* none of the others is at work.                                          *)
(***************************************************************************)
THEOREM OneSyncAtATimeHolds == UsageSpec => []OneSyncAtATime
BY UsageInvHolds, UsageSafe, PTL

(***************************************************************************)
(* cliproxy_usage_sync.go:198-199 and 380-382: a popped record that        *)
(* nothing befell, itself or the sync that has it, is in that sync's hands *)
(* or looked at, through the batch that is rolled back, the loop over its  *)
(* rows and the match of the records that got an ID, even while two syncs  *)
(* work side by side.                                                      *)
(***************************************************************************)
THEOREM EachFailsAloneHolds == UsageSpec => []EachFailsAlone
BY UsageInvHolds, UsageSafe, PTL

(***************************************************************************)
(* A matched record names the log entry that names it, and an attributed   *)
(* entry names a stored and matched record of the platform, or one that a  *)
(* rolled-back batch left an ID and no row: no record is attributed twice, *)
(* since it is in the hands of one sync and leaves them when it is.        *)
(***************************************************************************)
THEOREM AttributionsAgreeHolds == UsageSpec => []AttributionsAgree
BY UsageInvHolds, UsageSafe, PTL

(***************************************************************************)
(* upstream_cost.go:395 and cliproxy_usage_sync.go:584: with no edit under *)
(* way, none having overlapped another or failed, every attributed entry   *)
(* with a cost has the estimate of the account's rate, also one that was   *)
(* attributed between the steps of the edit; and an edit gives it also to  *)
(* those that were attributed while the account could not be read.  The    *)
(* invariant is about the entries an edit finds, those whose record spells *)
(* the provider as accounts do.                                            *)
(***************************************************************************)
THEOREM EstimatesFollowAccountHolds == UsageSpec => []EstimatesFollowAccount
BY UsageInvHolds, UsageSafe, PTL
=============================================================================
