--------------------------- MODULE ChannelCircuit ----------------------------
(***************************************************************************)
(* The circuit breaker of the upstream channels and the requests that use  *)
(* it.  A breaker is three atomics and no lock: a request loads and stores *)
(* them one at a time, so each load, store, Add, Swap and CompareAndSwap   *)
(* is a step here, and the results of other requests land in between.      *)
(*                                                                         *)
(* A text or media request checks every route, selects one, calls it,      *)
(* reports what came back, and tries again without the channels that       *)
(* failed.  Text and media handlers report the same answer differently,    *)
(* the WebSocket handshake checks and never reports, a "poll" (retrieval   *)
(* of a video, listing of models) reports and never checks, an "admin"     *)
(* force-closes.                                                           *)
(*                                                                         *)
(* Times are abstracted: the cooldown of an open breaker ends at some      *)
(* moment (Expire), and so do a rate limit and an unhealthy mark.  The     *)
(* failure counter is only compared with the threshold after Add, so it    *)
(* saturates one below.  The time of the last failure is never read and is *)
(* left out, and so are the weights: any admitted route can be selected.   *)
(***************************************************************************)
EXTENDS Integers, FiniteSets

CONSTANTS
  Channels,         \* the routes of the requested model, one per channel
  Requests,         \* goroutines
  Kind,             \* [Requests -> Kinds]
  Outcomes,         \* what the upstreams may answer
  OpenThreshold,    \* channel_circuit_open_threshold
  InitialCooldown,  \* channel_circuit_initial_cooldown_seconds
  MaxCooldown,      \* channel_circuit_max_cooldown_seconds
  Prompt,           \* no cooldown ends in the middle of a report or a check
  AtOnce,           \* bound: requests under way at a time
  MarksAtOnce,      \* bound: rate limits and unhealthy marks at a time
  NoChannel

Kinds == {"text", "media", "websocket", "poll", "admin"}

\* classifyUpstreamStatus; "fault" joins the transient, fatal and unknown
\* statuses with a failed dial, "unusable" is a channel that was removed or is
\* misconfigured: it is dropped before any call
AllOutcomes == {"success", "client_error", "rate_limit", "config_error",
                "auth_error", "fault", "unusable"}

\* loadCircuitConfig ignores a value below 1
ASSUME CircuitAssumption ==
  /\ Kind \in [Requests -> Kinds]
  /\ Outcomes \subseteq AllOutcomes
  /\ OpenThreshold \in Nat \ {0}
  /\ InitialCooldown \in Nat \ {0}
  /\ MaxCooldown \in Nat \ {0}
  /\ Prompt \in BOOLEAN
  /\ AtOnce \in Nat /\ MarksAtOnce \in Nat
  /\ NoChannel \notin Channels

VARIABLES
  failures,    \* [Channels -> consecutiveFailures, at most OpenThreshold - 1]
  state,       \* [Channels -> Closed or an open state]
  slot,        \* [Channels -> halfOpenInflight]
  limited,     \* channels with a rate-limit cooldown
  unhealthy,   \* channels marked unhealthy for the model
  \* the requests, each a function of Requests
  at,          \* its step
  on,          \* the channel it checks or calls
  todo,        \* routes it has yet to check
  avail,       \* routes it may select
  failed,      \* failedChannels
  held,        \* channels whose probe it has claimed and may yet report on
  trip,        \* its failure reached the threshold
  cooldown,    \* the cooldown it loaded
  again,       \* it tries another channel after its report
  \* history
  abandoned    \* channels whose taken slot nobody is going to report on

slotVars == <<slot, abandoned>>
breakerVars == <<failures, state, slotVars>>
markVars == <<limited, unhealthy>>
routeVars == <<todo, avail, failed, held>>
localVars == <<trip, cooldown, again>>
vars == <<breakerVars, markVars, at, on, routeVars, localVars>>

BackoffFactor == 2

\* the nil pointer, and the two forms of a stored circuitState; no stored state
\* has cooldownSec = 0
Closed == [cooldown |-> 0, expired |-> FALSE]
Opened(seconds) == [cooldown |-> seconds, expired |-> FALSE]
HalfOpen(seconds) == [cooldown |-> seconds, expired |-> TRUE]

Steps == {"idle", "filter", "claim", "calling", "zero", "clear", "release",
          "add", "swap", "inspect", "open", "extend", "reopen", "done"}

Init ==
  /\ failures = [c \in Channels |-> 0]
  /\ state = [c \in Channels |-> Closed]
  /\ slot = [c \in Channels |-> FALSE]
  /\ limited = {}
  /\ unhealthy = {}
  /\ at = [r \in Requests |-> "idle"]
  /\ on = [r \in Requests |-> NoChannel]
  /\ todo = [r \in Requests |-> {}]
  /\ avail = [r \in Requests |-> {}]
  /\ failed = [r \in Requests |-> {}]
  /\ held = [r \in Requests |-> {}]
  /\ trip = [r \in Requests |-> FALSE]
  /\ cooldown = [r \in Requests |-> 0]
  /\ again = [r \in Requests |-> FALSE]
  /\ abandoned = {}

-----------------------------------------------------------------------------
(***************************************************************************)
(* The checks of a request, route by route                                 *)
(***************************************************************************)
Go(r, from, to) == at[r] = from /\ at' = [at EXCEPT ![r] = to]

\* the attempt is over, with these channels excluded from the next one
NewAttempt(r, excluded) ==
  /\ failed' = [failed EXCEPT ![r] = excluded]
  /\ todo' = [todo EXCEPT ![r] = Channels \ excluded]
  /\ avail' = [avail EXCEPT ![r] = {}]
  /\ held' = [held EXCEPT ![r] = {}]
  /\ on' = [on EXCEPT ![r] = NoChannel]
  /\ again' = [again EXCEPT ![r] = FALSE]
  /\ UNCHANGED <<trip, cooldown>>

End(r) ==
  /\ failed' = [failed EXCEPT ![r] = {}]
  /\ held' = [held EXCEPT ![r] = {}]
  /\ on' = [on EXCEPT ![r] = NoChannel]
  /\ again' = [again EXCEPT ![r] = FALSE]
  /\ UNCHANGED <<todo, avail, trip, cooldown>>

Room == Cardinality({r \in Requests : at[r] # "idle"}) < AtOnce

StartChecking(r) ==
  /\ Room
  /\ Kind[r] \in {"text", "media", "websocket"}
  /\ Go(r, "idle", "filter")
  /\ NewAttempt(r, {})
  /\ UNCHANGED <<breakerVars, markVars>>

\* a poll calls the channel of its job, an admin force-closes one
StartAt(r, c) ==
  /\ Room
  /\ Kind[r] \in {"poll", "admin"}
  /\ Go(r, "idle", IF Kind[r] = "admin" THEN "zero" ELSE "calling")
  /\ on' = [on EXCEPT ![r] = c]
  /\ UNCHANGED <<breakerVars, markVars, routeVars, localVars>>

\* what is asked before the breaker: only text requests ask for the model first
Skips(r, c) == c \in limited \/ (Kind[r] = "text" /\ c \in unhealthy)

\* the media handlers ask for the model after the breaker
Usable(r, c) == Kind[r] = "media" => c \notin unhealthy

Refuse(r, c) == todo' = [todo EXCEPT ![r] = @ \ {c}] /\ UNCHANGED avail

Admit(r, c) ==
  /\ todo' = [todo EXCEPT ![r] = @ \ {c}]
  /\ avail' = IF Usable(r, c) THEN [avail EXCEPT ![r] = @ \cup {c}] ELSE avail

\* IsChannelCircuitOpen, first part: the state is loaded and compared with now
LookRefused(r, c) ==
  /\ at[r] = "filter"
  /\ c \in todo[r]
  /\ Skips(r, c) \/ (state[c] # Closed /\ ~ state[c].expired)
  /\ Refuse(r, c)
  /\ UNCHANGED <<breakerVars, markVars, at, on, failed, held, localVars>>

LookClosed(r, c) ==
  /\ at[r] = "filter"
  /\ c \in todo[r]
  /\ ~ Skips(r, c) /\ state[c] = Closed
  /\ Admit(r, c)
  /\ UNCHANGED <<breakerVars, markVars, at, on, failed, held, localVars>>

LookHalfOpen(r, c) ==
  /\ Go(r, "filter", "claim")
  /\ c \in todo[r]
  /\ ~ Skips(r, c) /\ state[c].expired
  /\ on' = [on EXCEPT ![r] = c]
  /\ UNCHANGED <<breakerVars, markVars, routeVars, localVars>>

\* its second part, the CompareAndSwap of the probe slot
Claim(r) ==
  /\ Go(r, "claim", "filter")
  /\ on' = [on EXCEPT ![r] = NoChannel]
  /\ slot' = [slot EXCEPT ![on[r]] = TRUE]
  /\ IF slot[on[r]]
       THEN Refuse(r, on[r]) /\ UNCHANGED held
       ELSE Admit(r, on[r]) /\ held' = [held EXCEPT ![r] = @ \cup {on[r]}]
  /\ UNCHANGED <<failures, state, abandoned, markVars, failed, localVars>>

\* one route is selected; the slots taken of the others are not given back
Select(r, c) ==
  /\ todo[r] = {}
  /\ c \in avail[r]
  /\ Go(r, "filter", "calling")
  /\ on' = [on EXCEPT ![r] = c]
  /\ avail' = [avail EXCEPT ![r] = {}]
  /\ held' = [held EXCEPT ![r] = @ \cap {c}]
  /\ abandoned' = abandoned \cup (held[r] \ {c})
  /\ UNCHANGED <<failures, state, slot, markVars, todo, failed, localVars>>

\* no route is left
Exhausted(r) ==
  /\ todo[r] = {}
  /\ avail[r] = {}
  /\ Go(r, "filter", "idle")
  /\ End(r)
  /\ abandoned' = abandoned \cup held[r]
  /\ UNCHANGED <<failures, state, slot, markVars>>

-----------------------------------------------------------------------------
(***************************************************************************)
(* The answer of the upstream, and which report it leads to                *)
(***************************************************************************)
\* mutant: a request-side error leaves the probe slot alone
FirstStepKeepsProbe(kind, outcome) ==
  CASE outcome = "success" /\ kind \in {"text", "media"} -> "zero"
    [] outcome = "client_error" /\ kind = "media"        -> "zero"
    [] outcome = "fault" /\ kind # "websocket"           -> "add"
    [] outcome = "auth_error" /\ kind = "media"          -> "add"
    [] kind = "text" /\ outcome \in {"rate_limit", "config_error",
                                     "auth_error"}       -> "release"
    [] OTHER                                             -> "done"

\* "zero": MarkChannelSuccess, "add": MarkChannelFailure,
\* "release": releaseChannelProbe, "done": nothing
FirstStep(kind, outcome) ==
  CASE outcome = "success" /\ kind \in {"text", "media"} -> "zero"
    [] outcome = "client_error" /\ kind = "media"        -> "zero"
    [] outcome = "fault" /\ kind # "websocket"           -> "add"
    [] outcome = "auth_error" /\ kind = "media"          -> "add"
    [] kind = "text" /\ outcome \in {"client_error", "rate_limit",
                                     "config_error", "auth_error"}
                                                         -> "release"
    [] OTHER                                             -> "done"

\* the request turns to the other channels
TriesAgain(kind, outcome) ==
  kind \in {"text", "media"} /\ outcome \notin {"success", "client_error"}

\* setChannelRateLimitCooldown needs a Retry-After; markChannelModelUnhealthy
\* is spared for a plain 404 of the sidecar
Unmarked == Cardinality(limited) + Cardinality(unhealthy) < MarksAtOnce

Mark(r, outcome) ==
  \/ /\ outcome = "rate_limit" /\ Unmarked
     /\ Kind[r] \in {"text", "media", "poll"}
     /\ limited' = limited \cup {on[r]}
     /\ UNCHANGED unhealthy
  \/ /\ outcome = "config_error" /\ Unmarked
     /\ Kind[r] \in {"text", "media"}
     /\ unhealthy' = unhealthy \cup {on[r]}
     /\ UNCHANGED limited
  \/ /\ outcome = "config_error" /\ Unmarked => Kind[r] # "media"
     /\ UNCHANGED markVars

\* the answers that no handler reports: the WebSocket handshake never does,
\* the media handlers turn away from a limited or misconfigured channel, and
\* an unusable one is dropped
NeverReports(kind, outcome) ==
  \/ kind = "websocket"
  \/ outcome = "unusable"
  \/ kind = "media" /\ outcome \in {"rate_limit", "config_error"}

Answer(r, outcome) ==
  /\ Go(r, "calling", FirstStep(Kind[r], outcome))
  /\ again' = [again EXCEPT ![r] = TriesAgain(Kind[r], outcome)]
  /\ Mark(r, outcome)
  /\ abandoned' = IF NeverReports(Kind[r], outcome)
                    THEN abandoned \cup held[r] ELSE abandoned
  /\ UNCHANGED <<failures, state, slot, on, routeVars, trip, cooldown>>

\* the report is made, and the next attempt starts ...
TryAgain(r) ==
  /\ again[r]
  /\ Go(r, "done", "filter")
  /\ NewAttempt(r, failed[r] \cup {on[r]})
  /\ UNCHANGED <<breakerVars, markVars>>

\* ... or not, also when the client leaves during the backoff
Leave(r) ==
  /\ Go(r, "done", "idle")
  /\ End(r)
  /\ UNCHANGED <<breakerVars, markVars>>

-----------------------------------------------------------------------------
(***************************************************************************)
(* MarkChannelSuccess stores three atomics in turn                         *)
(***************************************************************************)
ZeroFailures(r) ==
  /\ Go(r, "zero", "clear")
  /\ failures' = [failures EXCEPT ![on[r]] = 0]
  /\ UNCHANGED <<state, slotVars, markVars, on, routeVars, localVars>>

ClearState(r) ==
  /\ Go(r, "clear", "release")
  /\ state' = [state EXCEPT ![on[r]] = Closed]
  /\ UNCHANGED <<failures, slotVars, markVars, on, routeVars, localVars>>

\* the last store of every report, and all of releaseChannelProbe; the locals
\* of the report are gone
ReleaseProbe(r) ==
  /\ Go(r, "release", "done")
  /\ slot' = [slot EXCEPT ![on[r]] = FALSE]
  /\ abandoned' = abandoned \ {on[r]}
  /\ trip' = [trip EXCEPT ![r] = FALSE]
  /\ cooldown' = [cooldown EXCEPT ![r] = 0]
  /\ UNCHANGED <<failures, state, markVars, on, routeVars, again>>

-----------------------------------------------------------------------------
(***************************************************************************)
(* MarkChannelFailure: Add, Swap, then the threshold                       *)
(***************************************************************************)
AddFailure(r) ==
  LET n == failures[on[r]] + 1
  IN /\ Go(r, "add", "swap")
     /\ failures' = [failures EXCEPT ![on[r]] =
                       IF n >= OpenThreshold THEN OpenThreshold - 1 ELSE n]
     /\ trip' = [trip EXCEPT ![r] = n >= OpenThreshold]
     /\ UNCHANGED <<state, slotVars, markVars, on, routeVars, cooldown, again>>

\* whoever finds the slot taken counts as the probe
SwapProbe(r) ==
  /\ Go(r, "swap", IF slot[on[r]] THEN "extend"
                    ELSE IF trip[r] THEN "inspect" ELSE "done")
  /\ slot' = [slot EXCEPT ![on[r]] = FALSE]
  /\ abandoned' = abandoned \ {on[r]}
  /\ UNCHANGED <<failures, state, markVars, on, routeVars, localVars>>

Inspect(r) ==
  /\ Go(r, "inspect", IF state[on[r]] = Closed THEN "open" ELSE "extend")
  /\ UNCHANGED <<breakerVars, markVars, on, routeVars, localVars>>

\* openCircuit
OpenCircuit(r) ==
  /\ Go(r, "open", "release")
  /\ state' = [state EXCEPT ![on[r]] = Opened(InitialCooldown)]
  /\ UNCHANGED <<failures, slotVars, markVars, on, routeVars, localVars>>

\* extendCircuitOpen: the cooldown is loaded ...
LoadCooldown(r) ==
  /\ Go(r, "extend", "reopen")
  /\ cooldown' = [cooldown EXCEPT ![r] = IF state[on[r]].cooldown = 0
                                           THEN InitialCooldown
                                           ELSE state[on[r]].cooldown]
  /\ UNCHANGED <<breakerVars, markVars, on, routeVars, trip, again>>

\* ... multiplied and capped ...
BackedOff(seconds) ==
  IF seconds * BackoffFactor > MaxCooldown THEN MaxCooldown
                                           ELSE seconds * BackoffFactor

\* ... and stored in a new state
Reopen(r) ==
  /\ Go(r, "reopen", "release")
  /\ state' = [state EXCEPT ![on[r]] = Opened(BackedOff(cooldown[r]))]
  /\ UNCHANGED <<failures, slotVars, markVars, on, routeVars, localVars>>

-----------------------------------------------------------------------------
(***************************************************************************)
(* Time.  A cooldown lasts at least a second: if Prompt holds, a goroutine *)
(* is not suspended for that long between two of its atomics.              *)
(***************************************************************************)
Expire(c) ==
  /\ Prompt => \A r \in Requests :
                 at[r] \in {"idle", "filter", "calling", "done"}
  /\ state[c] # Closed
  /\ ~ state[c].expired
  /\ state' = [state EXCEPT ![c] = HalfOpen(@.cooldown)]
  /\ UNCHANGED <<failures, slotVars, markVars, at, on, routeVars, localVars>>

LimitEnds(c) ==
  /\ c \in limited
  /\ limited' = limited \ {c}
  /\ UNCHANGED <<breakerVars, unhealthy, at, on, routeVars, localVars>>

MarkEnds(c) ==
  /\ c \in unhealthy
  /\ unhealthy' = unhealthy \ {c}
  /\ UNCHANGED <<breakerVars, limited, at, on, routeVars, localVars>>

-----------------------------------------------------------------------------
Check(r) ==
  \/ \E c \in Channels : \/ LookRefused(r, c)
                         \/ LookClosed(r, c)
                         \/ LookHalfOpen(r, c)
                         \/ Select(r, c)
  \/ Claim(r)
  \/ Exhausted(r)

Report(r) ==
  \/ ZeroFailures(r) \/ ClearState(r) \/ ReleaseProbe(r)
  \/ AddFailure(r) \/ SwapProbe(r) \/ Inspect(r) \/ OpenCircuit(r)
  \/ LoadCooldown(r) \/ Reopen(r)
  \/ TryAgain(r) \/ Leave(r)

Next ==
  \/ \E r \in Requests :
       \/ StartChecking(r)
       \/ \E c \in Channels : StartAt(r, c)
       \/ Check(r)
       \/ \E outcome \in Outcomes : Answer(r, outcome)
       \/ Report(r)
  \/ \E c \in Channels : Expire(c) \/ LimitEnds(c) \/ MarkEnds(c)

\* no fairness: a stream has no timeout, and nothing is claimed of progress
Safety == Init /\ [][Next]_vars

-----------------------------------------------------------------------------
\* a request past its checks is at a channel; what is stored has a cooldown
TypeOK ==
  /\ failures \in [Channels -> 0..OpenThreshold]
  /\ state \in [Channels -> {Closed} \cup [cooldown : Nat \ {0},
                                           expired : BOOLEAN]]
  /\ slot \in [Channels -> BOOLEAN]
  /\ limited \subseteq Channels
  /\ unhealthy \subseteq Channels
  /\ at \in [Requests -> Steps]
  /\ on \in [Requests -> Channels \cup {NoChannel}]
  /\ \A r \in Requests : on[r] = NoChannel => at[r] \in {"idle", "filter"}
  /\ todo \in [Requests -> SUBSET Channels]
  /\ avail \in [Requests -> SUBSET Channels]
  /\ failed \in [Requests -> SUBSET Channels]
  /\ held \in [Requests -> SUBSET Channels]
  /\ trip \in [Requests -> BOOLEAN]
  /\ cooldown \in [Requests -> Nat]
  /\ again \in [Requests -> BOOLEAN]
  /\ abandoned \subseteq Channels

(***************************************************************************)
(* Whatever the order in which results arrive and overwrite each other, a  *)
(* channel is never shut out for longer than the larger of the two         *)
(* configured durations, nor for less than the smaller.                    *)
(***************************************************************************)
CooldownWithinCap ==
  \A c \in Channels :
    state[c] # Closed =>
      /\ \/ state[c].cooldown <= InitialCooldown
         \/ state[c].cooldown <= MaxCooldown
      /\ \/ state[c].cooldown >= InitialCooldown
         \/ state[c].cooldown >= MaxCooldown

\* the request is under way, and its claim of these slots is not yet reported
Probing(r) == IF at[r] = "done" THEN {} ELSE held[r]

(***************************************************************************)
(* channel_circuit.go:136, "a probe is already running": a probe slot that *)
(* is taken is held by a request that is still going to report, unless it  *)
(* was abandoned in one of the ways the handlers have: another route was   *)
(* selected, or NeverReports.  Nothing else that requests, polls and       *)
(* admins do to each other loses a slot, and an abandoned one is excused   *)
(* only until a report on its channel frees it.                            *)
(***************************************************************************)
ProbeIsRunning ==
  \A c \in Channels :
    slot[c] => c \in abandoned \/ \E r \in Requests : c \in Probing(r)
=============================================================================
