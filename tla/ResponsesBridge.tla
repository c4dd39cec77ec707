--------------------------- MODULE ResponsesBridge ---------------------------
(***************************************************************************)
(* The WebSocket bridge of /v1/responses.  The handshake authenticates the *)
(* client and pins a channel; the bridge takes one of the user's slots,    *)
(* dials the channel and runs two pumps, one goroutine per direction.  The *)
(* pump towards the client books a turn for each response.completed it has *)
(* delivered.  The pumps share lastModel, sawCreate and turnsBilled, each  *)
(* access under a mutex, and a context that either cancels when it ends.   *)
(*                                                                         *)
(* A pump tests the context, then blocks in a read: "top" is the test,     *)
(* "read" the read.  How much the user pays for a booked turn is the       *)
(* subject of SubscriptionQuota and Wallet; here an entry is charged (a    *)
(* plan covers the turn, or the balance pays for it) or pending, and the   *)
(* writing of each may fail.  A refused handshake changes nothing and is   *)
(* left out.  The process may die at any moment: the rows stay, the        *)
(* sessions and the counts of slots are gone.                              *)
(*                                                                         *)
(* The client and the upstream are external.  The upstream answers the     *)
(* turns of a session in order, a turn may end without an answer, and an   *)
(* answer names any model or none, whatever the client asked for.          *)
(***************************************************************************)
EXTENDS Integers, Sequences, FiniteSets

CONSTANTS
  Users,
  Sessions,
  Owner,       \* [Sessions -> Users]
  AskModels,    \* the models that clients name,
  ServeModels,  \* and those that upstreams do
  MaxConns,    \* wsMaxConnsPerUser
  MaxTurns,    \* [Sessions -> Nat], bounds the response.create of a client
  NoModel      \* the empty string

ASSUME BridgeAssumption ==
  /\ Owner \in [Sessions -> Users]
  /\ MaxConns \in Nat \ {0}
  /\ MaxTurns \in [Sessions -> Nat]
  /\ NoModel \notin AskModels \cup ServeModels

VARIABLES
  slots,        \* [Users -> wsUserConnCount]
  \* the sessions, each a function of Sessions
  handler,      \* where its handler is
  client,       \* pumpClientToUpstream
  server,       \* pumpUpstreamToClient
  over,         \* its context is done
  clientUp,     \* the connection of the client is alive
  upstreamUp,   \* the connection of the upstream is alive
  asked,        \* the models of the response.create sent upstream, turn by turn
  answered,     \* how many of these turns the upstream has ended
  frame,        \* the response.completed being booked
  lastModel, sawCreate, turnsBilled,
  ledger,       \* its billing entries
  delivered,    \* history: the response.completed the client was given
  crossed,      \* history: the turns asked for, or overtaken by a request, before
                \* the answer of the other was booked
  unbooked      \* history: the turns left without an entry when they were booked, as
                \* there was nothing to bill or it was lost to a fault of the database

stateVars == <<lastModel, sawCreate, turnsBilled>>
connVars == <<clientUp, upstreamUp>>
askVars == <<asked, answered, crossed>>
bookVars == <<frame, ledger, delivered, unbooked>>
bridgeVars == <<slots, handler, client, server, over, connVars, askVars,
                stateVars, bookVars>>

NoFrame == [turn |-> 0]

TurnsOf(s) == 1 .. MaxTurns[s]
Names == AskModels \cup ServeModels \cup {NoModel}
Answers(s) == [turn : TurnsOf(s), model : ServeModels \cup {NoModel}]

\* an answer being booked, by its own model or another
Frames(s) == [turn : TurnsOf(s), model : Names]

\* the entry of a turn, or, with turn 0, of a session without one
Entries(s) == [turn : 0 .. MaxTurns[s], model : Names, state : {"charged", "pending"}]

BridgeInit ==
  /\ slots = [u \in Users |-> 0]
  /\ handler = [s \in Sessions |-> "new"]
  /\ client = [s \in Sessions |-> "off"]
  /\ server = [s \in Sessions |-> "off"]
  /\ over = [s \in Sessions |-> FALSE]
  /\ clientUp = [s \in Sessions |-> TRUE]
  /\ upstreamUp = [s \in Sessions |-> TRUE]
  /\ asked = [s \in Sessions |-> <<>>]
  /\ answered = [s \in Sessions |-> 0]
  /\ frame = [s \in Sessions |-> NoFrame]
  /\ lastModel = [s \in Sessions |-> NoModel]
  /\ sawCreate = [s \in Sessions |-> FALSE]
  /\ turnsBilled = [s \in Sessions |-> 0]
  /\ ledger = [s \in Sessions |-> <<>>]
  /\ delivered = [s \in Sessions |-> {}]
  /\ crossed = [s \in Sessions |-> {}]
  /\ unbooked = [s \in Sessions |-> {}]

-----------------------------------------------------------------------------
(***************************************************************************)
(* The handler.  The handshake looks at the limit and takes no slot, as an *)
(* upgrade that fails would not give it back; the bridge takes it.         *)
(***************************************************************************)
HandlerGoes(s, from, to) == handler[s] = from /\ handler' = [handler EXCEPT ![s] = to]

\* mutant: the handshake's look is taken for the reservation
HasRoomChecked(s) == slots[Owner[s]] < MaxConns \/ handler[s] = "upgrading"

HasRoom(s) == slots[Owner[s]] < MaxConns

\* the deferred Close of the client's connection
ClosesClient(s) == clientUp' = [clientUp EXCEPT ![s] = FALSE]

Handshake(s) ==
  /\ HandlerGoes(s, "new", "upgrading")
  /\ HasRoom(s)
  /\ UNCHANGED <<slots, client, server, over, connVars, askVars,
                 stateVars, bookVars>>

UpgradeFails(s) ==
  /\ HandlerGoes(s, "upgrading", "closed")
  /\ ClosesClient(s)
  /\ UNCHANGED <<slots, client, server, over, upstreamUp, askVars, stateVars,
                 bookVars>>

Reserve(s) ==
  /\ HandlerGoes(s, "upgrading", IF HasRoom(s) THEN "dialing" ELSE "closed")
  /\ IF HasRoom(s)
       THEN slots' = [slots EXCEPT ![Owner[s]] = @ + 1] /\ UNCHANGED clientUp
       ELSE ClosesClient(s) /\ UNCHANGED slots
  /\ UNCHANGED <<client, server, over, upstreamUp, askVars, stateVars, bookVars>>

Released(s) == [slots EXCEPT ![Owner[s]] = @ - 1]

\* a base URL that cannot be used, or an upstream that refuses or is not reached
DialFails(s) ==
  /\ HandlerGoes(s, "dialing", "closed")
  /\ slots' = Released(s)
  /\ ClosesClient(s)
  /\ UNCHANGED <<client, server, over, upstreamUp, askVars, stateVars, bookVars>>

Dialed(s) ==
  /\ HandlerGoes(s, "dialing", "open")
  /\ client' = [client EXCEPT ![s] = "top"]
  /\ server' = [server EXCEPT ![s] = "top"]
  /\ UNCHANGED <<slots, over, connVars, askVars, stateVars, bookVars>>

\* mutant: the last request of every session is recorded
UnrecordedAlways(s) == sawCreate[s] /\ lastModel[s] # NoModel

\* the session asked for something and booked nothing
Unrecorded(s) == sawCreate[s] /\ turnsBilled[s] = 0 /\ lastModel[s] # NoModel

Booked(s) == {ledger[s][i].turn : i \in DOMAIN ledger[s]}

With(s, turn, model, state) ==
  [ledger EXCEPT ![s] = Append(@, [turn |-> turn, model |-> model, state |-> state])]

\* the last entry of a turn: writeBillingWithRetry and its like make three attempts,
\* and then the entry is lost
Write(s, turn, model, state, written) ==
  /\ ledger' = IF written THEN With(s, turn, model, state) ELSE ledger
  /\ unbooked' = IF written \/ turn \in Booked(s) THEN unbooked
                 ELSE [unbooked EXCEPT ![s] = @ \cup {turn}]

\* both pumps are gone: the closing entry, then the connections and the slot
Close(s, written) ==
  /\ HandlerGoes(s, "open", "closed")
  /\ client[s] = "end" /\ server[s] = "end"
  /\ IF Unrecorded(s)
       THEN Write(s, 0, lastModel[s], "pending", written)
       ELSE UNCHANGED <<ledger, unbooked>>
  /\ slots' = Released(s)
  /\ ClosesClient(s)
  /\ upstreamUp' = [upstreamUp EXCEPT ![s] = FALSE]
  /\ UNCHANGED <<client, server, over, askVars, stateVars, frame, delivered>>

-----------------------------------------------------------------------------
(***************************************************************************)
(* pumpClientToUpstream                                                    *)
(***************************************************************************)
ClientGoes(s, from, to) ==
  /\ client[s] = from
  /\ client' = [client EXCEPT ![s] = to]
  /\ over' = [over EXCEPT ![s] = @ \/ to = "end"]

\* mutant: the pump does not ask whether the session is over
AfterTest(s) == "read"

\* what the pump does after its test
AfterTop(s) == IF over[s] THEN "end" ELSE "read"

ClientTop(s) ==
  /\ ClientGoes(s, "top", AfterTop(s))
  /\ UNCHANGED <<slots, handler, server, connVars, askVars, stateVars, bookVars>>

\* the turns asked for and not answered, and the one being booked
Outstanding(s) ==
  {t \in TurnsOf(s) : t = frame[s].turn \/ t \in (answered[s] + 1) .. Len(asked[s])}

\* mutant: only the first model that the client names is noted
NamedFirst(s, model) == IF lastModel[s] = NoModel THEN model ELSE lastModel[s]

Named(s, model) == IF model = NoModel THEN lastModel[s] ELSE model

\* a response.create: noted, then sent upstream
Create(s, model) ==
  /\ clientUp[s]
  /\ Len(asked[s]) < MaxTurns[s]
  /\ ClientGoes(s, "read", IF upstreamUp[s] THEN "top" ELSE "end")
  /\ sawCreate' = [sawCreate EXCEPT ![s] = TRUE]
  /\ lastModel' = [lastModel EXCEPT ![s] = Named(s, model)]
  /\ asked' = IF upstreamUp[s] THEN [asked EXCEPT ![s] = Append(@, model)] ELSE asked
  /\ crossed' = IF Outstanding(s) = {} THEN crossed
                ELSE [crossed EXCEPT ![s] = @ \cup Outstanding(s) \cup {Len(asked[s]) + 1}]
  /\ UNCHANGED <<slots, handler, server, connVars, answered, turnsBilled, bookVars>>

\* any other frame of the client
ClientFrame(s) ==
  /\ clientUp[s]
  /\ ClientGoes(s, "read", IF upstreamUp[s] THEN "top" ELSE "end")
  /\ UNCHANGED <<slots, handler, server, connVars, askVars, stateVars, bookVars>>

\* more than its frames a minute: it is told so, unless that fails, and the pump
\* ends.  The other pump may be writing to the same connection, where the library
\* gives up with a panic, one of the ways to die (ProcessDies).
ClientTooFast(s) ==
  /\ clientUp[s]
  /\ ClientGoes(s, "read", "end")
  /\ UNCHANGED <<slots, handler, server, connVars, askVars, stateVars, bookVars>>

\* the client is gone, quiet for five minutes, or sends too much
ClientEnds(s) ==
  /\ ClientGoes(s, "read", "end")
  /\ UNCHANGED <<slots, handler, server, connVars, askVars, stateVars, bookVars>>

-----------------------------------------------------------------------------
(***************************************************************************)
(* pumpUpstreamToClient.  It has no deadline: a read ends with a frame or  *)
(* with the connection.                                                    *)
(***************************************************************************)
ServerGoes(s, from, to) ==
  /\ server[s] = from
  /\ server' = [server EXCEPT ![s] = to]
  /\ over' = [over EXCEPT ![s] = @ \/ to = "end"]

ServerTop(s) ==
  /\ ServerGoes(s, "top", AfterTop(s))
  /\ UNCHANGED <<slots, handler, client, connVars, askVars, stateVars, bookVars>>

\* the upstream ends a turn with response.completed; the client is written to first
Complete(s, f) ==
  /\ upstreamUp[s]
  /\ answered[s] < Len(asked[s])
  /\ f.turn = answered[s] + 1
  /\ answered' = [answered EXCEPT ![s] = f.turn]
  /\ ServerGoes(s, "read", IF clientUp[s] THEN "book" ELSE "end")
  /\ IF clientUp[s]
       THEN /\ frame' = [frame EXCEPT ![s] = f]
            /\ delivered' = [delivered EXCEPT ![s] = @ \cup {f}]
       ELSE UNCHANGED <<frame, delivered>>
  /\ UNCHANGED <<slots, handler, client, connVars, asked, crossed, stateVars,
                 ledger, unbooked>>

\* any other frame; one of these may be the end of a turn that failed
ServerFrame(s) ==
  /\ upstreamUp[s]
  /\ ServerGoes(s, "read", IF clientUp[s] THEN "top" ELSE "end")
  /\ \/ UNCHANGED answered
     \/ /\ answered[s] < Len(asked[s])
        /\ answered' = [answered EXCEPT ![s] = @ + 1]
  /\ UNCHANGED <<slots, handler, client, connVars, asked, crossed, stateVars,
                 bookVars>>

ServerEnds(s) ==
  /\ ~ upstreamUp[s]
  /\ ServerGoes(s, "read", "end")
  /\ UNCHANGED <<slots, handler, client, connVars, askVars, stateVars, bookVars>>

\* the model of the turn: the upstream's word, or the last one noted
ModelOf(s) == IF frame[s].model = NoModel THEN lastModel[s] ELSE frame[s].model

ServerBooks(s, from, to) ==
  /\ server[s] = from
  /\ server' = [server EXCEPT ![s] = to]
  /\ UNCHANGED <<slots, handler, client, over, connVars, askVars, stateVars, delivered>>

\* The price of a turn: none (an answer without usage, no route of the model on the
\* pinned channel at that moment, or a cost that cannot be computed), tokens that
\* cost nothing, no tokens, or an amount.
Prices == {"unpriced", "free", "empty", "positive"}

\* a turn without a model or a price is for an admin
Book(s, price, written) ==
  LET unmetered == ModelOf(s) = NoModel \/ price = "unpriced"
  IN /\ ServerBooks(s, "book", IF unmetered THEN "note"
                               ELSE IF price = "positive" THEN "charge" ELSE "cover")
     /\ frame' = [frame EXCEPT ![s].model = ModelOf(s)]
     /\ IF unmetered
          THEN Write(s, frame[s].turn, ModelOf(s), "pending", written)
          ELSE /\ ledger' = IF price = "free" /\ written
                             THEN With(s, frame[s].turn, ModelOf(s), "pending") ELSE ledger
               /\ UNCHANGED unbooked

\* mutant: what a plan covers is charged to the balance as well
PayTwice(s, state, written) ==
  /\ ServerBooks(s, "charge", "note")
  /\ UNCHANGED <<frame, unbooked>>
  /\ LET e == [turn |-> frame[s].turn, model |-> frame[s].model, state |-> state]
     IN ledger' = [ledger EXCEPT ![s] = @ \o <<e, e>>]

\* a plan covers the turn or the balance pays for it; it is pending when the plans
\* cannot be loaded, the user does not let the balance pay, or it is too small
Pay(s, state, written) ==
  /\ ServerBooks(s, "charge", "note")
  /\ Write(s, frame[s].turn, frame[s].model, state, written)
  /\ UNCHANGED frame

\* nothing to pay: the plans are asked all the same, and without one it is over
Cover(s, state, written) ==
  /\ ServerBooks(s, "cover", "note")
  /\ Write(s, frame[s].turn, frame[s].model, state, written)
  /\ UNCHANGED frame

CoverNothing(s) ==
  /\ ServerBooks(s, "cover", "note")
  /\ Write(s, frame[s].turn, frame[s].model, "pending", FALSE)
  /\ UNCHANGED frame

Note(s) ==
  /\ server[s] = "note"
  /\ server' = [server EXCEPT ![s] = "top"]
  /\ turnsBilled' = [turnsBilled EXCEPT ![s] = @ + 1]
  /\ lastModel' = [lastModel EXCEPT ![s] = IF frame[s].model = NoModel THEN @ ELSE frame[s].model]
  /\ frame' = [frame EXCEPT ![s] = NoFrame]
  /\ UNCHANGED <<slots, handler, client, over, connVars, askVars, sawCreate,
                 ledger, delivered, unbooked>>

-----------------------------------------------------------------------------
(***************************************************************************)
(* What happens to a session: its hour ends, a connection is lost, the     *)
(* process dies and starts again without it.                               *)
(***************************************************************************)
HourEnds(s) ==
  /\ handler[s] = "open" /\ ~ over[s]
  /\ over' = [over EXCEPT ![s] = TRUE]
  /\ UNCHANGED <<slots, handler, client, server, connVars, askVars, stateVars,
                 bookVars>>

ClientLeaves(s) ==
  /\ handler[s] \in {"upgrading", "dialing", "open"} /\ clientUp[s]
  /\ clientUp' = [clientUp EXCEPT ![s] = FALSE]
  /\ UNCHANGED <<slots, handler, client, server, over, upstreamUp, askVars,
                 stateVars, bookVars>>

UpstreamLeaves(s) ==
  /\ handler[s] = "open" /\ upstreamUp[s]
  /\ upstreamUp' = [upstreamUp EXCEPT ![s] = FALSE]
  /\ UNCHANGED <<slots, handler, client, server, over, clientUp, askVars,
                 stateVars, bookVars>>

Alive(s) == handler[s] \in {"upgrading", "dialing", "open"}

ProcessDies ==
  LET gone(f, x) == [s \in Sessions |-> IF Alive(s) THEN x ELSE f[s]]
  IN /\ \E s \in Sessions : Alive(s)
     /\ slots' = [u \in Users |-> 0]
     /\ handler' = gone(handler, "dead")
     /\ client' = gone(client, "off")
     /\ server' = gone(server, "off")
     /\ over' = gone(over, TRUE)
     /\ clientUp' = gone(clientUp, FALSE)
     /\ upstreamUp' = gone(upstreamUp, FALSE)
     /\ frame' = gone(frame, NoFrame)
     /\ UNCHANGED <<askVars, stateVars, ledger, delivered, unbooked>>

-----------------------------------------------------------------------------
HandleSession(s) ==
  \/ Reserve(s) \/ UpgradeFails(s) \/ DialFails(s) \/ Dialed(s)
  \/ \E written \in BOOLEAN : Close(s, written)

Settle(s) ==
  /\ server[s] \in {"book", "charge", "cover"}
  /\ \E written \in BOOLEAN :
       \/ \E price \in Prices : Book(s, price, written)
       \/ \E state \in {"charged", "pending"} :
            Pay(s, state, written) \/ Cover(s, state, written)

PumpServer(s) == ServerTop(s) \/ ServerEnds(s) \/ Settle(s) \/ CoverNothing(s) \/ Note(s)

BridgeNext ==
  \/ \E s \in Sessions :
       \/ Handshake(s) \/ HandleSession(s)
       \/ ClientTop(s) \/ ClientFrame(s) \/ ClientTooFast(s) \/ ClientEnds(s)
       \/ \E model \in AskModels \cup {NoModel} : Create(s, model)
       \/ PumpServer(s) \/ ServerFrame(s)
       \/ \E f \in Answers(s) : Complete(s, f)
       \/ HourEnds(s) \/ ClientLeaves(s) \/ UpstreamLeaves(s)
  \/ ProcessDies

(***************************************************************************)
(* Goroutines go on, a dial has a timeout, and so has a read from the      *)
(* client: a pump that is still reading when its session is over or its    *)
(* client is gone stops within five minutes, unless a frame comes first.   *)
(* Nothing is assumed of the upstream.                                     *)
(***************************************************************************)
BridgeSpec ==
  /\ BridgeInit /\ [][BridgeNext]_bridgeVars
  /\ \A s \in Sessions :
       /\ WF_bridgeVars(HandleSession(s))
       /\ WF_bridgeVars(ClientTop(s) \/ ((over[s] \/ ~ clientUp[s]) /\ ClientEnds(s)))
       /\ WF_bridgeVars(PumpServer(s))

-----------------------------------------------------------------------------
BridgeTypeOK ==
  /\ slots \in [Users -> Nat]
  /\ handler \in [Sessions -> {"new", "upgrading", "dialing", "open", "closed", "dead"}]
  /\ client \in [Sessions -> {"off", "top", "read", "end"}]
  /\ server \in [Sessions -> {"off", "top", "read", "book", "charge", "cover", "note", "end"}]
  /\ {over, clientUp, upstreamUp, sawCreate} \subseteq [Sessions -> BOOLEAN]
  /\ lastModel \in [Sessions -> Names]
  /\ \A s \in Sessions :
       /\ asked[s] \in Seq(Names) /\ Len(asked[s]) <= MaxTurns[s]
       /\ answered[s] \in 0 .. Len(asked[s])
       /\ turnsBilled[s] \in 0 .. answered[s]
       /\ frame[s] \in Frames(s) \cup {NoFrame}
       /\ ledger[s] \in Seq(Entries(s))
       /\ delivered[s] \subseteq Answers(s)
       /\ crossed[s] \subseteq TurnsOf(s)
       /\ unbooked[s] \subseteq 0 .. MaxTurns[s]

Bridges(u) == {s \in Sessions : Owner[s] = u /\ handler[s] \in {"dialing", "open"}}

(***************************************************************************)
(* responses_websocket.go:62, at most wsMaxConnsPerUser connections of a   *)
(* user: the count is that of its bridges, whichever way they end, however *)
(* many handshakes passed the check at the same time.                      *)
(***************************************************************************)
SlotsAreBridges ==
  \A u \in Users : slots[u] = Cardinality(Bridges(u)) /\ slots[u] <= MaxConns

DeliveredTurns(s) == {f.turn : f \in delivered[s]}

(***************************************************************************)
(* responses_websocket.go:17-21: when a session is over, every answer the  *)
(* client was given has an entry, or had nothing to bill, or lost its      *)
(* entry to a fault; none is charged twice, and none that the client was   *)
(* not given has an entry; the entry of a session that was given none,     *)
(* which an admin settles by hand, stands beside no other.  Nothing is     *)
(* said of the sessions of a process that died: between delivery (613) and *)
(* booking (650) an answer is only in its memory.                          *)
(***************************************************************************)
DeliveredIsBooked ==
  \A s \in Sessions :
    /\ Booked(s) \ {0} \subseteq DeliveredTurns(s)
    /\ \A i, j \in DOMAIN ledger[s] :
         /\ ledger[s][i].state = "charged" /\ ledger[s][j].state = "charged"
         /\ ledger[s][i].turn = ledger[s][j].turn
         => i = j
    /\ 0 \in Booked(s) => Len(ledger[s]) = 1 /\ delivered[s] = {}
    /\ handler[s] = "closed" => DeliveredTurns(s) \subseteq Booked(s) \cup unbooked[s]

(***************************************************************************)
(* responses_websocket.go:619-623: a turn for which the upstream names no  *)
(* model is booked by the one the client asked for.  Both pumps write that *)
(* model, and the one that books a turn writes back the turn's own         *)
(* afterwards (653): it is so for the turns of a client that waits until   *)
(* the turn before is booked, which it cannot see, and asks for no other   *)
(* meanwhile.                                                              *)
(***************************************************************************)
FallbackIsAsked ==
  \A s \in Sessions : \A i \in DOMAIN ledger[s] :
    LET t == ledger[s][i].turn
    IN t # 0 /\ t \notin crossed[s] /\ [turn |-> t, model |-> NoModel] \in delivered[s]
         /\ asked[s][t] # NoModel
       => ledger[s][i].model = asked[s][t]

\* all that is left of the session is a read that nothing ends but the upstream
AwaitsUpstream(s) == client[s] = "end" /\ server[s] = "read" /\ upstreamUp[s]

(***************************************************************************)
(* A session that is over, because its hour has passed or a pump ended,    *)
(* gives its slot back; only an upstream that stays connected and silent   *)
(* can keep it from that.                                                  *)
(***************************************************************************)
OverEnds ==
  \A s \in Sessions :
    (handler[s] = "open" /\ over[s]) ~> (~ Alive(s) \/ AwaitsUpstream(s))
=============================================================================
