-------------------------- MODULE MCChannelCircuit ---------------------------
(* An instance of ChannelCircuit for TLC: two text requests, a media       *)
(* request, a WebSocket handshake and a poll on two channels, which are    *)
(* alike; two of them under way at a time.                                 *)
EXTENDS ChannelCircuit, TLC

CONSTANTS t1, t2, media, websocket, poll

MCKind == [r \in Requests |-> CASE r = media     -> "media"
                                [] r = websocket -> "websocket"
                                [] r = poll      -> "poll"
                                [] OTHER         -> "text"]

Alike == Permutations(Channels) \cup Permutations({t1, t2})
=============================================================================
