--------------------------- MODULE MCTCPSession ----------------------------
(* Instances of TCPSession for TLC. *)
EXTENDS TCPSession

CONSTANTS p1, p2, t1, Goe, Wf

OnePlain == {p1}
TwoPlain == {p1, p2}
OneTLS == {t1}
TwoPlainAndTLS == {p1, p2, t1}

Hello(id, uuid) == [type |-> "Handshake", uuid |-> uuid, id |-> id]

Pong == [type |-> "Pong"]

\* What a peer keeping to PROTOCOL.md sends.
Conforming == {Hello(id, "registered") : id \in StationId}
                  \cup [type : {"Pong", "WeatherStatus"}]

\* Requests that are refused, and packets of unknown type.
Anything == HandshakePacket \cup [type : {"Pong", "WeatherStatus", "Unknown"}]

\* Valid Handshakes of a few stations, one refusal, and Pongs.
Few == {Hello(id, "registered") : id \in StationId}
           \cup {Hello(InvalidId, "registered"), Pong}

\* Bound: no timer of the session expires before it goes.
QuietTimers == \A s \in Session : pingFired[s] = 0

Benign == {InvalidId}

AnyByte == StationId \cup {InvalidId}
============================================================================
