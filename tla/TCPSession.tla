---------------------------- MODULE TCPSession -----------------------------
(***************************************************************************)
(* The sessions of the microcontrollers: PlainTCPSession and SSLTCPSession *)
(* with the TCPSession and TCPRequestHandler they share, over the          *)
(* directory of SharedState.                                               *)
(*                                                                         *)
(* One step is one completion handler, run to its end.  The read and write *)
(* handlers of a session run on its strand; the two timers are made on the *)
(* io_context itself, and requests for weather come from the thread of a   *)
(* WebSocket session, so steps of one session interleave in any order.     *)
(*                                                                         *)
(* A session has no owner: each pending operation holds a shared_ptr to it *)
(* and the last one to go destroys it (Referenced, Destroy).  A handler    *)
(* that was already queued with success when its timer is cancelled still  *)
(* runs with success (pingFired, pongFired); one cancelled before that     *)
(* runs with operation_aborted, returns at once, and is left out.          *)
(*                                                                         *)
(* The parse loop is run on one packet per read: PacketFraming models how  *)
(* bytes become packets.                                                   *)
(***************************************************************************)
EXTENDS SharedState, Naturals, Sequences

CONSTANTS
    InvalidId,      \* a value of a StationId that is no station id
    Garbage,        \* what the uninitialized stationId_ may hold
    Packets,        \* the packets the peers of this instance send
    MaxHandshakes,  \* bound: Handshake packets a peer sends per connection
    MaxWrites,      \* bound: writes in flight on one session
    MaxOwed         \* bound: Pongs that a peer owes; a Ping beyond it is not answered

UUID == {"registered", "unregistered", "malformed"}

HandshakePacket ==
    [type : {"Handshake"}, uuid : UUID, id : StationId \cup {InvalidId}]

InPacket == HandshakePacket
                \cup [type : {"Pong", "WeatherStatus", "Unknown"}]

OutPacket == {"Handshake", "HandshakeACK", "HandshakeNAK", "Ping", "WeatherStatus"}

ASSUME SessionAssumption ==
    /\ InvalidId \notin StationId
    /\ Garbage \subseteq StationId \cup {InvalidId}
    /\ Packets \subseteq InPacket
    /\ None \notin InPacket
    /\ MaxHandshakes \in Nat \ {0}
    /\ MaxWrites \in Nat \ {0}
    /\ MaxOwed \in Nat \ {0}

VARIABLES
    obj,         \* the object at an address: none yet, alive or destroyed
    op,          \* what the chain of read handlers is doing (Phase)
    input_,      \* the packet to be parsed next, or None
    conn,        \* the socket: open, closing (TLS shutdown begun), closed
    shutdown,    \* an async_shutdown is pending (TLS only)
    gone,        \* the peer has closed its side
    stationId_,
    handshakes,  \* Handshake packets handled on this connection
    reply,       \* the last answer to a Handshake: none, ACK or NAK
    struck,      \* history: another session's destructor erased its entry
    pingWaits,   \* pending waits of pingTimer_
    pingFired,   \* onPingTimeout handlers queued with success
    pongWait,    \* a wait of pongTimer_ is pending
    pongFired,   \* an onPongTimeout handler is queued with success
    output_,     \* the packet in the output buffer
    writes,      \* async_writes in flight: the packet given, and if it left
    owed,        \* the Pongs still to come for the Pings that reached the peer
    unheard,     \* history: no Pong was handled since the last Ping reached the peer
    crossed      \* history: a Ping and its pong timer have missed each other

reader == <<op, input_>>
link == <<conn, shutdown, gone>>
station == <<stationId_, handshakes, reply, struck>>
timers == <<pingWaits, pingFired, pongWait, pongFired>>
pings == <<owed, unheard, crossed>>
out == <<output_, writes, pings>>
vars == <<tcp_sessions_, obj, reader, link, station, timers, out>>

\* "idle" before the first operation; "tls" in the TLS handshake; "hello"
\* while the server's Handshake is written; "read" in async_read_some;
\* "parse" in the parse loop; "stopped" after a read error; "bad" after a
\* packet of unknown type; "failed" when the connection never came up.
Phase == {"idle", "tls", "hello", "read", "parse", "stopped", "bad", "failed"}

Write == [pkt : OutPacket, sent : BOOLEAN]

ReaderType ==
    /\ op \in [Session -> Phase]
    /\ input_ \in [Session -> Packets \cup {None}]
    /\ \A s \in Session : op[s] = "parse" <=> input_[s] # None

LinkType ==
    /\ conn \in [Session -> {"open", "closing", "closed"}]
    /\ shutdown \in [Session -> BOOLEAN]
    /\ gone \in [Session -> BOOLEAN]

StationType ==
    /\ stationId_ \in [Session -> StationId \cup {InvalidId}]
    /\ handshakes \in [Session -> 0..MaxHandshakes]
    /\ reply \in [Session -> {"none", "ACK", "NAK"}]
    /\ struck \in [Session -> BOOLEAN]

TimersType ==
    /\ pingWaits \in [Session -> Nat]
    /\ pingFired \in [Session -> Nat]
    /\ pongWait \in [Session -> BOOLEAN]
    /\ pongFired \in [Session -> BOOLEAN]

OutType ==
    /\ output_ \in [Session -> OutPacket]
    /\ writes \in [Session -> Seq(Write)]
    /\ owed \in [Session -> 0..MaxOwed]
    /\ unheard \in [Session -> BOOLEAN]
    /\ crossed \in [Session -> BOOLEAN]

TypeOK ==
    /\ DirectoryTypeOK
    /\ obj \in [Session -> {"none", "alive", "destroyed"}]
    /\ ReaderType /\ LinkType /\ StationType /\ TimersType /\ OutType

Init ==
    /\ DirectoryInit
    /\ obj = [s \in Session |-> "none"]
    /\ op = [s \in Session |-> "idle"]
    /\ input_ = [s \in Session |-> None]
    /\ conn = [s \in Session |-> "closed"]
    /\ shutdown = [s \in Session |-> FALSE]
    /\ gone = [s \in Session |-> FALSE]
    /\ stationId_ = [s \in Session |-> InvalidId]
    /\ handshakes = [s \in Session |-> 0]
    /\ reply = [s \in Session |-> "none"]
    /\ struck = [s \in Session |-> FALSE]
    /\ pingWaits = [s \in Session |-> 0]
    /\ pingFired = [s \in Session |-> 0]
    /\ pongWait = [s \in Session |-> FALSE]
    /\ pongFired = [s \in Session |-> FALSE]
    /\ output_ = [s \in Session |-> "Handshake"]
    /\ writes = [s \in Session |-> <<>>]
    /\ owed = [s \in Session |-> 0]
    /\ unheard = [s \in Session |-> FALSE]
    /\ crossed = [s \in Session |-> FALSE]

----------------------------------------------------------------------------
(* Lifetime. *)

\* Mutant: a handler stored in the session keeps it alive for good.
ReferencedForever(s) == op[s] # "idle"

\* The operations whose handler holds a shared_ptr to the session.
Referenced(s) ==
    \/ op[s] \in {"tls", "hello", "read", "parse"}
    \/ writes[s] # <<>>
    \/ pingWaits[s] + pingFired[s] > 0
    \/ pongWait[s] \/ pongFired[s]
    \/ shutdown[s]

\* The sessions whose weak_ptr can be locked.
Lockable == {s \in Session : obj[s] = "alive" /\ Referenced(s)}

(* A connection is accepted: make_shared and run.  The allocator may reuse  *)
(* the address of a destroyed session.  The constructors set every member   *)
(* but stationId_, which is left uninitialized.                             *)
Accept(s) ==
    /\ obj[s] # "alive"
    /\ obj' = [obj EXCEPT ![s] = "alive"]
    /\ \E g \in Garbage : stationId_' = [stationId_ EXCEPT ![s] = g]
    /\ conn' = [conn EXCEPT ![s] = "open"]
    /\ op' = [op EXCEPT ![s] = IF s \in SSLSession THEN "tls" ELSE "hello"]
    /\ writes' = [writes EXCEPT ![s] =
                     IF s \in SSLSession THEN <<>>
                     ELSE <<[pkt |-> "Handshake", sent |-> FALSE]>>]
    /\ output_' = [output_ EXCEPT ![s] = "Handshake"]
    /\ input_' = [input_ EXCEPT ![s] = None]
    /\ shutdown' = [shutdown EXCEPT ![s] = FALSE]
    /\ gone' = [gone EXCEPT ![s] = FALSE]
    /\ owed' = [owed EXCEPT ![s] = 0]
    /\ unheard' = [unheard EXCEPT ![s] = FALSE]
    /\ crossed' = [crossed EXCEPT ![s] = FALSE]
    /\ struck' = [struck EXCEPT ![s] = FALSE]
    /\ handshakes' = [handshakes EXCEPT ![s] = 0]
    /\ reply' = [reply EXCEPT ![s] = "none"]
    /\ pingWaits' = [pingWaits EXCEPT ![s] = 0]
    /\ pingFired' = [pingFired EXCEPT ![s] = 0]
    /\ pongWait' = [pongWait EXCEPT ![s] = FALSE]
    /\ pongFired' = [pongFired EXCEPT ![s] = FALSE]
    /\ UNCHANGED tcp_sessions_

(* The last shared_ptr is gone and the destructor runs.  It is a step of its *)
(* own: between the release and leave other threads still find the entry.    *)
(* It leaves under whatever stationId_ holds: a session that was never given *)
(* an id, or whose own entry went this way, may erase another's (struck).    *)
strays(s) ==
    IF reply[s] = "ACK" /\ ~struck[s] THEN {} ELSE robbed(s, stationId_[s])

Destroy(s) ==
    /\ obj[s] = "alive"
    /\ ~Referenced(s)
    /\ leave(s, stationId_[s])
    /\ struck' = [t \in Session |-> struck[t] \/ t \in strays(s)]
    /\ obj' = [obj EXCEPT ![s] = "destroyed"]
    /\ conn' = [conn EXCEPT ![s] = "closed"]
    /\ UNCHANGED <<reader, shutdown, gone, stationId_, handshakes, reply, timers, out>>

----------------------------------------------------------------------------
(* Writing.  There is one output buffer; writePacket copies into it whether  *)
(* or not the transfer of an earlier packet still reads from it.             *)

writePacket(s, pkt) ==
    /\ Len(writes[s]) < MaxWrites
    /\ output_' = [output_ EXCEPT ![s] = pkt]
    /\ writes' = [writes EXCEPT ![s] = Append(@, [pkt |-> pkt, sent |-> FALSE])]

Unsent(s) == {i \in DOMAIN writes[s] : ~writes[s][i].sent}

FirstUnsent(s, i) == i \in Unsent(s) /\ \A j \in Unsent(s) : i <= j

\* The transfer of the next write: the peer receives what the buffer holds now.
Transmit(s) ==
    /\ conn[s] = "open" /\ ~gone[s]
    /\ \E i \in DOMAIN writes[s] :
          /\ FirstUnsent(s, i)
          /\ writes' = [writes EXCEPT ![s][i].sent = TRUE]
          /\ crossed' = [crossed EXCEPT ![s] =
                            @ \/ (writes[s][i].pkt = "Ping" /\ output_[s] # "Ping")]
    /\ owed' = [owed EXCEPT ![s] =
                   IF output_[s] = "Ping" /\ @ < MaxOwed THEN @ + 1 ELSE @]
    /\ unheard' = [unheard EXCEPT ![s] = @ \/ output_[s] = "Ping"]
    /\ UNCHANGED <<tcp_sessions_, obj, reader, link, station, timers, output_>>

\* Mutant: onPingTimeout only logs that its Ping was sent.
NoPongTimer(s, pkt) == UNCHANGED pongWait

\* startPongTimer, called when a Ping was sent: its expires_after replaces a
\* wait that is pending.
startPongTimer(s, pkt) ==
    pongWait' = [pongWait EXCEPT ![s] = @ \/ pkt = "Ping"]

(* The completion handler of a transferred write: run goes on to the first   *)
(* read, onPingTimeout arms the pong timer, the others only log.             *)
WriteDone(s) ==
    /\ writes[s] # <<>>
    /\ Head(writes[s]).sent
    /\ writes' = [writes EXCEPT ![s] = Tail(@)]
    /\ op' = [op EXCEPT ![s] =
                IF Head(writes[s]).pkt = "Handshake" THEN "read" ELSE @]
    /\ startPongTimer(s, Head(writes[s]).pkt)
    /\ UNCHANGED <<tcp_sessions_, obj, input_, link, station,
                   pingWaits, pingFired, pongFired, output_, pings>>

\* A write fails: the packet's handler is not called, nothing else happens.
WriteFail(s) ==
    /\ conn[s] # "open" \/ gone[s]
    /\ writes[s] # <<>>
    /\ ~Head(writes[s]).sent
    /\ writes' = [writes EXCEPT ![s] = Tail(@)]
    /\ op' = [op EXCEPT ![s] =
                IF Head(writes[s]).pkt = "Handshake" THEN "failed" ELSE @]
    /\ UNCHANGED <<tcp_sessions_, obj, input_, link, station, timers,
                   output_, pings>>

----------------------------------------------------------------------------
(* Connecting and disconnecting. *)

\* SSLTCPSession::onHandshake: the server's Handshake follows the TLS one,
\* which a peer that is gone, a failure or the deadline ends without more.
TlsHandshake(s) ==
    /\ op[s] = "tls"
    /\ \/ /\ ~gone[s]
          /\ op' = [op EXCEPT ![s] = "hello"]
          /\ writePacket(s, "Handshake")
       \/ /\ op' = [op EXCEPT ![s] = "failed"]
          /\ UNCHANGED <<output_, writes>>
    /\ UNCHANGED <<tcp_sessions_, obj, input_, link, station, timers, pings>>

PlainDisconnect(s) ==
    /\ conn' = [conn EXCEPT ![s] = "closed"]
    /\ UNCHANGED shutdown

SSLDisconnect(s) ==
    /\ conn' = [conn EXCEPT ![s] = IF @ = "open" THEN "closing" ELSE @]
    /\ shutdown' = [shutdown EXCEPT ![s] = TRUE]

(* A plain session closes its socket; a TLS session begins a shutdown, whose *)
(* handler closes it.                                                        *)
disconnect(s) == IF s \in SSLSession THEN SSLDisconnect(s) ELSE PlainDisconnect(s)

\* onShutdown: on an error (the peer went away first) the socket stays as is.
onShutdown(s) ==
    /\ shutdown[s]
    /\ shutdown' = [shutdown EXCEPT ![s] = FALSE]
    /\ \E c \in {"closed", conn[s]} : conn' = [conn EXCEPT ![s] = c]
    /\ UNCHANGED <<tcp_sessions_, obj, reader, gone, station, timers, out>>

PeerClose(s) ==
    /\ obj[s] = "alive" /\ ~gone[s]
    /\ gone' = [gone EXCEPT ![s] = TRUE]
    /\ UNCHANGED <<tcp_sessions_, obj, reader, conn, shutdown, station, timers, out>>

----------------------------------------------------------------------------
(* Reading and parsing. *)

\* A peer sends one Pong for each Ping, and few Handshakes.
MaySend(s, p) ==
    /\ p.type = "Handshake" => handshakes[s] < MaxHandshakes
    /\ p.type = "Pong" => owed[s] > 0

\* onReadPacketHeader without an error, up to the call of the handler.
ReadData(s) ==
    /\ op[s] = "read" /\ conn[s] # "closed" /\ ~gone[s]
    /\ \E p \in Packets :
          /\ MaySend(s, p)
          /\ input_' = [input_ EXCEPT ![s] = p]
    /\ op' = [op EXCEPT ![s] = "parse"]
    /\ UNCHANGED <<tcp_sessions_, obj, link, station, timers, out>>

stop(s) ==
    /\ pingWaits' = [pingWaits EXCEPT ![s] = 0]
    /\ pongWait' = [pongWait EXCEPT ![s] = FALSE]

(* onReadPacketHeader with an error (the peer closed or reset, the socket    *)
(* was closed or cancelled here, or 60 seconds passed without data, which    *)
(* closes the socket): stop cancels the waits, then disconnect.              *)
ReadError(s) ==
    /\ op[s] = "read"
    /\ op' = [op EXCEPT ![s] = "stopped"]
    /\ stop(s)
    /\ disconnect(s)
    /\ UNCHANGED <<tcp_sessions_, obj, input_, gone, station, pingFired, pongFired, out>>

\* handle returned Good: the packet is popped off and the next read begins.
Good(s) ==
    /\ op' = [op EXCEPT ![s] = "read"]
    /\ input_' = [input_ EXCEPT ![s] = None]

Parsing(s, type) == op[s] = "parse" /\ input_[s].type = type

\* The id is in range, and the UUID well-formed and in the config.
Valid(p) == p.id \in StationId /\ p.uuid = "registered"

startPingTimer(s) == pingWaits' = [pingWaits EXCEPT ![s] = @ + 1]

(* handleHandshakePacket: a valid request joins the directory, which refuses *)
(* an id that is taken; every refusal is answered with a NAK and the session *)
(* goes on reading.                                                          *)
handleHandshakePacket(s) ==
    /\ Parsing(s, "Handshake")
    /\ Good(s)
    /\ handshakes' = [handshakes EXCEPT ![s] = @ + 1]
    /\ IF Valid(input_[s]) /\ joined(s, input_[s].id)
       THEN /\ join(s, input_[s].id)
            /\ stationId_' = [stationId_ EXCEPT ![s] = input_[s].id]
            /\ startPingTimer(s)
            /\ reply' = [reply EXCEPT ![s] = "ACK"]
            /\ writePacket(s, "HandshakeACK")
       ELSE /\ reply' = [reply EXCEPT ![s] = "NAK"]
            /\ writePacket(s, "HandshakeNAK")
            /\ UNCHANGED <<tcp_sessions_, stationId_, pingWaits>>
    /\ UNCHANGED <<obj, link, struck, pingFired, pongWait, pongFired, pings>>

\* A Ping has left, and the handler of its write, which starts the pong timer,
\* has not run.
PingUnderWay(s) == \E i \in DOMAIN writes[s] : writes[s][i].sent /\ writes[s][i].pkt = "Ping"

\* Mutant: the Pong is taken note of and the timer goes on.
KeepPongTimer(s) == UNCHANGED pongWait

cancelPongTimer(s) == pongWait' = [pongWait EXCEPT ![s] = FALSE]

\* handlePongPacket: whichever Ping the Pong answers, it cancels the wait, if
\* there is one to cancel.  A timer that is started later or has expired goes on
\* to cut off a peer that owes nothing any more (crossed).
handlePongPacket(s) ==
    /\ Parsing(s, "Pong")
    /\ Good(s)
    /\ cancelPongTimer(s)
    /\ owed' = [owed EXCEPT ![s] = @ - 1]
    /\ unheard' = [unheard EXCEPT ![s] = FALSE]
    /\ crossed' = [crossed EXCEPT ![s] =
                      @ \/ (owed[s] = 1 /\ (pongFired[s] \/ PingUnderWay(s)))]
    /\ UNCHANGED <<tcp_sessions_, obj, link, station,
                   pingWaits, pingFired, pongFired, output_, writes>>

\* handleWeatherStatusPacket, whose effect is on a WebSocket session only.
handleWeatherStatusPacket(s) ==
    /\ Parsing(s, "WeatherStatus")
    /\ Good(s)
    /\ UNCHANGED <<tcp_sessions_, obj, link, station, timers, out>>

\* Mutant: the loop returns with the packet still to be parsed.
BadKeepsInput(s) == op' = [op EXCEPT ![s] = "bad"] /\ UNCHANGED input_

\* handle returned Bad: the loop returns and nothing reads again.
Bad(s) ==
    /\ op' = [op EXCEPT ![s] = "bad"]
    /\ input_' = [input_ EXCEPT ![s] = None]

\* The packet id has no handler.
handleUnknown(s) ==
    /\ Parsing(s, "Unknown")
    /\ Bad(s)
    /\ UNCHANGED <<tcp_sessions_, obj, link, station, timers, out>>

Parse(s) ==
    \/ handleHandshakePacket(s)
    \/ handlePongPacket(s)
    \/ handleWeatherStatusPacket(s)
    \/ handleUnknown(s)

----------------------------------------------------------------------------
(* The heartbeat. *)

\* pingTimer_ expires: its waits are queued with success.
PingExpire(s) ==
    /\ pingWaits[s] > 0
    /\ pingFired' = [pingFired EXCEPT ![s] = @ + pingWaits[s]]
    /\ pingWaits' = [pingWaits EXCEPT ![s] = 0]
    /\ UNCHANGED <<tcp_sessions_, obj, reader, link, station, pongWait, pongFired, out>>

\* Mutant: the timer is not restarted.
NoRestart(s) == UNCHANGED pingWaits

\* expires_at cancels the waits still pending.
restartPingTimer(s) == pingWaits' = [pingWaits EXCEPT ![s] = 1]

onPingTimeout(s) ==
    /\ pingFired[s] > 0
    /\ pingFired' = [pingFired EXCEPT ![s] = @ - 1]
    /\ writePacket(s, "Ping")
    /\ restartPingTimer(s)
    /\ UNCHANGED <<tcp_sessions_, obj, reader, link, station, pongWait, pongFired, pings>>

PongExpire(s) ==
    /\ pongWait[s] /\ ~pongFired[s]
    /\ pongWait' = [pongWait EXCEPT ![s] = FALSE]
    /\ pongFired' = [pongFired EXCEPT ![s] = TRUE]
    /\ UNCHANGED <<tcp_sessions_, obj, reader, link, station, pingWaits, pingFired, out>>

\* onPongTimeout: the peer is disconnected; the waits of pingTimer_ go on
\* until the read that this aborts stops them.
onPongTimeout(s) ==
    /\ pongFired[s]
    /\ pongFired' = [pongFired EXCEPT ![s] = FALSE]
    /\ disconnect(s)
    /\ UNCHANGED <<tcp_sessions_, obj, reader, gone, station,
                   pingWaits, pingFired, pongWait, out>>

----------------------------------------------------------------------------
(* A WebSocket session asks the microcontroller of a station for weather. *)

WeatherRequest(id) ==
    /\ \E s \in findStation(id, Lockable) : writePacket(s, "WeatherStatus")
    /\ UNCHANGED <<tcp_sessions_, obj, reader, link, station, timers, pings>>

----------------------------------------------------------------------------
SessionStep(s) ==
    \/ Accept(s) \/ Destroy(s)
    \/ Transmit(s) \/ WriteDone(s) \/ WriteFail(s)
    \/ TlsHandshake(s) \/ onShutdown(s) \/ PeerClose(s)
    \/ ReadData(s) \/ ReadError(s) \/ Parse(s)
    \/ PingExpire(s) \/ onPingTimeout(s) \/ PongExpire(s) \/ onPongTimeout(s)

Next ==
    \/ \E s \in Session : SessionStep(s)
    \/ \E id \in StationId : WeatherRequest(id)

Spec == Init /\ [][Next]_vars

(* What the io_context runs eventually: handlers that are queued, timers that *)
(* run out, the deadline of 60 seconds on a read and on the TLS handshake.    *)
(* Nothing is assumed of the peer or of the allocator.  A tick of the ping    *)
(* timer is run even where requests for weather keep the session's writes at  *)
(* MaxWrites, a bound the code does not have (SF).                            *)
Fairness ==
    \A s \in Session :
        /\ WF_vars(TlsHandshake(s)) /\ WF_vars(onShutdown(s))
        /\ WF_vars(Transmit(s) \/ WriteFail(s)) /\ WF_vars(WriteDone(s))
        /\ WF_vars(ReadError(s)) /\ WF_vars(Parse(s))
        /\ WF_vars(PingExpire(s)) /\ SF_vars(onPingTimeout(s))
        /\ WF_vars(PongExpire(s)) /\ WF_vars(onPongTimeout(s))
        /\ WF_vars(Destroy(s))

FairSpec == Spec /\ Fairness

----------------------------------------------------------------------------
(* Properties. *)

\* An entry of the directory points to a live session of the map's kind that
\* holds the entry's id, so findStation never follows a dangling pointer and
\* every entry is removed by the destructor of the session in it.  The maps
\* hold raw pointers and nothing but the one leave in ~TCPSession removes them.
RegistryConsistent ==
    \A k \in Kind, id \in StationId :
        LET s == tcp_sessions_[k][id] IN
        s # None => obj[s] = "alive" /\ KindOf(s) = k /\ stationId_[s] = id

\* A session that was acknowledged stays the one its station id leads to, up
\* to its destruction, unless a session that is not in the map under its own id
\* erased the entry in its destructor.  Nothing else takes it: not a Handshake
\* for the same id, not the end of the id's last owner, not the other map.
AckedUnlessStruck ==
    \A s \in Session :
        obj[s] = "alive" /\ reply[s] = "ACK" =>
            tcp_sessions_[KindOf(s)][stationId_[s]] = s \/ struck[s]

\* The heartbeat of a session neither dies nor multiplies: an acknowledged
\* session that reads has exactly one wait or handler of the ping timer, and
\* no session ever has two, however ticks, errors and handlers interleave.
OneHeartbeat ==
    \A s \in Session :
        /\ pingWaits[s] + pingFired[s] <= 1
        /\ reply[s] = "ACK" /\ op[s] \in {"read", "parse"} =>
               pingWaits[s] + pingFired[s] = 1

\* A request for the weather of a station reaches it: findStation has only
\* sessions that serve the id, and has one if any live session serves the id
\* whose entry no stray destructor has erased.
RequestsReachStation ==
    \A id \in StationId :
        LET serving == {s \in Lockable : reply[s] = "ACK" /\ stationId_[s] = id}
            found == findStation(id, Lockable)
        IN  /\ found \subseteq serving
            /\ (\E s \in serving : ~struck[s]) => found # {}

\* The maps, the try_emplace of join and the leave of the destructor together
\* implement the directory of StationDirectory, whatever the uninitialized
\* stationId_ holds: a stray leave releases the session it strikes out.
Directory == INSTANCE StationDirectory WITH
    serves <- [s \in Session |->
        IF obj[s] = "alive" /\ reply[s] = "ACK" /\ ~struck[s]
        THEN stationId_[s] ELSE InvalidId]

DirectorySpec == Directory!Spec

\* While a peer owes a Pong, a Pong comes in or the connection is given up: even
\* where the Pong of an earlier Ping has cancelled the timer of a later one, the
\* heartbeat goes on and the next Ping is timed.
PingAnsweredOrCut ==
    \A s \in Session :
        owed[s] > 0 ~> Parsing(s, "Pong") \/ conn[s] # "open" \/ gone[s]

TimedOrSoon(s) ==
    \/ pongWait[s] \/ pongFired[s]
    \/ \E i \in DOMAIN writes[s] : writes[s][i].pkt = "Ping"

\* A peer that has been silent since it got a Ping is timed: while the
\* connection stands and no Pong was handled since the last Ping reached the
\* peer, the pong timer runs, its handler is queued, or the write of a Ping is in
\* flight whose handler will start it, although the one buffer may send a Ping
\* in place of another packet and writes, reads and both timers race.  Not that
\* each of several Pings is timed: the Pong of one cancels the timer of another.
SilenceIsTimed ==
    \A s \in Session :
        unheard[s] /\ conn[s] = "open" /\ ~gone[s] => TimedOrSoon(s)

\* The pong timer runs only against a peer that owes a Pong, but for the three
\* ways in which a Ping and its timer miss each other: the last Pong is handled
\* before the write of the Ping completes and starts the timer, or after the
\* timer has expired, or another packet was sent in place of the Ping.  In no
\* other way does the heartbeat cut off a peer that answers.
AnsweringPeerKept ==
    \A s \in Session : pongWait[s] \/ pongFired[s] => owed[s] > 0 \/ crossed[s]

\* A connection whose peer leaves unacknowledged, be it before its Handshake or
\* refused and never disconnected, is destroyed: no chain of handlers keeps a
\* session that has no heartbeat.
UnackedReclaimed ==
    \A s \in Session :
        (gone[s] /\ reply[s] # "ACK" /\ op[s] # "parse") ~> obj[s] # "alive"
----------------------------------------------------------------------------
(* What the documents and comments say and the code does not do. *)

\* "A hashmap for all plain tcp sessions bound to a unique stationId": every
\* acknowledged session is in the map under its station id.
AckedRegistered ==
    \A s \in Session :
        obj[s] = "alive" /\ reply[s] = "ACK" =>
            tcp_sessions_[KindOf(s)][stationId_[s]] = s

\* "The connection itself is responsible for its own lifetime management": a
\* session whose peer is gone is destroyed in the end.
LifetimeEnds == \A s \in Session : gone[s] ~> obj[s] # "alive"
============================================================================
