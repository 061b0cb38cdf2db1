-------------------------- MODULE WeatherExchange ---------------------------
(***************************************************************************)
(* A request for weather on its whole way: from the WebSocket session of a *)
(* frontend through findStation to the TCP session of a microcontroller,   *)
(* over its output buffer to the device, and back with the UUID of the     *)
(* frontend to the callback that the directory has for it.                 *)
(*                                                                         *)
(* Of the sessions only what the way passes is here: TCPSession and        *)
(* WebSocketSession have the rest.  findStation holds no lock, so it is    *)
(* cut at each of its accesses: the read of a map, which gives a raw       *)
(* pointer, and the lock of the weak_ptr behind the pointer, are steps     *)
(* between which the session may be destroyed by another thread, and its   *)
(* address be used again.  A lock behind a pointer to a destroyed session  *)
(* reads freed memory: it may fail as that of an expired one does, or do   *)
(* anything, after which nothing is claimed of the process (FreedRead).    *)
(***************************************************************************)
EXTENDS SharedState, Naturals, Sequences, FiniteSets

CONSTANTS
    InvalidId,  \* a value of a StationId that is no station id
    Garbage,    \* what the uninitialized stationId_ may hold
    Frontend,   \* the WebSocket sessions, by UUID
    Requests,   \* the lists of station ids a request may ask for
    MaxAsked    \* bound: stations the frontends ask for, all together

ASSUME ExchangeAssumption ==
    /\ InvalidId \notin StationId
    /\ Garbage \subseteq StationId \cup {InvalidId}
    /\ Requests \subseteq Seq(StationId) \ {<<>>}
    /\ MaxAsked \in Nat
    /\ None \notin Frontend

VARIABLES
    \* of a TCP session
    obj,        \* the object at an address: none yet, alive or destroyed
    device,     \* the microcontroller at the other end, by its station
    up,         \* the chain of reads goes on
    gone,       \* the connection is closed
    stationId_,
    reply,      \* to the Handshake: none, about to be made, ACK or NAK
    timed,      \* a wait or a handler of its heartbeat holds it
    struck,     \* history: another session's destructor erased its entry
    output_,    \* the UUID in the output buffer
    writes,     \* async_writes in flight, each by the UUID it was given
    call,       \* the callback being called, with its notification
    \* of a microcontroller
    inbox,      \* the requests it received and has to answer, by UUID
    \* of a WebSocket session
    listed,     \* it is connected, and its callback in the directory
    pc,         \* where in handleWeatherStatusRequest it is
    todo,       \* the stations it has yet to look up
    ptr,        \* the pointer findStation has: raw before the lock, shared after
    faulted,    \* the memory of a destroyed session was used: anything may follow
    \* history
    asked,      \* the stations a frontend asked for
    steady,     \* sessions that serve the station since its lookup began
    dangled,    \* the session was destroyed between the read of ptr and its lock
    meant,      \* the stations of a frontend's requests that went to others ...
    went,       \* ... and the stations these requests went to
    answers     \* the notifications a frontend was sent

tcp == <<obj, device, up, gone, stationId_, reply, timed, struck>>
wire == <<output_, writes, inbox>>
past == <<asked, meant, went, faulted>>
request == <<pc, todo, ptr, dangled, steady, past>>
vars == <<tcp_sessions_, tcp, wire, call, listed, request, answers>>

Notification == [to : Frontend, id : StationId \cup {InvalidId}]

Answer == [of : StationId, id : StationId \cup {InvalidId}, acked : BOOLEAN]

Init ==
    /\ DirectoryInit
    /\ obj = [s \in Session |-> "none"]
    /\ device = [s \in Session |-> None]
    /\ up = [s \in Session |-> FALSE]
    /\ gone = [s \in Session |-> FALSE]
    /\ stationId_ = [s \in Session |-> InvalidId]
    /\ reply = [s \in Session |-> "none"]
    /\ timed = [s \in Session |-> FALSE]
    /\ struck = [s \in Session |-> FALSE]
    /\ output_ = [s \in Session |-> None]
    /\ writes = [s \in Session |-> <<>>]
    /\ call = [s \in Session |-> None]
    /\ inbox = [d \in StationId |-> <<>>]
    /\ listed = [f \in Frontend |-> TRUE]
    /\ pc = [f \in Frontend |-> "idle"]
    /\ todo = [f \in Frontend |-> <<>>]
    /\ ptr = [f \in Frontend |-> None]
    /\ asked = [f \in Frontend |-> <<>>]
    /\ steady = [f \in Frontend |-> {}]
    /\ dangled = [f \in Frontend |-> FALSE]
    /\ meant = [f \in Frontend |-> <<>>]
    /\ went = [f \in Frontend |-> <<>>]
    /\ answers = [f \in Frontend |-> <<>>]
    /\ faulted = FALSE

----------------------------------------------------------------------------
(* The TCP sessions. *)

\* What holds a shared_ptr to a session: its reading, its heartbeat, its writes,
\* and the result of a findStation that a request is using.
Referenced(s) ==
    \/ up[s] \/ timed[s]
    \/ writes[s] # <<>>
    \/ \E f \in Frontend : ptr[f] = s /\ pc[f] \notin {"plainPtr", "sslPtr"}

\* The sessions whose weak_ptr gives a shared_ptr.
Lockable == {s \in Session : obj[s] = "alive" /\ Referenced(s)}

Serving(id) == {s \in Lockable : reply[s] = "ACK" /\ stationId_[s] = id}

\* A device that has no connection makes one, and its session is allocated where
\* none is alive.  What it received on an earlier one it may still answer.
Accept(s, d) ==
    /\ obj[s] # "alive"
    /\ \A t \in Session : obj[t] = "alive" /\ device[t] = d => gone[t]
    /\ obj' = [obj EXCEPT ![s] = "alive"]
    /\ device' = [device EXCEPT ![s] = d]
    /\ up' = [up EXCEPT ![s] = TRUE]
    /\ gone' = [gone EXCEPT ![s] = FALSE]
    /\ \E g \in Garbage : stationId_' = [stationId_ EXCEPT ![s] = g]
    /\ reply' = [reply EXCEPT ![s] = "none"]
    /\ timed' = [timed EXCEPT ![s] = FALSE]
    /\ struck' = [struck EXCEPT ![s] = FALSE]
    /\ output_' = [output_ EXCEPT ![s] = None]
    /\ steady' = [f \in Frontend |-> steady[f] \ {s}]
    /\ UNCHANGED <<tcp_sessions_, writes, call, inbox, listed, pc, todo, ptr,
                   dangled, past, answers>>

\* The thread that reads is not in a handler.
Reading(s) == up[s] /\ call[s] = None /\ reply[s] # "joining"

\* The device shakes hands, once more if it was refused.  With a registered UUID
\* and a free station the session joins, and is in the map before it has the
\* station's id.
handleHandshakePacket(s) ==
    /\ Reading(s) /\ ~gone[s] /\ reply[s] \in {"none", "NAK"}
    /\ join(s, device[s])
    /\ reply' = [reply EXCEPT
                     ![s] = IF joined(s, device[s]) THEN "joining" ELSE "NAK"]
    /\ UNCHANGED <<obj, device, up, gone, stationId_, timed, struck, wire, call,
                   listed, request, answers>>

\* Its UUID or its station id is not one the server takes.
RefuseHandshake(s) ==
    /\ Reading(s) /\ ~gone[s] /\ reply[s] \in {"none", "NAK"}
    /\ reply' = [reply EXCEPT ![s] = "NAK"]
    /\ UNCHANGED <<tcp_sessions_, obj, device, up, gone, stationId_, timed, struck,
                   wire, call, listed, request, answers>>

\* The station's id, the answer and the first wait of the heartbeat.
acceptHandshake(s) ==
    /\ reply[s] = "joining"
    /\ stationId_' = [stationId_ EXCEPT ![s] = device[s]]
    /\ reply' = [reply EXCEPT ![s] = "ACK"]
    /\ timed' = [timed EXCEPT ![s] = TRUE]
    /\ UNCHANGED <<tcp_sessions_, obj, device, up, gone, struck, wire, call, listed,
                   request, answers>>

PeerClose(s) ==
    /\ obj[s] = "alive" /\ ~gone[s]
    /\ gone' = [gone EXCEPT ![s] = TRUE]
    /\ UNCHANGED <<tcp_sessions_, obj, device, up, stationId_, reply, timed, struck,
                   wire, call, listed, request, answers>>

\* onReadPacketHeader with an error: the timers are stopped, the connection is
\* closed, the reading over.  A handler of a timer that is queued already goes on.
ReadError(s) ==
    /\ Reading(s)
    /\ up' = [up EXCEPT ![s] = FALSE]
    /\ gone' = [gone EXCEPT ![s] = TRUE]
    /\ \E queued \in {FALSE, timed[s]} : timed' = [timed EXCEPT ![s] = queued]
    /\ UNCHANGED <<tcp_sessions_, obj, device, stationId_, reply, struck, wire, call,
                   listed, request, answers>>

\* A packet of unknown type: the reading is over, the heartbeat is not.
UnknownPacket(s) ==
    /\ Reading(s) /\ ~gone[s]
    /\ up' = [up EXCEPT ![s] = FALSE]
    /\ UNCHANGED <<tcp_sessions_, obj, device, gone, stationId_, reply, timed, struck,
                   wire, call, listed, request, answers>>

\* The heartbeat of a session that no longer reads comes to its end.
TimersEnd(s) ==
    /\ timed[s] /\ ~up[s]
    /\ timed' = [timed EXCEPT ![s] = FALSE]
    /\ UNCHANGED <<tcp_sessions_, obj, device, up, gone, stationId_, reply, struck,
                   wire, call, listed, request, answers>>

\* The sessions whose entries the destructor takes that are not its own: a session
\* that was never given an id, or has lost its entry, may erase another's.
strays(s) ==
    IF reply[s] = "ACK" /\ ~struck[s] THEN {} ELSE robbed(s, stationId_[s])

Destroy(s) ==
    /\ obj[s] = "alive" /\ ~Referenced(s)
    /\ leave(s, stationId_[s])
    /\ struck' = [t \in Session |-> struck[t] \/ t \in strays(s)]
    /\ obj' = [obj EXCEPT ![s] = "destroyed"]
    /\ gone' = [gone EXCEPT ![s] = TRUE]
    /\ dangled' = [f \in Frontend |-> dangled[f] \/ ptr[f] = s]
    /\ UNCHANGED <<device, up, stationId_, reply, timed, wire, call, listed,
                   pc, todo, ptr, steady, past, answers>>

\* Mutant: the handler of a write starts it again.
WriteAgain(s) == UNCHANGED writes

completeWrite(s) == writes' = [writes EXCEPT ![s] = Tail(@)]

\* The transfer of the first write, and its handler, which only logs.  The
\* device receives the UUID that the buffer holds now.
Transmit(s) ==
    /\ writes[s] # <<>> /\ ~gone[s]
    /\ inbox' = [inbox EXCEPT ![device[s]] = Append(@, output_[s])]
    /\ completeWrite(s)
    /\ UNCHANGED <<tcp_sessions_, tcp, output_, call, listed, request, answers>>

WriteFail(s) ==
    /\ writes[s] # <<>> /\ gone[s]
    /\ completeWrite(s)
    /\ UNCHANGED <<tcp_sessions_, tcp, output_, inbox, call, listed, request, answers>>

\* Mutant: the notification goes to whichever frontend is registered.
AnyCallback(f) == {g \in Frontend : listed[g]}

\* The callbacks the two lookups by UUID lead to, one or none.
findWebSocketSession(f) == {g \in {f} : listed[g]}

\* The answer to the first request in the device's inbox is read: the id is
\* that of the session, the UUID that of the packet.  A frontend that has left
\* has no callback, and the answer is dropped.
handleWeatherStatusPacket(s) ==
    /\ Reading(s) /\ ~gone[s]
    /\ inbox[device[s]] # <<>>
    /\ inbox' = [inbox EXCEPT ![device[s]] = Tail(@)]
    /\ LET callbacks == findWebSocketSession(Head(inbox[device[s]])) IN
       IF callbacks = {} THEN UNCHANGED call
       ELSE \E f \in callbacks :
                call' = [call EXCEPT ![s] = [to |-> f, id |-> stationId_[s]]]
    /\ UNCHANGED <<tcp_sessions_, tcp, output_, writes, listed, request, answers>>

\* The callback runs, without a lock: the frontend is sent the notification if
\* it is still there.
onWeatherStatusNotification(s) ==
    /\ call[s] # None
    /\ call' = [call EXCEPT ![s] = None]
    /\ LET f == call[s].to IN
       answers' = IF listed[f]
                  THEN [answers EXCEPT ![f] =
                           Append(@, [of |-> device[s], id |-> call[s].id,
                                      acked |-> reply[s] = "ACK"])]
                  ELSE answers
    /\ UNCHANGED <<tcp_sessions_, tcp, wire, listed, request>>

----------------------------------------------------------------------------
(* The WebSocket sessions: handleWeatherStatusRequest looks up one station    *)
(* after the other.                                                          *)

\* Mutant: the loop has one turn more than there are stations.
OneTurnMore(f, ids) ==
    /\ todo' = [todo EXCEPT ![f] = ids]
    /\ pc' = [pc EXCEPT ![f] = "plain"]

\* The lookup of the next station begins, if there is one.
nextStation(f, ids) ==
    /\ todo' = [todo EXCEPT ![f] = ids]
    /\ pc' = [pc EXCEPT ![f] = IF ids = <<>> THEN "idle" ELSE "plain"]

\* The stations asked for so far, with the frontend and the place in its list.
AskedFor ==
    {x \in Frontend \X (1..MaxAsked) : x[2] \in DOMAIN asked[x[1]]}

handleWeatherStatusRequest(f) ==
    /\ listed[f] /\ pc[f] = "idle"
    /\ \E ids \in Requests :
          /\ Cardinality(AskedFor) + Len(ids) <= MaxAsked
          /\ nextStation(f, ids)
          /\ asked' = [asked EXCEPT ![f] = @ \o ids]
          /\ steady' = [steady EXCEPT ![f] = Serving(Head(ids))]
    /\ UNCHANGED <<tcp_sessions_, tcp, wire, call, listed, ptr, dangled, meant, went,
                   faulted, answers>>

\* The read of a map: its entry, a raw pointer.
readEntry(f, kind) ==
    /\ ptr' = [ptr EXCEPT ![f] = tcp_sessions_[kind][Head(todo[f])]]
    /\ UNCHANGED <<tcp_sessions_, tcp, wire, call, listed, todo, dangled, steady,
                   past, answers>>

findPlainStation(f) ==
    /\ pc[f] = "plain"
    /\ readEntry(f, "plain")
    /\ pc' = [pc EXCEPT ![f] = IF ptr'[f] = None THEN "ssl" ELSE "plainPtr"]

findSSLStation(f) ==
    /\ pc[f] = "ssl"
    /\ readEntry(f, "ssl")
    /\ pc' = [pc EXCEPT ![f] = IF ptr'[f] = None THEN "write" ELSE "sslPtr"]

\* Mutant: an entry in the plain map that cannot be locked ends the lookup.
PlainOrNothing == "write"

\* Where findStation goes on when the plain session cannot be locked.
afterExpired == "ssl"

\* Mutant: the raw pointer is used as it is.
AsItIs(s) == TRUE

\* weak_from_this(s).lock() gives a shared_ptr: s holds a session, the one the
\* pointer was read for or a later one, and something holds that session.
locked(s) == s \in Lockable

\* The pointer goes, and with it whether its session did.
dropPointer(f) ==
    /\ ptr' = [ptr EXCEPT ![f] = None]
    /\ dangled' = [dangled EXCEPT ![f] = FALSE]

\* The lock of what the pointer is to, or else its failure.
lock(f, next) ==
    /\ IF locked(ptr[f])
       THEN pc' = [pc EXCEPT ![f] = "write"] /\ UNCHANGED <<ptr, dangled>>
       ELSE pc' = [pc EXCEPT ![f] = next] /\ dropPointer(f)
    /\ UNCHANGED <<tcp_sessions_, tcp, wire, call, listed, todo, steady, past,
                   answers>>

lockPlain(f) == pc[f] = "plainPtr" /\ lock(f, afterExpired)

lockSSL(f) == pc[f] = "sslPtr" /\ lock(f, "write")

\* The lock reads the reference count in the memory of a destroyed session, and
\* does not find the 0 it was left with.
FreedRead(f) ==
    /\ pc[f] \in {"plainPtr", "sslPtr"} /\ obj[ptr[f]] = "destroyed"
    /\ faulted' = TRUE
    /\ UNCHANGED <<tcp_sessions_, tcp, wire, call, listed, pc, todo, ptr, dangled,
                   steady, asked, meant, went, answers>>

\* The request is written to the session that was found; for a station that
\* has none, nothing is written and nobody is told.
writePacket(f) ==
    /\ pc[f] = "write"
    /\ IF ptr[f] = None
       THEN UNCHANGED <<output_, writes>>
       ELSE /\ output_' = [output_ EXCEPT ![ptr[f]] = f]
            /\ writes' = [writes EXCEPT ![ptr[f]] = Append(@, f)]
    /\ IF ptr[f] = None \/ device[ptr[f]] = Head(todo[f])
       THEN UNCHANGED <<meant, went>>
       ELSE /\ meant' = [meant EXCEPT ![f] = Append(@, Head(todo[f]))]
            /\ went' = [went EXCEPT ![f] = Append(@, device[ptr[f]])]
    /\ nextStation(f, Tail(todo[f]))
    /\ dropPointer(f)
    /\ steady' = [steady EXCEPT ![f] =
                     IF Tail(todo[f]) = <<>> THEN {} ELSE Serving(todo[f][2])]
    /\ UNCHANGED <<tcp_sessions_, tcp, inbox, call, listed, asked, faulted, answers>>

\* The frontend goes: the read that fails, once the handler of a request has
\* returned, takes its callback from the directory.
Left(f) ==
    /\ listed[f] /\ pc[f] = "idle"
    /\ listed' = [listed EXCEPT ![f] = FALSE]
    /\ UNCHANGED <<tcp_sessions_, tcp, wire, call, request, answers>>

----------------------------------------------------------------------------
SessionStep(s) ==
    \/ \E d \in StationId : Accept(s, d)
    \/ handleHandshakePacket(s) \/ RefuseHandshake(s) \/ acceptHandshake(s)
    \/ PeerClose(s) \/ ReadError(s) \/ UnknownPacket(s) \/ TimersEnd(s) \/ Destroy(s)
    \/ Transmit(s) \/ WriteFail(s)
    \/ handleWeatherStatusPacket(s) \/ onWeatherStatusNotification(s)

Lookup(f) ==
    \/ findPlainStation(f) \/ lockPlain(f)
    \/ findSSLStation(f) \/ lockSSL(f)
    \/ FreedRead(f) \/ writePacket(f)

FrontendStep(f) ==
    handleWeatherStatusRequest(f) \/ Lookup(f) \/ Left(f)

Next ==
    /\ ~faulted
    /\ \/ \E s \in Session : SessionStep(s)
       \/ \E f \in Frontend : FrontendStep(f)

Spec == Init /\ [][Next]_vars

----------------------------------------------------------------------------
TypeOK ==
    /\ DirectoryTypeOK
    /\ obj \in [Session -> {"none", "alive", "destroyed"}]
    /\ device \in [Session -> StationId \cup {None}]
    /\ up \in [Session -> BOOLEAN] /\ gone \in [Session -> BOOLEAN]
    /\ stationId_ \in [Session -> StationId \cup {InvalidId}]
    /\ reply \in [Session -> {"none", "joining", "ACK", "NAK"}]
    /\ timed \in [Session -> BOOLEAN] /\ struck \in [Session -> BOOLEAN]
    /\ output_ \in [Session -> Frontend \cup {None}]
    /\ writes \in [Session -> Seq(Frontend)]
    /\ call \in [Session -> Notification \cup {None}]
    /\ inbox \in [StationId -> Seq(Frontend)]
    /\ listed \in [Frontend -> BOOLEAN]
    /\ pc \in [Frontend -> {"idle", "plain", "plainPtr", "ssl", "sslPtr", "write"}]
    /\ todo \in [Frontend -> Seq(StationId)]
    /\ \A f \in Frontend : pc[f] = "idle" <=> todo[f] = <<>>
    /\ ptr \in [Frontend -> Session \cup {None}]
    /\ asked \in [Frontend -> Seq(StationId)]
    /\ steady \in [Frontend -> SUBSET Session]
    /\ dangled \in [Frontend -> BOOLEAN]
    /\ meant \in [Frontend -> Seq(StationId)]
    /\ went \in [Frontend -> Seq(StationId)]
    /\ answers \in [Frontend -> Seq(Answer)]
    /\ faulted \in BOOLEAN

\* The session a request is written to is alive, whatever was destroyed since
\* the map was read.  And it has joined, and its device is that of the station
\* asked for, unless the session that was read was destroyed before the
\* lock: there is no other way for a request to reach another station's device.
FoundServesUnlessDangled ==
    \A f \in Frontend :
        pc[f] = "write" /\ ptr[f] # None =>
            /\ obj[ptr[f]] = "alive"
            /\ ~dangled[f] => /\ reply[ptr[f]] \in {"joining", "ACK"}
                              /\ device[ptr[f]] = Head(todo[f])

\* A lookup finds a session if one serves the station from its beginning to
\* its end, whatever others come and go between the reads of the two maps, and
\* has not been struck out of its map by the destructor of another.
SteadyStationFound ==
    \A f \in Frontend :
        pc[f] = "write" /\ ptr[f] = None =>
            \A s \in steady[f] \cap Lockable : struck[s]

Among(d, ids) == \E j \in DOMAIN ids : ids[j] = d

\* A frontend is only sent weather of stations it asked for, or that a request
\* of its own was led to in the place of another (went), and under their id
\* unless the device has not been acknowledged: although requests overwrite
\* each other in the output buffer, frontends leave, and devices answer on a
\* later connection than the one they were asked on.
AskedStationsOnly ==
    \A f \in Frontend : \A i \in DOMAIN answers[f] :
        LET a == answers[f][i] IN
        /\ Among(a.of, asked[f]) \/ Among(a.of, went[f])
        /\ a.acked => a.id = a.of

\* The requests for a station that are under way: not yet looked up, in a
\* session's writes, at the device, or in the call of a notification.
Queued(d) ==
    UNION {{f} \X {n \in DOMAIN todo[f] : todo[f][n] = d} : f \in Frontend}

Written(d) ==
    UNION {{s} \X DOMAIN writes[s] : s \in {t \in Session : device[t] = d}}

Called(d) == {s \in Session : device[s] = d /\ call[s] # None}

UnderWay(d) ==
    Cardinality(Queued(d)) + Cardinality(Written(d)) + Len(inbox[d])
    + Cardinality(Called(d))

\* All sessions together give the frontends what WeatherService promises: no
\* request is answered twice, and each by the station it was for or, in the one
\* case of FoundServesUnlessDangled, was led to; an answer that reaches the wrong
\* frontend, whose request went to that station too, is missing at another.
Service == INSTANCE WeatherService WITH
    pending <- [d \in StationId |-> UnderWay(d)],
    told <- [f \in Frontend |-> [n \in DOMAIN answers[f] |-> answers[f][n].of]]

ServiceSpec == Service!Spec

\* In numbers: of each station the frontends are told no more often than they
\* asked, but for the requests that were led to it or away from it, also counting
\* what is under way, however often sessions, frontends and devices come and go.
AnsweredAtMostOnce == Service!AnsweredAtMostOnce

----------------------------------------------------------------------------
(* What the docs say. *)

\* "Finds a specific PlainTCPSession or SSLTCPSession by a given stationId":
\* the session a request is written to has joined, and its device is that of the
\* station asked for.
FoundServesStation ==
    \A f \in Frontend :
        pc[f] = "write" /\ ptr[f] # None =>
            /\ reply[ptr[f]] \in {"joining", "ACK"}
            /\ device[ptr[f]] = Head(todo[f])
============================================================================
