----------------------- MODULE WeatherExchangeProofs ------------------------
(***************************************************************************)
(* Proofs about WeatherExchange, for every set of sessions, stations,      *)
(* frontends and requests.                                                 *)
(***************************************************************************)
EXTENDS WeatherExchange, SequenceTheorems, TLAPS

----------------------------------------------------------------------------
(* Type correctness, with what holds an object together: reading, writing    *)
(* and being called are of live sessions, and a shared pointer keeps one      *)
(* alive.                                                                    *)

LiveSessions ==
    \A s \in Session :
        /\ obj[s] # "none" => device[s] \in StationId
        /\ up[s] \/ timed[s] => obj[s] = "alive"
        /\ reply[s] = "joining" => up[s] /\ call[s] = None
        /\ writes[s] # <<>> => obj[s] = "alive" /\ output_[s] # None
        /\ call[s] # None => up[s]

HeldPointers ==
    \A f \in Frontend :
        /\ pc[f] \in {"idle", "plain", "ssl"} => ptr[f] = None
        /\ pc[f] \in {"plainPtr", "sslPtr"} => ptr[f] # None
        /\ pc[f] = "write" /\ ptr[f] # None => obj[ptr[f]] = "alive"

TypeInv == TypeOK /\ LiveSessions /\ HeldPointers

\* TypeOK in the parts that actions leave alone together.
TCPType ==
    /\ obj \in [Session -> {"none", "alive", "destroyed"}]
    /\ device \in [Session -> StationId \cup {None}]
    /\ up \in [Session -> BOOLEAN] /\ gone \in [Session -> BOOLEAN]
    /\ stationId_ \in [Session -> StationId \cup {InvalidId}]
    /\ reply \in [Session -> {"none", "joining", "ACK", "NAK"}]
    /\ timed \in [Session -> BOOLEAN] /\ struck \in [Session -> BOOLEAN]

WireType ==
    /\ output_ \in [Session -> Frontend \cup {None}]
    /\ writes \in [Session -> Seq(Frontend)]
    /\ inbox \in [StationId -> Seq(Frontend)]

CallType ==
    /\ call \in [Session -> Notification \cup {None}]
    /\ listed \in [Frontend -> BOOLEAN]
    /\ answers \in [Frontend -> Seq(Answer)]

RequestType ==
    /\ pc \in [Frontend -> {"idle", "plain", "plainPtr", "ssl", "sslPtr", "write"}]
    /\ todo \in [Frontend -> Seq(StationId)]
    /\ \A f \in Frontend : pc[f] = "idle" <=> todo[f] = <<>>
    /\ ptr \in [Frontend -> Session \cup {None}]
    /\ steady \in [Frontend -> SUBSET Session]
    /\ dangled \in [Frontend -> BOOLEAN]

PastType ==
    /\ asked \in [Frontend -> Seq(StationId)]
    /\ meant \in [Frontend -> Seq(StationId)]
    /\ went \in [Frontend -> Seq(StationId)]
    /\ faulted \in BOOLEAN

LEMMA TypeParts ==
    /\ TypeOK <=> /\ DirectoryTypeOK /\ TCPType /\ WireType /\ CallType
                  /\ RequestType /\ PastType
    /\ TypeOK' <=> (/\ DirectoryTypeOK /\ TCPType /\ WireType /\ CallType
                    /\ RequestType /\ PastType)'
  BY DEF TypeOK, TCPType, WireType, CallType, RequestType, PastType

LEMMA InitTypeInv == Init => TypeInv
  <1> SUFFICES ASSUME Init
               PROVE  TypeInv
    OBVIOUS
  <1>1. DirectoryTypeOK
    BY DEF Init, DirectoryInit, DirectoryTypeOK
  <1>2. TCPType
    BY DEF Init, TCPType
  <1>3. WireType /\ CallType
    BY DEF Init, WireType, CallType
  <1>4. RequestType /\ PastType
    <2>1. /\ todo \in [Frontend -> Seq(StationId)]
          /\ \A f \in Frontend : pc[f] = "idle" /\ todo[f] = <<>>
      BY DEF Init
    <2>2. /\ ptr \in [Frontend -> Session \cup {None}]
          /\ steady \in [Frontend -> SUBSET Session]
          /\ dangled \in [Frontend -> BOOLEAN]
          /\ pc \in [Frontend -> {"idle", "plain", "plainPtr", "ssl", "sslPtr", "write"}]
      BY DEF Init
    <2>3. /\ asked \in [Frontend -> Seq(StationId)] /\ meant \in [Frontend -> Seq(StationId)]
          /\ went \in [Frontend -> Seq(StationId)]
      BY DEF Init
    <2>4. faulted \in BOOLEAN
      BY DEF Init
    <2> QED  BY <2>1, <2>2, <2>3, <2>4 DEF RequestType, PastType
  <1>5. LiveSessions /\ HeldPointers
    BY DEF Init, LiveSessions, HeldPointers
  <1> QED  BY <1>1, <1>2, <1>3, <1>4, <1>5, TypeParts DEF TypeInv

LEMMA DirectoryStays ==
    ASSUME DirectoryTypeOK, NEW s \in Session, NEW id
    PROVE  /\ join(s, id) => DirectoryTypeOK'
           /\ leave(s, id) => DirectoryTypeOK'
  <1>1. KindOf(s) \in Kind
    BY DEF KindOf, Kind
  <1>2. ASSUME join(s, id)
        PROVE  DirectoryTypeOK'
    BY <1>1, <1>2 DEF join, joined, DirectoryTypeOK
  <1>3. ASSUME leave(s, id)
        PROVE  DirectoryTypeOK'
    BY <1>1, <1>3 DEF leave, DirectoryTypeOK
  <1> QED  BY <1>2, <1>3

LEMMA TypeAccept ==
    ASSUME TypeInv, NEW s \in Session, NEW d \in StationId, Accept(s, d)
    PROVE  TypeInv'
  <1>1. writes[s] = <<>> /\ call[s] = None /\ ~up[s]
    BY DEF Accept, TypeInv, LiveSessions, TypeOK
  <1>2. TypeOK'
    BY ExchangeAssumption DEF Accept, past, TypeInv, TypeOK, DirectoryTypeOK
  <1>3. LiveSessions'
    BY <1>1 DEF Accept, TypeInv, TypeOK, LiveSessions
  <1>4. HeldPointers'
    BY DEF Accept, TypeInv, TypeOK, HeldPointers
  <1> QED  BY <1>2, <1>3, <1>4 DEF TypeInv

LEMMA TypeHandshake ==
    ASSUME TypeInv, NEW s \in Session,
           handleHandshakePacket(s) \/ RefuseHandshake(s) \/ acceptHandshake(s)
    PROVE  TypeInv'
  <1>1. DirectoryTypeOK'
    BY DirectoryStays DEF handleHandshakePacket, RefuseHandshake, acceptHandshake,
         TypeInv, TypeOK, DirectoryTypeOK
  <1>2. TypeOK'
    <2>1. UNCHANGED <<wire, call, listed, request, answers>>
      BY DEF handleHandshakePacket, RefuseHandshake, acceptHandshake
    <2>2. (WireType /\ CallType /\ RequestType /\ PastType)'
      BY <2>1, TypeParts
         DEF TypeInv, WireType, CallType, RequestType, PastType, wire, request, past
    <2>3. device[s] \in StationId \/ ~acceptHandshake(s)
      BY DEF acceptHandshake, TypeInv, LiveSessions
    <2>4. TCPType'
      BY <2>3, TypeParts DEF handleHandshakePacket, RefuseHandshake, acceptHandshake, TypeInv,
           TCPType
    <2> QED  BY <1>1, <2>2, <2>4, TypeParts
  <1>3. LiveSessions' /\ HeldPointers'
    BY DEF handleHandshakePacket, RefuseHandshake, acceptHandshake, TypeInv, TypeOK,
         LiveSessions, HeldPointers, wire, request, Reading
  <1> QED  BY <1>2, <1>3 DEF TypeInv

LEMMA TypeClose ==
    ASSUME TypeInv, NEW s \in Session,
           PeerClose(s) \/ ReadError(s) \/ UnknownPacket(s) \/ TimersEnd(s)
    PROVE  TypeInv'
  <1>1. /\ UNCHANGED <<tcp_sessions_, obj, device, reply, call, wire, listed, request, answers>>
        /\ \A t \in Session : (up'[t] => up[t]) /\ (timed'[t] => timed[t])
        /\ (reply[s] # "joining" /\ call[s] = None) \/ up'[s] = up[s]
        /\ \A t \in Session \ {s} : up'[t] = up[t]
    BY DEF PeerClose, ReadError, UnknownPacket, TimersEnd, Reading, TypeInv, TypeOK
  <1>2. TCPType'
    <2>1. CASE PeerClose(s) \/ UnknownPacket(s) \/ TimersEnd(s)
      BY <2>1 DEF PeerClose, UnknownPacket, TimersEnd, TypeInv, TypeOK, TCPType
    <2>2. CASE ReadError(s)
      <3>1. timed[s] \in BOOLEAN
        BY DEF TypeInv, TypeOK
      <3>2. PICK queued \in BOOLEAN : timed' = [timed EXCEPT ![s] = queued]
        BY <2>2, <3>1 DEF ReadError
      <3> QED  BY <2>2, <3>2 DEF ReadError, TypeInv, TypeOK, TCPType
    <2> QED  BY <2>1, <2>2
  <1>3. TypeOK'
    BY <1>1, <1>2, TypeParts DEF TypeInv, DirectoryTypeOK, WireType, CallType, RequestType,
         PastType, wire, request, past
  <1>4. LiveSessions' /\ HeldPointers'
    BY <1>1 DEF TypeInv, LiveSessions, HeldPointers, wire, request
  <1> QED  BY <1>3, <1>4 DEF TypeInv

LEMMA TypeDestroy ==
    ASSUME TypeInv, NEW s \in Session, Destroy(s)
    PROVE  TypeInv'
  <1>1. DirectoryTypeOK'
    BY DirectoryStays DEF Destroy, TypeInv, TypeOK, DirectoryTypeOK
  <1>2. TCPType' /\ RequestType'
    BY DEF Destroy, TypeInv, TypeOK, TCPType, RequestType
  <1>3. TypeOK'
    BY <1>1, <1>2, TypeParts DEF Destroy, TypeInv, WireType, CallType, PastType, wire, past
  <1>4. LiveSessions'
    <2>1. /\ up[s] = FALSE /\ timed[s] = FALSE /\ writes[s] = <<>>
          /\ UNCHANGED <<device, up, timed, reply, call, wire>>
      BY DEF Destroy, Referenced, TypeInv, TypeOK
    <2>2. /\ obj[s] = "alive" /\ obj'[s] = "destroyed"
          /\ \A t \in Session \ {s} : obj'[t] = obj[t]
      BY DEF Destroy, TypeInv, TypeOK
    <2> QED  BY <2>1, <2>2 DEF TypeInv, LiveSessions, wire
  <1>5. HeldPointers'
    BY DEF Destroy, TypeInv, TypeOK, HeldPointers, Referenced
  <1> QED  BY <1>3, <1>4, <1>5 DEF TypeInv

LEMMA TypeTransfer ==
    ASSUME TypeInv, NEW s \in Session, Transmit(s) \/ WriteFail(s)
    PROVE  TypeInv'
  <1>1. writes[s] \in Seq(Frontend) /\ writes[s] # <<>>
    BY DEF Transmit, WriteFail, TypeInv, TypeOK
  <1>2. Tail(writes[s]) \in Seq(Frontend)
    BY <1>1
  <1>3. obj[s] = "alive" /\ output_[s] \in Frontend /\ device[s] \in StationId
    BY <1>1 DEF TypeInv, TypeOK, LiveSessions
  <1>4. writes' \in [Session -> Seq(Frontend)]
    BY <1>2 DEF Transmit, WriteFail, completeWrite, TypeInv, TypeOK
  <1>5. inbox' \in [StationId -> Seq(Frontend)]
    <2>1. inbox[device[s]] \in Seq(Frontend)
      BY <1>3 DEF TypeInv, TypeOK
    <2>2. Append(inbox[device[s]], output_[s]) \in Seq(Frontend)
      BY <1>3, <2>1
    <2>3. inbox' = inbox \/ inbox' = [inbox EXCEPT ![device[s]] = Append(@, output_[s])]
      BY DEF Transmit, WriteFail
    <2> QED  BY <2>2, <2>3 DEF TypeInv, TypeOK
  <1>6. TypeOK'
    BY <1>4, <1>5, TypeParts DEF Transmit, WriteFail, TypeInv, DirectoryTypeOK, TCPType,
         WireType, CallType, RequestType, PastType, tcp, request, past
  <1>7. /\ UNCHANGED <<tcp, request, output_, call>>
        /\ \A t \in Session : writes'[t] # <<>> => writes[t] # <<>>
    BY <1>1 DEF Transmit, WriteFail, completeWrite, TypeInv, TypeOK
  <1>8. LiveSessions' /\ HeldPointers'
    BY <1>7 DEF TypeInv, LiveSessions, HeldPointers, tcp, request
  <1> QED  BY <1>6, <1>8 DEF TypeInv

LEMMA TypeWeather ==
    ASSUME TypeInv, NEW s \in Session, handleWeatherStatusPacket(s)
    PROVE  TypeInv'
  <1> DEFINE d == device[s]
  <1>1. /\ d \in StationId /\ inbox[d] \in Seq(Frontend) /\ inbox[d] # <<>>
        /\ up[s] /\ reply[s] # "joining"
    BY DEF handleWeatherStatusPacket, TypeInv, TypeOK, LiveSessions, Reading
  <1>2. Tail(inbox[d]) \in Seq(Frontend) /\ Head(inbox[d]) \in Frontend
    BY <1>1
  <1>3. inbox' \in [StationId -> Seq(Frontend)]
    BY <1>2 DEF handleWeatherStatusPacket, TypeInv, TypeOK
  <1>4. /\ \A t \in Session \ {s} : call'[t] = call[t]
        /\ call' \in [Session -> Notification \cup {None}]
    <2>1. \/ call' = call
          \/ \E f \in Frontend : call' = [call EXCEPT ![s] = [to |-> f, id |-> stationId_[s]]]
      BY <1>2 DEF handleWeatherStatusPacket, findWebSocketSession
    <2>2. \A f \in Frontend : [to |-> f, id |-> stationId_[s]] \in Notification
      BY DEF Notification, TypeInv, TypeOK
    <2>3. call \in [Session -> Notification \cup {None}]
      BY DEF TypeInv, TypeOK
    <2> QED  BY <2>1, <2>2, <2>3
  <1>5. TypeOK'
    BY <1>3, <1>4, TypeParts DEF handleWeatherStatusPacket, TypeInv, DirectoryTypeOK, TCPType,
         WireType, CallType, RequestType, PastType, tcp, request, past
  <1>6. LiveSessions' /\ HeldPointers'
    BY <1>1, <1>4 DEF handleWeatherStatusPacket, TypeInv, TypeOK, LiveSessions, HeldPointers,
         tcp, request
  <1> QED  BY <1>5, <1>6 DEF TypeInv

LEMMA TypeNotification ==
    ASSUME TypeInv, NEW s \in Session, onWeatherStatusNotification(s)
    PROVE  TypeInv'
  <1> DEFINE a == [of |-> device[s], id |-> call[s].id, acked |-> reply[s] = "ACK"]
  <1>1. call[s] \in Notification /\ device[s] \in StationId
    BY DEF onWeatherStatusNotification, TypeInv, TypeOK, LiveSessions
  <1>2. a \in Answer /\ call[s].to \in Frontend
    BY <1>1 DEF Answer, Notification
  <1>3. answers' \in [Frontend -> Seq(Answer)]
    BY <1>2 DEF onWeatherStatusNotification, TypeInv, TypeOK
  <1>4. TypeOK'
    BY <1>3, TypeParts DEF onWeatherStatusNotification, TypeInv, TypeOK, DirectoryTypeOK, TCPType,
         WireType, CallType, RequestType, PastType, tcp, wire, request, past
  <1>5. LiveSessions' /\ HeldPointers'
    BY DEF onWeatherStatusNotification, TypeInv, TypeOK, LiveSessions, HeldPointers,
         tcp, wire, request
  <1> QED  BY <1>4, <1>5 DEF TypeInv

LEMMA TypeRequest ==
    ASSUME TypeInv, NEW f \in Frontend, handleWeatherStatusRequest(f)
    PROVE  TypeInv'
  <1>1. PICK ids \in Requests :
            /\ nextStation(f, ids)
            /\ asked' = [asked EXCEPT ![f] = @ \o ids]
            /\ steady' = [steady EXCEPT ![f] = Serving(Head(ids))]
    BY DEF handleWeatherStatusRequest
  <1>2. ids \in Seq(StationId) /\ ids # <<>>
    BY ExchangeAssumption
  <1>3. asked[f] \o ids \in Seq(StationId)
    BY <1>2, ConcatProperties DEF TypeInv, TypeOK
  <1>4. RequestType' /\ PastType'
    BY <1>1, <1>2, <1>3 DEF handleWeatherStatusRequest, nextStation, Serving, Lockable, TypeInv,
         TypeOK, RequestType, PastType
  <1>5. TypeOK'
    BY <1>4, TypeParts DEF handleWeatherStatusRequest, TypeInv, TCPType, WireType, CallType,
         DirectoryTypeOK, tcp, wire
  <1>6. LiveSessions' /\ HeldPointers'
    BY <1>1, <1>2 DEF handleWeatherStatusRequest, nextStation, TypeInv, TypeOK, LiveSessions,
         HeldPointers, tcp, wire
  <1> QED  BY <1>5, <1>6 DEF TypeInv

LEMMA TypeLookup ==
    ASSUME TypeInv, NEW f \in Frontend,
           \/ findPlainStation(f) \/ lockPlain(f) \/ findSSLStation(f) \/ lockSSL(f)
           \/ FreedRead(f) \/ Left(f)
    PROVE  TypeInv'
  <1>1. pc[f] # "idle" => Head(todo[f]) \in StationId
    BY DEF TypeInv, TypeOK
  <1>2. RequestType'
    <2> DEFINE Moved(next) == /\ pc' = [pc EXCEPT ![f] = next]
                              /\ ptr' = ptr \/ ptr' = [ptr EXCEPT ![f] = None]
                              /\ \/ dangled' = dangled
                                 \/ dangled' = [dangled EXCEPT ![f] = FALSE]
    <2>0. ASSUME pc[f] # "idle", UNCHANGED <<todo, steady>>, Moved("ssl") \/ Moved("write")
          PROVE  RequestType'
      <3>1. /\ pc' \in [Frontend -> {"idle", "plain", "plainPtr", "ssl", "sslPtr", "write"}]
            /\ \A g \in Frontend : pc'[g] = "idle" <=> pc[g] = "idle"
        BY <2>0 DEF TypeInv, TypeOK
      <3>2. ptr' \in [Frontend -> Session \cup {None}] /\ dangled' \in [Frontend -> BOOLEAN]
        BY <2>0 DEF TypeInv, TypeOK
      <3> QED  BY <2>0, <3>1, <3>2 DEF RequestType, TypeInv, TypeOK
    <2>1. CASE findPlainStation(f)
      BY <1>1, <2>1 DEF findPlainStation, readEntry, TypeInv, TypeOK, RequestType,
           DirectoryTypeOK, Kind
    <2>2. CASE lockPlain(f)
      BY <2>0, <2>2 DEF lockPlain, lock, dropPointer, afterExpired
    <2>3. CASE findSSLStation(f)
      BY <1>1, <2>3 DEF findSSLStation, readEntry, TypeInv, TypeOK, RequestType,
           DirectoryTypeOK, Kind
    <2>4. CASE lockSSL(f)
      BY <2>0, <2>4 DEF lockSSL, lock, dropPointer
    <2>5. CASE FreedRead(f) \/ Left(f)
      BY <2>5 DEF FreedRead, Left, request, TypeInv, TypeOK, RequestType
    <2> QED  BY <2>1, <2>2, <2>3, <2>4, <2>5
  <1>3. PastType'
    BY DEF findPlainStation, readEntry, lockPlain, findSSLStation, lockSSL, lock, FreedRead, Left,
         TypeInv, TypeOK, PastType, request, past
  <1>4. TypeOK'
    BY <1>2, <1>3, TypeParts DEF findPlainStation, readEntry, lockPlain, findSSLStation, lockSSL,
         lock, FreedRead, Left, TypeInv, TCPType, WireType, CallType, DirectoryTypeOK, tcp, wire
  <1>5. LiveSessions'
    BY DEF findPlainStation, readEntry, lockPlain, findSSLStation, lockSSL, lock, FreedRead, Left,
         TypeInv, LiveSessions, tcp, wire
  <1>6. HeldPointers'
    <2>1. CASE findPlainStation(f) \/ findSSLStation(f)
      <3>1. /\ \A g \in Frontend \ {f} : pc'[g] = pc[g] /\ ptr'[g] = ptr[g]
            /\ \/ ptr'[f] = None /\ pc'[f] \in {"ssl", "write"}
               \/ ptr'[f] # None /\ pc'[f] \in {"plainPtr", "sslPtr"}
            /\ obj' = obj
        BY <2>1 DEF findPlainStation, findSSLStation, readEntry, TypeInv, TypeOK, tcp
      <3> QED  BY <3>1 DEF TypeInv, HeldPointers
    <2>2. CASE lockPlain(f) \/ lockSSL(f)
      BY <2>2 DEF lockPlain, lockSSL, lock, dropPointer, afterExpired, locked, Lockable, TypeInv,
           TypeOK, HeldPointers, tcp
    <2>3. CASE FreedRead(f) \/ Left(f)
      BY <2>3 DEF FreedRead, Left, TypeInv, HeldPointers, tcp, request
    <2> QED  BY <2>1, <2>2, <2>3
  <1> QED  BY <1>4, <1>5, <1>6 DEF TypeInv

LEMMA TypeWritePacket ==
    ASSUME TypeInv, NEW f \in Frontend, writePacket(f)
    PROVE  TypeInv'
  <1>1. todo[f] \in Seq(StationId) /\ todo[f] # <<>>
    BY DEF writePacket, TypeInv, TypeOK
  <1>2. Tail(todo[f]) \in Seq(StationId) /\ Head(todo[f]) \in StationId
    BY <1>1
  <1>3. RequestType'
    BY <1>2 DEF writePacket, nextStation, dropPointer, Serving, Lockable, TypeInv, TypeOK,
         RequestType
  <1>4. /\ output_' \in [Session -> Frontend \cup {None}]
        /\ writes' \in [Session -> Seq(Frontend)]
    <2>1. CASE ptr[f] = None
      BY <2>1 DEF writePacket, TypeInv, TypeOK
    <2>2. CASE ptr[f] # None
      <3>1. ptr[f] \in Session /\ writes[ptr[f]] \in Seq(Frontend)
        BY <2>2 DEF TypeInv, TypeOK
      <3>2. Append(writes[ptr[f]], f) \in Seq(Frontend)
        BY <3>1
      <3> QED  BY <2>2, <3>1, <3>2 DEF writePacket, TypeInv, TypeOK
    <2> QED  BY <2>1, <2>2
  <1>5. PastType'
    <2>1. CASE UNCHANGED <<meant, went>>
      BY <2>1 DEF writePacket, TypeInv, TypeOK, PastType
    <2>2. CASE /\ ptr[f] # None
               /\ meant' = [meant EXCEPT ![f] = Append(@, Head(todo[f]))]
               /\ went' = [went EXCEPT ![f] = Append(@, device[ptr[f]])]
      <3>1. device[ptr[f]] \in StationId
        BY <2>2 DEF writePacket, TypeInv, TypeOK, LiveSessions, HeldPointers
      <3>2. /\ Append(meant[f], Head(todo[f])) \in Seq(StationId)
            /\ Append(went[f], device[ptr[f]]) \in Seq(StationId)
        BY <1>2, <3>1 DEF TypeInv, TypeOK
      <3> QED  BY <2>2, <3>2 DEF writePacket, TypeInv, TypeOK, PastType
    <2> QED  BY <2>1, <2>2 DEF writePacket
  <1>6. TypeOK'
    BY <1>3, <1>4, <1>5, TypeParts DEF writePacket, TypeInv, TCPType, WireType, CallType,
         DirectoryTypeOK, tcp
  <1>7. HeldPointers'
    BY DEF writePacket, nextStation, dropPointer, TypeInv, TypeOK, HeldPointers, tcp
  <1>8. LiveSessions'
    BY ExchangeAssumption DEF writePacket, TypeInv, TypeOK, LiveSessions, HeldPointers, tcp
  <1> QED  BY <1>6, <1>7, <1>8 DEF TypeInv

LEMMA TypeInvStep == TypeInv /\ [Next]_vars => TypeInv'
  <1> SUFFICES ASSUME TypeInv, [Next]_vars
               PROVE  TypeInv'
    OBVIOUS
  <1>1. ASSUME NEW s \in Session, SessionStep(s)
        PROVE  TypeInv'
    BY <1>1, TypeAccept, TypeHandshake, TypeClose, TypeDestroy, TypeTransfer, TypeWeather,
       TypeNotification DEF SessionStep
  <1>2. ASSUME NEW f \in Frontend, FrontendStep(f)
        PROVE  TypeInv'
    BY <1>2, TypeRequest, TypeLookup, TypeWritePacket DEF FrontendStep, Lookup
  <1>3. CASE UNCHANGED vars
    BY <1>3, TypeParts DEF vars, tcp, wire, request, past, TypeInv, DirectoryTypeOK, TCPType,
         WireType, CallType, RequestType, PastType, LiveSessions, HeldPointers
  <1> QED  BY <1>1, <1>2, <1>3 DEF Next

\* The model's variables keep their types, and the pointer a request uses is
\* one that keeps its session alive.
THEOREM ExchangeTypeCorrect == Spec => []TypeOK
  <1>1. TypeInv => TypeOK
    BY DEF TypeInv
  <1> QED  BY InitTypeInv, TypeInvStep, <1>1, PTL DEF Spec
----------------------------------------------------------------------------
(* The directory.  Every entry is right, whatever stationId_ holds before a    *)
(* handshake and wherever new sessions are allocated; and every session that   *)
(* joined has its entry, unless the destructor of another struck it out.       *)

\* The entries are of live sessions that joined for the station of their
\* device.
Entered ==
    \A k \in Kind : \A id \in StationId :
        LET s == tcp_sessions_[k][id] IN
        s # None => /\ KindOf(s) = k /\ obj[s] = "alive" /\ device[s] = id
                    /\ reply[s] \in {"joining", "ACK"}

\* The id in an acknowledged session is that of its device.
Acknowledged ==
    \A s \in Session : obj[s] = "alive" /\ reply[s] = "ACK" => stationId_[s] = device[s]

\* Each session that joined, and was not struck out, has its entry.
Registered ==
    \A s \in Session :
        obj[s] = "alive" /\ reply[s] \in {"joining", "ACK"} /\ ~struck[s] =>
            tcp_sessions_[KindOf(s)][device[s]] = s

DirectoryInv == Entered /\ Acknowledged /\ Registered

\* A pointer whose session has not been destroyed is to one that joined for the
\* station looked up.
Pointed ==
    \A f \in Frontend :
        ptr[f] # None /\ ~dangled[f] => /\ device[ptr[f]] = Head(todo[f])
                                        /\ reply[ptr[f]] \in {"joining", "ACK"}
                                        /\ obj[ptr[f]] = "alive"

LEMMA InitDirectoryInv == Init => DirectoryInv /\ Pointed
  BY DEF Init, DirectoryInit, DirectoryInv, Entered, Acknowledged, Registered, Pointed

LEMMA DirectoryFrame ==
    ASSUME UNCHANGED <<tcp_sessions_, obj, device, stationId_, reply, struck>>, DirectoryInv
    PROVE  DirectoryInv'
  BY DEF DirectoryInv, Entered, Acknowledged, Registered

LEMMA PointedFrame ==
    ASSUME Pointed, UNCHANGED <<obj, device, reply, ptr, todo, dangled>>
    PROVE  Pointed'
  BY DEF Pointed

\* Entries stay right where they stay and their sessions are as before.
LEMMA EntriesStay ==
    ASSUME TypeInv, Entered, NEW s \in Session,
           \A j \in Kind, id \in StationId :
              tcp_sessions_'[j][id] # None =>
                 /\ tcp_sessions_'[j][id] = tcp_sessions_[j][id]
                 /\ tcp_sessions_[j][id] = s =>
                       obj'[s] = "alive" /\ reply'[s] \in {"joining", "ACK"},
           device' = device,
           \A t \in Session \ {s} : obj'[t] = obj[t] /\ reply'[t] = reply[t]
    PROVE  Entered'
  <1> SUFFICES ASSUME NEW j \in Kind, NEW id \in StationId, tcp_sessions_'[j][id] # None
               PROVE  LET t == tcp_sessions_'[j][id] IN
                      /\ KindOf(t) = j /\ obj'[t] = "alive" /\ device[t] = id
                      /\ reply'[t] \in {"joining", "ACK"}
    BY DEF Entered
  <1>1. tcp_sessions_'[j][id] = tcp_sessions_[j][id] /\ tcp_sessions_[j][id] \in Session
    BY DEF TypeInv, TypeOK, DirectoryTypeOK
  <1>2. LET t == tcp_sessions_[j][id] IN
        KindOf(t) = j /\ obj[t] = "alive" /\ device[t] = id /\ reply[t] \in {"joining", "ACK"}
    BY <1>1, DirectoryAssumption DEF Entered
  <1> QED  BY <1>1, <1>2

LEMMA KindIsKind == \A s \in Session : KindOf(s) \in Kind
  BY DEF KindOf, Kind

LEMMA DirectoryAccept ==
    ASSUME TypeInv, DirectoryInv, NEW s \in Session, NEW d \in StationId, Accept(s, d)
    PROVE  DirectoryInv'
  <1>1. /\ obj[s] # "alive" /\ obj'[s] = "alive" /\ reply'[s] = "none"
        /\ UNCHANGED tcp_sessions_
        /\ \A t \in Session \ {s} :
              /\ obj'[t] = obj[t] /\ reply'[t] = reply[t]
              /\ device'[t] = device[t] /\ stationId_'[t] = stationId_[t]
              /\ struck'[t] = struck[t]
    BY DEF Accept, TypeInv, TypeOK
  <1>2. Entered'
    <2> SUFFICES ASSUME NEW k \in Kind, NEW id \in StationId, tcp_sessions_[k][id] # None
                 PROVE  LET t == tcp_sessions_[k][id] IN
                        /\ KindOf(t) = k /\ obj'[t] = "alive" /\ device'[t] = id
                        /\ reply'[t] \in {"joining", "ACK"}
      BY <1>1 DEF Entered
    <2>1. tcp_sessions_[k][id] \in Session
      BY DEF TypeInv, TypeOK, DirectoryTypeOK
    <2> QED  BY <1>1, <2>1 DEF DirectoryInv, Entered
  <1>3. Acknowledged'
    BY <1>1 DEF DirectoryInv, Acknowledged
  <1>4. Registered'
    BY <1>1 DEF DirectoryInv, Registered
  <1> QED  BY <1>2, <1>3, <1>4 DEF DirectoryInv

LEMMA DirectoryHandshake ==
    ASSUME TypeInv, DirectoryInv, NEW s \in Session,
           handleHandshakePacket(s)
    PROVE  DirectoryInv'
  <1> DEFINE d == device[s]
             k == KindOf(s)
  <1>1. /\ obj[s] = "alive" /\ d \in StationId /\ k \in Kind
        /\ reply[s] \in {"none", "NAK"} /\ reply'[s] \in {"joining", "NAK"}
        /\ UNCHANGED <<obj, device, stationId_, struck>>
        /\ \A t \in Session \ {s} : reply'[t] = reply[t]
    BY KindIsKind DEF handleHandshakePacket, Reading, TypeInv, TypeOK, LiveSessions
  <1>2. \A j \in Kind, id \in StationId : tcp_sessions_[j][id] # s
    BY <1>1, DirectoryAssumption DEF DirectoryInv, Entered
  <1>3. Acknowledged'
    BY <1>1 DEF DirectoryInv, Acknowledged
  <1>4. CASE ~joined(s, d)
    <2>1. tcp_sessions_' = tcp_sessions_ /\ reply'[s] = "NAK"
      BY <1>4 DEF handleHandshakePacket, join, TypeInv, TypeOK
    <2>2. Entered'
      BY <1>1, <1>2, <2>1, EntriesStay DEF DirectoryInv
    <2>3. Registered'
      BY <1>1, <2>1 DEF DirectoryInv, Registered
    <2> QED  BY <1>3, <2>2, <2>3 DEF DirectoryInv
  <1>5. CASE joined(s, d)
    <2>1. tcp_sessions_[k][d] = None /\ reply'[s] = "joining"
      BY <1>5 DEF handleHandshakePacket, joined, TypeInv, TypeOK
    <2>2. \A j \in Kind, id \in StationId :
              tcp_sessions_'[j][id] = IF j = k /\ id = d THEN s ELSE tcp_sessions_[j][id]
      BY <1>1, <1>5 DEF handleHandshakePacket, join, TypeInv, TypeOK, DirectoryTypeOK
    <2>3. Entered'
      <3> SUFFICES ASSUME NEW j \in Kind, NEW id \in StationId, tcp_sessions_'[j][id] # None
                   PROVE  LET t == tcp_sessions_'[j][id] IN
                          /\ KindOf(t) = j /\ obj[t] = "alive" /\ device[t] = id
                          /\ reply'[t] \in {"joining", "ACK"}
        BY <1>1 DEF Entered
      <3>1. CASE j = k /\ id = d
        BY <1>1, <2>1, <2>2, <3>1
      <3>2. CASE ~(j = k /\ id = d)
        <4>1. tcp_sessions_[j][id] \in Session /\ tcp_sessions_'[j][id] = tcp_sessions_[j][id]
          BY <2>2, <3>2 DEF TypeInv, TypeOK, DirectoryTypeOK
        <4> QED  BY <1>1, <1>2, <4>1, DirectoryAssumption DEF DirectoryInv, Entered
      <3> QED  BY <3>1, <3>2
    <2>4. Registered'
      <3> SUFFICES ASSUME NEW t \in Session, obj[t] = "alive",
                          reply'[t] \in {"joining", "ACK"}, ~struck[t]
                   PROVE  tcp_sessions_'[KindOf(t)][device[t]] = t
        BY <1>1 DEF Registered
      <3>1. device[t] \in StationId /\ KindOf(t) \in Kind
        BY KindIsKind DEF TypeInv, LiveSessions
      <3>2. CASE t = s
        BY <1>1, <2>2, <3>2
      <3>3. CASE t # s
        <4>1. tcp_sessions_[KindOf(t)][device[t]] = t
          BY <1>1, <3>3 DEF DirectoryInv, Registered
        <4>2. ~(KindOf(t) = k /\ device[t] = d)
          BY <2>1, <4>1, DirectoryAssumption
        <4> QED  BY <2>2, <3>1, <4>1, <4>2
      <3> QED  BY <3>2, <3>3
    <2> QED  BY <1>3, <2>3, <2>4 DEF DirectoryInv
  <1> QED  BY <1>4, <1>5

LEMMA DirectoryAnswer ==
    ASSUME TypeInv, DirectoryInv, NEW s \in Session,
           RefuseHandshake(s) \/ acceptHandshake(s)
    PROVE  DirectoryInv'
  <1>1. /\ UNCHANGED <<tcp_sessions_, obj, device, struck>>
        /\ \A t \in Session \ {s} : reply'[t] = reply[t] /\ stationId_'[t] = stationId_[t]
    BY DEF RefuseHandshake, acceptHandshake, TypeInv, TypeOK
  <1>2. CASE RefuseHandshake(s)
    <2>1. reply[s] \in {"none", "NAK"} /\ reply'[s] = "NAK" /\ stationId_' = stationId_
      BY <1>2 DEF RefuseHandshake, TypeInv, TypeOK
    <2>2. \A j \in Kind, id \in StationId : tcp_sessions_[j][id] # s
      BY <2>1, DirectoryAssumption DEF DirectoryInv, Entered
    <2>3. Entered'
      BY <1>1, <1>2, <2>2, EntriesStay DEF DirectoryInv, RefuseHandshake
    <2>4. Acknowledged' /\ Registered'
      BY <1>1, <2>1 DEF DirectoryInv, Acknowledged, Registered
    <2> QED  BY <2>3, <2>4 DEF DirectoryInv
  <1>3. CASE acceptHandshake(s)
    <2>1. reply[s] = "joining" /\ reply'[s] = "ACK" /\ stationId_'[s] = device[s]
      BY <1>3 DEF acceptHandshake, TypeInv, TypeOK
    <2>2. obj[s] = "alive"
      BY <2>1 DEF TypeInv, LiveSessions
    <2>3. Entered'
      BY <1>1, <2>1, <2>2, EntriesStay DEF DirectoryInv
    <2>4. Acknowledged' /\ Registered'
      BY <1>1, <2>1 DEF DirectoryInv, Acknowledged, Registered
    <2> QED  BY <2>3, <2>4 DEF DirectoryInv
  <1> QED  BY <1>2, <1>3

LEMMA DirectoryDestroy ==
    ASSUME TypeInv, DirectoryInv, NEW s \in Session, Destroy(s)
    PROVE  DirectoryInv'
  <1> DEFINE k == KindOf(s)
  <1>1. /\ obj[s] = "alive" /\ obj'[s] = "destroyed" /\ k \in Kind
        /\ UNCHANGED <<device, stationId_, reply>>
        /\ \A t \in Session \ {s} : obj'[t] = obj[t]
    BY KindIsKind DEF Destroy, TypeInv, TypeOK
  <1>2. reply[s] # "joining"
    BY DEF Destroy, Referenced, TypeInv, LiveSessions
  <1>3. \A j \in Kind, id \in StationId :
            tcp_sessions_'[j][id] =
                IF j = k /\ id = stationId_[s] THEN None ELSE tcp_sessions_[j][id]
    BY <1>1 DEF Destroy, leave, TypeInv, TypeOK, DirectoryTypeOK
  <1>4. \A j \in Kind, id \in StationId : tcp_sessions_'[j][id] # s
    BY <1>1, <1>2, <1>3, DirectoryAssumption DEF DirectoryInv, Entered, Acknowledged
  <1>5. Entered'
    BY <1>1, <1>3, <1>4, EntriesStay DEF DirectoryInv
  <1>6. Acknowledged'
    BY <1>1 DEF DirectoryInv, Acknowledged
  <1>7. Registered'
    <2> SUFFICES ASSUME NEW t \in Session, obj'[t] = "alive",
                        reply[t] \in {"joining", "ACK"}, ~struck'[t]
                 PROVE  tcp_sessions_'[KindOf(t)][device[t]] = t
      BY <1>1 DEF Registered
    <2>1. t # s /\ obj[t] = "alive" /\ device[t] \in StationId /\ KindOf(t) \in Kind
      BY <1>1, KindIsKind DEF TypeInv, LiveSessions
    <2>2. ~struck[t] /\ t \notin strays(s)
      BY DEF Destroy
    <2>3. tcp_sessions_[KindOf(t)][device[t]] = t
      BY <2>1, <2>2 DEF DirectoryInv, Registered
    <2>4. ~(KindOf(t) = k /\ device[t] = stationId_[s])
      <3>1. CASE reply[s] = "ACK" /\ ~struck[s]
        <4>1. stationId_[s] = device[s] /\ tcp_sessions_[k][device[s]] = s
          BY <1>1, <3>1 DEF DirectoryInv, Acknowledged, Registered
        <4> QED  BY <2>1, <2>3, <4>1
      <3>2. CASE ~(reply[s] = "ACK" /\ ~struck[s])
        BY <2>1, <2>2, <2>3, <3>2 DEF strays, robbed
      <3> QED  BY <3>1, <3>2
    <2> QED  BY <1>3, <2>1, <2>3, <2>4
  <1> QED  BY <1>5, <1>6, <1>7 DEF DirectoryInv

LEMMA DirectoryStep == TypeInv /\ DirectoryInv /\ [Next]_vars => DirectoryInv'
  <1> SUFFICES ASSUME TypeInv, DirectoryInv, [Next]_vars
               PROVE  DirectoryInv'
    OBVIOUS
  <1>1. ASSUME NEW s \in Session, SessionStep(s)
        PROVE  DirectoryInv'
    <2>1. CASE PeerClose(s) \/ ReadError(s) \/ UnknownPacket(s) \/ TimersEnd(s)
               \/ Transmit(s) \/ WriteFail(s)
               \/ handleWeatherStatusPacket(s) \/ onWeatherStatusNotification(s)
      <3>1. UNCHANGED <<tcp_sessions_, obj, device, stationId_, reply, struck>>
        BY <2>1 DEF PeerClose, ReadError, UnknownPacket, TimersEnd, Transmit, WriteFail,
             handleWeatherStatusPacket, onWeatherStatusNotification, tcp
      <3> QED  BY <3>1, DirectoryFrame
    <2> QED  BY <1>1, <2>1, DirectoryAccept, DirectoryHandshake, DirectoryAnswer,
                DirectoryDestroy DEF SessionStep
  <1>2. ASSUME NEW f \in Frontend, FrontendStep(f)
        PROVE  DirectoryInv'
    <2>1. UNCHANGED <<tcp_sessions_, obj, device, stationId_, reply, struck>>
      BY <1>2 DEF FrontendStep, Lookup, handleWeatherStatusRequest, findPlainStation, readEntry,
           lockPlain, findSSLStation, lockSSL, lock, FreedRead, writePacket, Left, tcp
    <2> QED  BY <2>1, DirectoryFrame
  <1>3. CASE UNCHANGED vars
    BY <1>3, DirectoryFrame DEF vars, tcp
  <1> QED  BY <1>1, <1>2, <1>3 DEF Next
----------------------------------------------------------------------------
(* Pointers.  As long as the session that was read is not destroyed, its       *)
(* address holds no other.                                                    *)

LEMMA PointedSession ==
    ASSUME TypeInv, Pointed, NEW s \in Session, SessionStep(s)
    PROVE  Pointed'
  <1>1. ptr' = ptr /\ todo' = todo
    BY DEF SessionStep, Accept, handleHandshakePacket, RefuseHandshake, acceptHandshake, PeerClose,
         ReadError, UnknownPacket, TimersEnd, Destroy, Transmit, WriteFail,
         handleWeatherStatusPacket, onWeatherStatusNotification, request
  <1>2. CASE Destroy(s)
    <2>1. /\ UNCHANGED <<reply, device>> /\ \A t \in Session \ {s} : obj'[t] = obj[t]
          /\ \A f \in Frontend : dangled'[f] = (dangled[f] \/ ptr[f] = s)
      BY <1>2 DEF Destroy, TypeInv, TypeOK
    <2>2. \A f \in Frontend : ptr[f] \in Session \cup {None}
      BY DEF TypeInv, TypeOK
    <2> QED  BY <1>1, <2>1, <2>2 DEF Pointed
  <1>3. CASE ~Destroy(s)
    <2>1. dangled' = dangled
      BY <1>3 DEF SessionStep, Accept, handleHandshakePacket, RefuseHandshake, acceptHandshake,
           PeerClose, ReadError, UnknownPacket, TimersEnd, Transmit, WriteFail,
           handleWeatherStatusPacket, onWeatherStatusNotification, request
    <2>2. \A t \in Session : obj[t] = "alive" /\ reply[t] \in {"joining", "ACK"} =>
              obj'[t] = "alive" /\ reply'[t] \in {"joining", "ACK"} /\ device'[t] = device[t]
      <3>1. CASE \E d \in StationId : Accept(s, d)
        BY <3>1 DEF Accept, TypeInv, TypeOK
      <3>2. CASE handleHandshakePacket(s) \/ RefuseHandshake(s) \/ acceptHandshake(s)
        BY <3>2 DEF handleHandshakePacket, RefuseHandshake, acceptHandshake, TypeInv, TypeOK
      <3>3. CASE PeerClose(s) \/ ReadError(s) \/ UnknownPacket(s) \/ TimersEnd(s)
                 \/ Transmit(s) \/ WriteFail(s)
                 \/ handleWeatherStatusPacket(s) \/ onWeatherStatusNotification(s)
        BY <3>3 DEF PeerClose, ReadError, UnknownPacket, TimersEnd, Transmit, WriteFail,
             handleWeatherStatusPacket, onWeatherStatusNotification, tcp
      <3> QED  BY <1>3, <3>1, <3>2, <3>3 DEF SessionStep
    <2>3. \A f \in Frontend : ptr[f] \in Session \cup {None}
      BY DEF TypeInv, TypeOK
    <2> QED  BY <1>1, <2>1, <2>2, <2>3 DEF Pointed
  <1> QED  BY <1>2, <1>3

LEMMA PointedRead ==
    ASSUME TypeInv, DirectoryInv, Pointed, NEW f \in Frontend,
           findPlainStation(f) \/ findSSLStation(f)
    PROVE  Pointed'
  <1>1. /\ UNCHANGED <<obj, device, reply, todo, dangled>>
        /\ \A g \in Frontend \ {f} : ptr'[g] = ptr[g]
        /\ \E k \in Kind : ptr'[f] = tcp_sessions_[k][Head(todo[f])]
    BY DEF findPlainStation, findSSLStation, readEntry, tcp, TypeInv, TypeOK, Kind
  <1>2. Head(todo[f]) \in StationId
    BY DEF findPlainStation, findSSLStation, TypeInv, TypeOK
  <1>3. ptr'[f] # None => /\ device[ptr'[f]] = Head(todo[f])
                          /\ reply[ptr'[f]] \in {"joining", "ACK"} /\ obj[ptr'[f]] = "alive"
    BY <1>1, <1>2 DEF DirectoryInv, Entered
  <1> QED  BY <1>1, <1>3 DEF Pointed

LEMMA NextStation ==
    ASSUME TypeInv, NEW f \in Frontend, NEW ids, nextStation(f, ids)
    PROVE  /\ pc'[f] = IF ids = <<>> THEN "idle" ELSE "plain"
           /\ todo'[f] = ids
           /\ \A g \in Frontend \ {f} : pc'[g] = pc[g] /\ todo'[g] = todo[g]
  BY DEF nextStation, TypeInv, TypeOK

LEMMA PointedLock ==
    ASSUME TypeInv, Pointed, NEW f \in Frontend,
           \/ handleWeatherStatusRequest(f) \/ lockPlain(f) \/ lockSSL(f)
           \/ FreedRead(f) \/ writePacket(f) \/ Left(f)
    PROVE  Pointed'
  <1>1. /\ UNCHANGED <<obj, device, reply>>
        /\ \A g \in Frontend \ {f} : /\ ptr'[g] = ptr[g] /\ todo'[g] = todo[g]
                                     /\ dangled'[g] = dangled[g]
        /\ \/ ptr'[f] = None
           \/ ptr'[f] = ptr[f] /\ todo'[f] = todo[f] /\ dangled'[f] = dangled[f]
    <2>1. CASE handleWeatherStatusRequest(f)
      <3>1. ptr[f] = None /\ UNCHANGED <<obj, device, reply, ptr, dangled>>
        BY <2>1 DEF handleWeatherStatusRequest, tcp, TypeInv, HeldPointers
      <3>2. PICK ids \in Requests : nextStation(f, ids)
        BY <2>1 DEF handleWeatherStatusRequest
      <3>3. \A g \in Frontend \ {f} : todo'[g] = todo[g]
        BY <3>2, NextStation
      <3> QED  BY <3>1, <3>3
    <2>2. CASE lockPlain(f) \/ lockSSL(f)
      BY <2>2 DEF lockPlain, lockSSL, lock, dropPointer, tcp, TypeInv, TypeOK
    <2>3. CASE writePacket(f)
      <3>1. nextStation(f, Tail(todo[f])) /\ UNCHANGED <<obj, device, reply>>
        BY <2>3 DEF writePacket, tcp
      <3>2. dropPointer(f)
        BY <2>3 DEF writePacket
      <3>3. \A g \in Frontend \ {f} : todo'[g] = todo[g]
        BY <3>1, NextStation
      <3>4. ptr'[f] = None /\ \A g \in Frontend \ {f} : ptr'[g] = ptr[g] /\ dangled'[g] = dangled[g]
        BY <3>2 DEF dropPointer, TypeInv, TypeOK
      <3> QED  BY <3>1, <3>3, <3>4
    <2>4. CASE FreedRead(f) \/ Left(f)
      BY <2>4 DEF FreedRead, Left, tcp, request
    <2> QED  BY <2>1, <2>2, <2>3, <2>4
  <1> QED  BY <1>1 DEF Pointed

LEMMA PointedStep == TypeInv /\ DirectoryInv /\ Pointed /\ [Next]_vars => Pointed'
  <1> SUFFICES ASSUME TypeInv, DirectoryInv, Pointed, [Next]_vars
               PROVE  Pointed'
    OBVIOUS
  <1>1. ASSUME NEW f \in Frontend, FrontendStep(f)
        PROVE  Pointed'
    BY <1>1, PointedRead, PointedLock DEF FrontendStep, Lookup
  <1>2. CASE UNCHANGED vars
    BY <1>2, PointedFrame DEF vars, tcp, request
  <1> QED  BY <1>1, <1>2, PointedSession DEF Next

\* The session a request is written to is alive, however sessions came and went
\* since the map was read without its lock, and serves the station asked for unless
\* the one that was read was destroyed before the lock.
THEOREM FoundServes == Spec => []FoundServesUnlessDangled
  <1> DEFINE I == TypeInv /\ DirectoryInv /\ Pointed
  <1>1. I /\ [Next]_vars => I'
    BY TypeInvStep, DirectoryStep, PointedStep
  <1>2. Init => I
    BY InitTypeInv, InitDirectoryInv
  <1>3. I => FoundServesUnlessDangled
    BY DEF TypeInv, HeldPointers, Pointed, FoundServesUnlessDangled
  <1> QED  BY <1>1, <1>2, <1>3, PTL DEF Spec

----------------------------------------------------------------------------
(* A session that serves a station throughout a lookup is found: while it is  *)
(* lockable and not struck out its entry is in the map of its kind, which the *)
(* lookup has not passed.                                                    *)

\* Where a lookup of f can be that will find s.
Ahead(f, s) ==
    \/ pc[f] = "plain"
    \/ pc[f] = "plainPtr" /\ (s = ptr[f] \/ KindOf(s) = "ssl")
    \/ pc[f] = "ssl" /\ KindOf(s) = "ssl"
    \/ pc[f] = "sslPtr" /\ s = ptr[f]
    \/ pc[f] = "write" /\ ptr[f] # None

Steady ==
    \A f \in Frontend : \A s \in steady[f] \cap Lockable :
        /\ pc[f] # "idle" /\ reply[s] = "ACK" /\ device[s] = Head(todo[f])
        /\ ~struck[s] => Ahead(f, s)

LEMMA AcceptOthers ==
    ASSUME TypeInv, NEW s \in Session, NEW d \in StationId, Accept(s, d),
           NEW t \in Session \ {s}
    PROVE  /\ obj'[t] = obj[t] /\ up'[t] = up[t] /\ reply'[t] = reply[t]
           /\ device'[t] = device[t] /\ timed'[t] = timed[t] /\ struck'[t] = struck[t]
           /\ ~\E e \in StationId : Accept(t, e)
  <1>1. /\ obj'[t] = obj[t] /\ up'[t] = up[t] /\ reply'[t] = reply[t]
        /\ device'[t] = device[t] /\ timed'[t] = timed[t] /\ struck'[t] = struck[t]
    BY DEF Accept, TypeInv, TypeOK
  <1>2. ASSUME NEW e \in StationId, Accept(t, e)
        PROVE  obj[t] # "alive" /\ obj'[t] = "alive"
    BY <1>2 DEF Accept, TypeInv, TypeOK
  <1> QED  BY <1>1, <1>2

\* What can no longer be locked never can be again, until its address holds a
\* new session.
LEMMA OnlyNewLockable ==
    ASSUME TypeInv, [Next]_vars, NEW s \in Session, s \in Lockable', s \notin Lockable
    PROVE  \E d \in StationId : Accept(s, d)
  <1> SUFFICES ASSUME ~\E d \in StationId : Accept(s, d)
               PROVE  FALSE
    OBVIOUS
  <1>1. ASSUME NEW t \in Session, SessionStep(t)
        PROVE  FALSE
    <2>1. CASE \E d \in StationId : Accept(t, d)
      <3>1. t # s
        BY <2>1
      <3>2. /\ obj'[s] = obj[s] /\ up'[s] = up[s] /\ timed'[s] = timed[s]
            /\ UNCHANGED <<writes, pc, ptr>>
        BY <2>1, <3>1, AcceptOthers DEF Accept
      <3> QED  BY <3>2 DEF Lockable, Referenced
    <2>2. CASE handleHandshakePacket(t) \/ RefuseHandshake(t) \/ acceptHandshake(t)
      BY <2>2 DEF handleHandshakePacket, RefuseHandshake, acceptHandshake, Lockable, Referenced,
           TypeInv, TypeOK, LiveSessions, wire, request
    <2>3. CASE PeerClose(t) \/ ReadError(t) \/ UnknownPacket(t) \/ TimersEnd(t) \/ Destroy(t)
      <3>1. /\ UNCHANGED <<writes, pc, ptr>> /\ (obj'[s] = "alive" => obj[s] = "alive")
            /\ (up'[s] => up[s]) /\ (timed'[s] => timed[s])
        BY <2>3 DEF PeerClose, ReadError, UnknownPacket, TimersEnd, Destroy, TypeInv, TypeOK,
             wire, request
      <3> QED  BY <3>1 DEF Lockable, Referenced
    <2>4. CASE Transmit(t) \/ WriteFail(t)
      BY <2>4 DEF Transmit, WriteFail, completeWrite, Lockable, Referenced, TypeInv, TypeOK,
           tcp, request
    <2>5. CASE handleWeatherStatusPacket(t) \/ onWeatherStatusNotification(t)
      BY <2>5 DEF handleWeatherStatusPacket, onWeatherStatusNotification, Lockable, Referenced,
           tcp, wire, request
    <2> QED  BY <1>1, <2>1, <2>2, <2>3, <2>4, <2>5 DEF SessionStep
  <1>2. ASSUME NEW f \in Frontend, FrontendStep(f)
        PROVE  FALSE
    <2>1. CASE handleWeatherStatusRequest(f) \/ FreedRead(f) \/ Left(f)
      BY <2>1 DEF handleWeatherStatusRequest, nextStation, FreedRead, Left, Lockable, Referenced,
           TypeInv, TypeOK, HeldPointers, tcp, wire, request
    <2>2. ASSUME UNCHANGED <<obj, up, timed, writes>>,
                 \A g \in Frontend \ {f} : pc'[g] = pc[g] /\ ptr'[g] = ptr[g],
                 ptr'[f] = s /\ pc'[f] \notin {"plainPtr", "sslPtr"} => s \in Lockable
          PROVE  FALSE
      BY <2>2 DEF Lockable, Referenced
    <2>3. CASE findPlainStation(f) \/ findSSLStation(f)
      <3>1. /\ UNCHANGED <<obj, up, timed, writes>>
            /\ \A g \in Frontend \ {f} : pc'[g] = pc[g] /\ ptr'[g] = ptr[g]
            /\ ptr'[f] = s => pc'[f] \in {"plainPtr", "sslPtr"}
        BY <2>3, DirectoryAssumption DEF findPlainStation, findSSLStation, readEntry, TypeInv, TypeOK, tcp, wire
      <3> QED  BY <2>2, <3>1
    <2>4. CASE lockPlain(f) \/ lockSSL(f)
      <3>1. /\ UNCHANGED <<obj, up, timed, writes>>
            /\ \A g \in Frontend \ {f} : pc'[g] = pc[g] /\ ptr'[g] = ptr[g]
            /\ ptr'[f] = s => s \in Lockable
        BY <2>4, DirectoryAssumption DEF lockPlain, lockSSL, lock, dropPointer, locked, TypeInv, TypeOK, tcp, wire
      <3> QED  BY <2>2, <3>1
    <2>5. CASE writePacket(f)
      <3>1. /\ UNCHANGED <<obj, up, timed>>
            /\ \A g \in Frontend \ {f} : pc'[g] = pc[g] /\ ptr'[g] = ptr[g]
            /\ ptr'[f] = None /\ pc[f] = "write"
        BY <2>5 DEF writePacket, nextStation, dropPointer, TypeInv, TypeOK, tcp
      <3>2. writes'[s] # writes[s] => ptr[f] = s
        BY <2>5 DEF writePacket, TypeInv, TypeOK
      <3> QED  BY <3>1, <3>2, DirectoryAssumption DEF Lockable, Referenced
    <2> QED  BY <1>2, <2>1, <2>3, <2>4, <2>5 DEF FrontendStep, Lookup
  <1>3. CASE UNCHANGED vars
    BY <1>3 DEF vars, tcp, wire, request, Lockable, Referenced
  <1> QED  BY <1>1, <1>2, <1>3 DEF Next

LEMMA InitSteady == Init => Steady
  BY DEF Init, Steady

\* Sessions that are lockable keep what makes them steady.
LEMMA SteadySession ==
    ASSUME TypeInv, Steady, [Next]_vars, NEW s \in Session, SessionStep(s)
    PROVE  Steady'
  <1>1. UNCHANGED <<pc, ptr, todo>>
    BY DEF SessionStep, Accept, handleHandshakePacket, RefuseHandshake, acceptHandshake, PeerClose,
         ReadError, UnknownPacket, TimersEnd, Destroy, Transmit, WriteFail,
         handleWeatherStatusPacket, onWeatherStatusNotification, request
  <1>2. ASSUME NEW f \in Frontend, NEW t \in steady'[f] \cap Lockable'
        PROVE  /\ t \in steady[f] \cap Lockable
               /\ reply[t] = "ACK" => reply'[t] = "ACK" /\ device'[t] = device[t]
               /\ struck[t] => struck'[t]
    <2>1. CASE \E d \in StationId : Accept(s, d)
      <3>1. steady'[f] = steady[f] \ {s}
        BY <2>1 DEF Accept
      <3>2. t # s /\ t \in Session
        BY <3>1 DEF TypeInv, TypeOK
      <3>3. ~\E d \in StationId : Accept(t, d)
        BY <2>1, <3>2, AcceptOthers
      <3>4. t \in Lockable
        BY <1>2, <3>2, <3>3, OnlyNewLockable
      <3> QED  BY <2>1, <3>1, <3>2, <3>4, AcceptOthers
    <2>2. CASE ~\E d \in StationId : Accept(s, d)
      <3>1. steady' = steady
        BY <2>2 DEF SessionStep, handleHandshakePacket, RefuseHandshake, acceptHandshake, PeerClose,
             ReadError, UnknownPacket, TimersEnd, Destroy, Transmit, WriteFail,
             handleWeatherStatusPacket, onWeatherStatusNotification, request
      <3>2. UNCHANGED device 
            /\ \A r \in Session : (reply[r] = "ACK" => reply'[r] = "ACK") /\ (struck[r] => struck'[r])
        BY <2>2 DEF SessionStep, handleHandshakePacket, RefuseHandshake, acceptHandshake, PeerClose,
             ReadError, UnknownPacket, TimersEnd, Destroy, Transmit, WriteFail,
             handleWeatherStatusPacket, onWeatherStatusNotification, tcp, TypeInv, TypeOK
      <3>3. t \in Session /\ (obj'[t] = obj[t] \/ obj'[t] # "alive")
        <4>1. t \in Session
          BY <3>1 DEF TypeInv, TypeOK
        <4>2. CASE Destroy(s)
          BY <4>1, <4>2 DEF Destroy, TypeInv, TypeOK
        <4>3. CASE ~Destroy(s)
          BY <2>2, <4>1, <4>3 DEF SessionStep, handleHandshakePacket, RefuseHandshake,
               acceptHandshake, PeerClose, ReadError, UnknownPacket, TimersEnd, Transmit, WriteFail,
               handleWeatherStatusPacket, onWeatherStatusNotification, tcp
        <4> QED  BY <4>2, <4>3
      <3>4. ~\E d \in StationId : Accept(t, d)
        <4>1. \A d \in StationId : Accept(t, d) => obj[t] # "alive" /\ obj'[t] = "alive"
          BY <3>3 DEF Accept, TypeInv, TypeOK
        <4> QED  BY <3>3, <4>1
      <3>5. t \in Lockable
        BY <1>2, <3>3, <3>4, OnlyNewLockable
      <3> QED  BY <1>2, <3>1, <3>2, <3>3, <3>5
    <2> QED  BY <2>1, <2>2
  <1> QED  BY <1>1, <1>2 DEF Steady, Ahead

\* A step of one frontend leaves the lookups of the others as they are.
LEMMA SteadyOthers ==
    ASSUME TypeInv, Steady, [Next]_vars, NEW f \in Frontend,
           UNCHANGED <<obj, device, reply, struck>>,
           \A g \in Frontend \ {f} : /\ pc'[g] = pc[g] /\ ptr'[g] = ptr[g]
                                     /\ todo'[g] = todo[g] /\ steady'[g] = steady[g],
           \A s \in steady'[f] \cap Lockable :
                 /\ pc'[f] # "idle" /\ reply[s] = "ACK" /\ device[s] = Head(todo'[f])
                 /\ ~struck[s] => Ahead(f, s)'
    PROVE  Steady'
  <1>1. ASSUME NEW s \in Session, s \in Lockable'
        PROVE  s \in Lockable
    <2>1. \A d \in StationId : ~Accept(s, d)
      BY <1>1 DEF Accept, Lockable, TypeInv, TypeOK
    <2> QED  BY <1>1, <2>1, OnlyNewLockable
  <1>2. Lockable' \subseteq Lockable
    BY <1>1 DEF Lockable
  <1> QED  BY <1>2 DEF Steady, Ahead

LEMMA SteadyRequest ==
    ASSUME TypeInv, DirectoryInv, Steady, [Next]_vars, NEW f \in Frontend,
           handleWeatherStatusRequest(f) \/ writePacket(f)
    PROVE  Steady'
  <1>1. PICK ids \in Seq(StationId) :
            /\ nextStation(f, ids)
            /\ steady' = [steady EXCEPT ![f] = IF ids = <<>> THEN {} ELSE Serving(Head(ids))]
            /\ \A g \in Frontend \ {f} : ptr'[g] = ptr[g]
    <2>1. CASE handleWeatherStatusRequest(f)
      <3>1. PICK ids \in Requests :
                nextStation(f, ids) /\ steady' = [steady EXCEPT ![f] = Serving(Head(ids))]
        BY <2>1 DEF handleWeatherStatusRequest
      <3>2. ids \in Seq(StationId) /\ ids # <<>> /\ ptr' = ptr
        BY <2>1, ExchangeAssumption DEF handleWeatherStatusRequest
      <3> QED  BY <3>1, <3>2
    <2>2. CASE writePacket(f)
      <3> DEFINE ids == Tail(todo[f])
      <3>1. todo[f] \in Seq(StationId) /\ todo[f] # <<>>
        BY <2>2 DEF writePacket, TypeInv, TypeOK
      <3>2. ids \in Seq(StationId) /\ (ids # <<>> => Head(ids) = todo[f][2])
        BY <3>1
      <3>3. /\ nextStation(f, ids)
            /\ steady' = [steady EXCEPT ![f] = IF ids = <<>> THEN {} ELSE Serving(Head(ids))]
            /\ \A g \in Frontend \ {f} : ptr'[g] = ptr[g]
        BY <2>2, <3>2 DEF writePacket, dropPointer, TypeInv, TypeOK
      <3> QED  BY <3>2, <3>3
    <2> QED  BY <2>1, <2>2
  <1>2. UNCHANGED <<obj, device, reply, struck>>
    BY DEF handleWeatherStatusRequest, writePacket, tcp
  <1>3. /\ pc'[f] = IF ids = <<>> THEN "idle" ELSE "plain"
        /\ todo'[f] = ids
        /\ \A g \in Frontend \ {f} : pc'[g] = pc[g] /\ todo'[g] = todo[g]
    BY <1>1, NextStation
  <1>4. /\ steady'[f] = IF ids = <<>> THEN {} ELSE Serving(Head(ids))
        /\ \A g \in Frontend \ {f} : steady'[g] = steady[g]
    BY <1>1 DEF TypeInv, TypeOK
  <1>5. ASSUME NEW s \in steady'[f]
        PROVE  pc'[f] = "plain" /\ reply[s] = "ACK" /\ device[s] = Head(todo'[f])
    BY <1>3, <1>4, <1>5 DEF Serving, Lockable, DirectoryInv, Acknowledged
  <1>6. \A s \in steady'[f] : Ahead(f, s)'
    BY <1>5 DEF Ahead
  <1> QED  BY <1>1, <1>2, <1>3, <1>4, <1>5, <1>6, SteadyOthers

LEMMA SteadyLookup ==
    ASSUME TypeInv, DirectoryInv, Steady, [Next]_vars, NEW f \in Frontend,
           findPlainStation(f) \/ lockPlain(f) \/ findSSLStation(f) \/ lockSSL(f)
    PROVE  Steady'
  <1>1. /\ UNCHANGED <<obj, device, reply, struck, todo, steady>>
        /\ \A g \in Frontend \ {f} : pc'[g] = pc[g] /\ ptr'[g] = ptr[g]
        /\ pc'[f] # "idle"
    BY DEF findPlainStation, readEntry, lockPlain, findSSLStation, lockSSL, lock, dropPointer,
         afterExpired, tcp, TypeInv, TypeOK
  <1>2. ASSUME NEW s \in steady[f] \cap Lockable, ~struck[s]
        PROVE  Ahead(f, s)'
    <2>1. /\ s \in Session /\ reply[s] = "ACK" /\ device[s] = Head(todo[f]) /\ Ahead(f, s)
          /\ tcp_sessions_[KindOf(s)][Head(todo[f])] = s /\ KindOf(s) \in Kind
      BY <1>2, KindIsKind DEF Steady, DirectoryInv, Registered, Lockable
    <2>2. CASE findPlainStation(f)
      BY <2>1, <2>2, DirectoryAssumption
         DEF findPlainStation, readEntry, Ahead, KindOf, TypeInv, TypeOK
    <2>3. CASE lockPlain(f)
      BY <2>1, <2>3 DEF lockPlain, lock, locked, dropPointer, afterExpired, Ahead, TypeInv, TypeOK,
           HeldPointers
    <2>4. CASE findSSLStation(f)
      BY <2>1, <2>4, DirectoryAssumption
         DEF findSSLStation, readEntry, Ahead, TypeInv, TypeOK
    <2>5. CASE lockSSL(f)
      BY <2>1, <2>5, DirectoryAssumption
         DEF lockSSL, lock, locked, dropPointer, Ahead, TypeInv, TypeOK
    <2> QED  BY <2>2, <2>3, <2>4, <2>5
  <1>3. \A s \in steady[f] \cap Lockable : reply[s] = "ACK" /\ device[s] = Head(todo[f])
    BY DEF Steady
  <1> QED  BY <1>1, <1>2, <1>3, SteadyOthers

LEMMA SteadyStep == TypeInv /\ DirectoryInv /\ Steady /\ [Next]_vars => Steady'
  <1> SUFFICES ASSUME TypeInv, DirectoryInv, Steady, [Next]_vars
               PROVE  Steady'
    OBVIOUS
  <1>1. ASSUME NEW f \in Frontend, FrontendStep(f)
        PROVE  Steady'
    <2>1. CASE FreedRead(f) \/ Left(f)
      BY <2>1 DEF FreedRead, Left, tcp, wire, request, Steady, Ahead, Lockable, Referenced
    <2> QED  BY <1>1, <2>1, SteadyRequest, SteadyLookup DEF FrontendStep, Lookup
  <1>2. CASE UNCHANGED vars
    BY <1>2 DEF vars, tcp, wire, request, Steady, Ahead, Lockable, Referenced
  <1> QED  BY <1>1, <1>2, SteadySession DEF Next

\* A lookup that begins and ends while a session serves the station finds one,
\* whatever other sessions come and go between its reads of the two maps and
\* wherever they are allocated, unless one of them strikes the session out.
THEOREM SteadyIsFound == Spec => []SteadyStationFound
  <1> DEFINE I == TypeInv /\ DirectoryInv /\ Steady
  <1>1. I /\ [Next]_vars => I'
    BY TypeInvStep, DirectoryStep, SteadyStep
  <1>2. Init => I
    BY InitTypeInv, InitDirectoryInv, InitSteady
  <1>3. I => SteadyStationFound
    BY DEF Steady, Ahead, SteadyStationFound
  <1> QED  BY <1>1, <1>2, <1>3, PTL DEF Spec
----------------------------------------------------------------------------
(* Answers.  Whatever UUID is under way between a session and its device is of  *)
(* a frontend that asked for the station of that device, or whose request was   *)
(* led there; a request that overwrites another in the buffer came the same way. *)

Entitled(f, d) == Among(d, asked[f]) \/ Among(d, went[f])

\* UUIDs under way from a frontend to a device ...
Requested ==
    /\ \A f \in Frontend : \A i \in DOMAIN todo[f] : Among(todo[f][i], asked[f])
    /\ \A s \in Session : writes[s] # <<>> => Entitled(output_[s], device[s])

\* ... and back.
Answered ==
    /\ \A d \in StationId : \A i \in DOMAIN inbox[d] : Entitled(inbox[d][i], d)
    /\ \A s \in Session : call[s] # None =>
           Entitled(call[s].to, device[s]) /\ call[s].id = stationId_[s]

AskedInv == Requested /\ Answered /\ AskedStationsOnly

LEMMA InitAskedInv == Init => AskedInv
  BY DEF Init, AskedInv, Requested, Answered, AskedStationsOnly

LEMMA AskedFrame ==
    ASSUME AskedInv,
           UNCHANGED <<todo, writes, output_, device, inbox, call, stationId_, asked, went, answers>>
    PROVE  AskedInv'
  BY DEF AskedInv, Requested, Answered, AskedStationsOnly, Entitled, Among

\* The steps of a session that change what it serves do so with nothing under
\* way.
LEMMA AskedServing ==
    ASSUME TypeInv, AskedInv, NEW s \in Session,
           (\E d \in StationId : Accept(s, d)) \/ acceptHandshake(s)
    PROVE  AskedInv'
  <1>1. /\ UNCHANGED <<todo, writes, inbox, call, asked, went, answers>>
        /\ \A t \in Session \ {s} : output_'[t] = output_[t] /\ device'[t] = device[t]
                                    /\ stationId_'[t] = stationId_[t]
        /\ call[s] = None
        /\ writes[s] = <<>> \/ (output_'[s] = output_[s] /\ device'[s] = device[s])
    <2>1. CASE \E d \in StationId : Accept(s, d)
      BY <2>1 DEF Accept, past, TypeInv, TypeOK, LiveSessions
    <2>2. CASE acceptHandshake(s)
      BY <2>2 DEF acceptHandshake, wire, request, past, TypeInv, TypeOK, LiveSessions
    <2> QED  BY <2>1, <2>2
  <1>2. Requested'
    BY <1>1 DEF AskedInv, Requested, Entitled, Among
  <1>3. Answered'
    BY <1>1 DEF AskedInv, Answered, Entitled, Among
  <1>4. AskedStationsOnly'
    BY <1>1 DEF AskedInv, AskedStationsOnly, Among
  <1> QED  BY <1>2, <1>3, <1>4 DEF AskedInv

LEMMA AskedTransfer ==
    ASSUME TypeInv, AskedInv, NEW s \in Session, Transmit(s) \/ WriteFail(s)
    PROVE  AskedInv'
  <1>1. /\ UNCHANGED <<todo, output_, device, call, stationId_, asked, went, answers>>
        /\ writes[s] # <<>> /\ \A t \in Session : writes'[t] # <<>> => writes[t] # <<>>
    BY DEF Transmit, WriteFail, completeWrite, tcp, request, past, TypeInv, TypeOK
  <1>2. Requested'
    BY <1>1 DEF AskedInv, Requested, Entitled, Among
  <1>3. Entitled(output_[s], device[s])
    BY <1>1 DEF AskedInv, Requested
  <1>4. ASSUME NEW d \in StationId, NEW i \in DOMAIN inbox'[d]
        PROVE  Entitled(inbox'[d][i], d)
    <2>1. inbox[d] \in Seq(Frontend)
      BY DEF TypeInv, TypeOK
    <2>2. CASE inbox'[d] = inbox[d]
      BY <1>4, <2>2 DEF AskedInv, Answered
    <2>3. CASE inbox'[d] = Append(inbox[d], output_[s]) /\ d = device[s]
      <3>1. CASE i \in DOMAIN inbox[d]
        BY <2>1, <2>3, <3>1 DEF AskedInv, Answered
      <3>2. CASE i = Len(inbox[d]) + 1
        BY <1>3, <2>1, <2>3, <3>2
      <3> QED  BY <1>4, <2>1, <2>3, <3>1, <3>2
    <2>4. \/ inbox' = inbox
          \/ inbox' = [inbox EXCEPT ![device[s]] = Append(@, output_[s])]
      BY DEF Transmit, WriteFail
    <2> QED  BY <2>2, <2>3, <2>4 DEF TypeInv, TypeOK
  <1>5. Answered'
    BY <1>1, <1>4 DEF AskedInv, Answered, Entitled, Among
  <1>6. AskedStationsOnly'
    BY <1>1 DEF AskedInv, AskedStationsOnly, Among
  <1> QED  BY <1>2, <1>5, <1>6 DEF AskedInv

LEMMA AskedWeather ==
    ASSUME TypeInv, AskedInv, NEW s \in Session, handleWeatherStatusPacket(s)
    PROVE  AskedInv'
  <1> DEFINE d == device[s]
  <1>1. /\ UNCHANGED <<todo, writes, output_, device, stationId_, asked, went, answers>>
        /\ d \in StationId /\ inbox[d] \in Seq(Frontend) /\ inbox[d] # <<>>
    BY DEF handleWeatherStatusPacket, tcp, request, past, TypeInv, TypeOK, LiveSessions, Reading
  <1>2. Entitled(Head(inbox[d]), d)
    BY <1>1 DEF AskedInv, Answered
  <1>3. ASSUME NEW e \in StationId, NEW i \in DOMAIN inbox'[e]
        PROVE  Entitled(inbox'[e][i], e)
    <2>1. CASE e # d
      BY <1>3, <2>1 DEF handleWeatherStatusPacket, AskedInv, Answered, TypeInv, TypeOK
    <2>2. CASE e = d
      <3>1. inbox'[e] = Tail(inbox[d])
        BY <1>1, <2>2 DEF handleWeatherStatusPacket, TypeInv, TypeOK
      <3>2. i + 1 \in DOMAIN inbox[d] /\ Tail(inbox[d])[i] = inbox[d][i + 1]
        BY <1>1, <1>3, <3>1
      <3> QED  BY <1>1, <2>2, <3>1, <3>2 DEF AskedInv, Answered
    <2> QED  BY <2>1, <2>2
  <1>4. \/ call' = call
        \/ call' = [call EXCEPT ![s] = [to |-> Head(inbox[d]), id |-> stationId_[s]]]
    BY DEF handleWeatherStatusPacket, findWebSocketSession
  <1>5. \A t \in Session : call'[t] # None =>
            Entitled(call'[t].to, device[t]) /\ call'[t].id = stationId_[t]
    <2> SUFFICES ASSUME NEW t \in Session, call'[t] # None
                 PROVE  Entitled(call'[t].to, device[t]) /\ call'[t].id = stationId_[t]
      OBVIOUS
    <2>1. CASE call'[t] = call[t]
      BY <2>1 DEF AskedInv, Answered
    <2>2. CASE t = s /\ call'[t] = [to |-> Head(inbox[d]), id |-> stationId_[s]]
      BY <1>2, <2>2
    <2> QED  BY <1>4, <2>1, <2>2 DEF TypeInv, TypeOK
  <1>6. Requested'
    BY <1>1 DEF AskedInv, Requested, Entitled, Among
  <1>7. Answered'
    BY <1>1, <1>3, <1>5 DEF Answered, Entitled, Among
  <1>8. AskedStationsOnly'
    BY <1>1 DEF AskedInv, AskedStationsOnly, Among
  <1> QED  BY <1>6, <1>7, <1>8 DEF AskedInv

LEMMA AskedNotification ==
    ASSUME TypeInv, DirectoryInv, AskedInv, NEW s \in Session, onWeatherStatusNotification(s)
    PROVE  AskedInv'
  <1> DEFINE a == [of |-> device[s], id |-> call[s].id, acked |-> reply[s] = "ACK"]
             f == call[s].to
  <1>1. /\ UNCHANGED <<todo, writes, output_, device, inbox, stationId_, asked, went>>
        /\ call[s] # None /\ call' = [call EXCEPT ![s] = None]
        /\ answers' = answers \/ answers' = [answers EXCEPT ![f] = Append(@, a)]
    BY DEF onWeatherStatusNotification, tcp, wire, request, past
  <1>2. Entitled(f, a.of) /\ (a.acked => a.id = a.of)
    BY <1>1 DEF AskedInv, Answered, TypeInv, LiveSessions, DirectoryInv, Acknowledged
  <1>3. Requested'
    BY <1>1 DEF AskedInv, Requested, Entitled, Among
  <1>4. Answered'
    <2>1. call'[s] = None /\ \A t \in Session \ {s} : call'[t] = call[t]
      BY <1>1 DEF TypeInv, TypeOK
    <2> QED  BY <1>1, <2>1 DEF AskedInv, Answered, Entitled, Among
  <1>5. ASSUME NEW g \in Frontend, NEW i \in DOMAIN answers'[g]
        PROVE  /\ Entitled(g, answers'[g][i].of)
               /\ answers'[g][i].acked => answers'[g][i].id = answers'[g][i].of
    <2>1. answers[g] \in Seq(Answer)
      BY DEF TypeInv, TypeOK
    <2>2. CASE answers'[g] = answers[g]
      BY <1>5, <2>2 DEF AskedInv, AskedStationsOnly, Entitled, Among
    <2>3. CASE answers'[g] = Append(answers[g], a) /\ g = f
      <3> HIDE DEF a
      <3>1. CASE i \in DOMAIN answers[g]
        BY <2>1, <2>3, <3>1 DEF AskedInv, AskedStationsOnly, Entitled, Among
      <3>2. CASE i = Len(answers[g]) + 1
        BY <1>2, <2>1, <2>3, <3>2
      <3> QED  BY <1>5, <2>1, <2>3, <3>1, <3>2
    <2>4. answers'[g] = answers[g] \/ (answers'[g] = Append(answers[g], a) /\ g = f)
      <3> HIDE DEF a, f
      <3> QED  BY <1>1 DEF TypeInv, TypeOK
    <2> QED  BY <2>2, <2>3, <2>4
  <1>6. AskedStationsOnly'
    BY <1>1, <1>5 DEF AskedStationsOnly, Entitled, Among
  <1> QED  BY <1>3, <1>4, <1>6 DEF AskedInv

LEMMA AskedRequest ==
    ASSUME TypeInv, AskedInv, NEW f \in Frontend, handleWeatherStatusRequest(f)
    PROVE  AskedInv'
  <1>1. PICK ids \in Requests :
            nextStation(f, ids) /\ asked' = [asked EXCEPT ![f] = @ \o ids]
    BY DEF handleWeatherStatusRequest
  <1>2. /\ ids \in Seq(StationId) /\ asked[f] \in Seq(StationId)
        /\ UNCHANGED <<writes, output_, device, inbox, call, stationId_, went, answers>>
    BY ExchangeAssumption DEF handleWeatherStatusRequest, TypeInv, TypeOK, tcp, wire
  <1>3. /\ asked'[f] = asked[f] \o ids
        /\ \A g \in Frontend \ {f} : asked'[g] = asked[g]
    BY <1>1 DEF TypeInv, TypeOK
  <1>4. /\ \A j \in DOMAIN asked[f] : j \in DOMAIN asked'[f] /\ asked'[f][j] = asked[f][j]
        /\ \A i \in DOMAIN ids : Len(asked[f]) + i \in DOMAIN asked'[f]
                                 /\ asked'[f][Len(asked[f]) + i] = ids[i]
    BY <1>2, <1>3, ConcatProperties
  <1>5. \A g \in Frontend : \A d : /\ Among(d, asked[g]) => Among(d, asked'[g])
                                   /\ Entitled(g, d) => Entitled(g, d)'
    <2>1. \A g \in Frontend : \A d : Among(d, asked[g]) => Among(d, asked'[g])
      BY <1>3, <1>4 DEF Among
    <2> QED  BY <1>2, <2>1 DEF Entitled, Among
  <1>6. \A i \in DOMAIN ids : Among(ids[i], asked'[f])
    BY <1>4 DEF Among
  <1>7. todo'[f] = ids /\ \A g \in Frontend \ {f} : todo'[g] = todo[g]
    BY <1>1, NextStation
  <1>8. Requested'
    <2>1. \A g \in Frontend : \A i \in DOMAIN todo'[g] : Among(todo'[g][i], asked'[g])
      BY <1>5, <1>6, <1>7 DEF AskedInv, Requested
    <2>2. \A s \in Session : writes[s] # <<>> => output_[s] \in Frontend
      BY DEF TypeInv, TypeOK, LiveSessions
    <2>3. \A s \in Session : writes[s] # <<>> =>
              Among(device[s], asked'[output_[s]]) \/ Among(device[s], went[output_[s]])
      BY <1>5, <2>2 DEF AskedInv, Requested, Entitled
    <2> QED  BY <1>2, <2>1, <2>3 DEF Requested, Entitled, Among
  <1>9. Answered'
    <2>1. \A d \in StationId : \A i \in DOMAIN inbox[d] : inbox[d][i] \in Frontend
      BY DEF TypeInv, TypeOK
    <2>2. \A s \in Session : call[s] # None => call[s].to \in Frontend
      BY DEF TypeInv, TypeOK, Notification
    <2>3. \A d \in StationId : \A i \in DOMAIN inbox[d] :
              \/ Among(d, asked'[inbox[d][i]])
              \/ Among(d, went[inbox[d][i]])
      BY <1>5, <2>1 DEF AskedInv, Answered, Entitled
    <2>4. \A s \in Session : call[s] # None =>
              /\ Among(device[s], asked'[call[s].to]) \/ Among(device[s], went[call[s].to])
              /\ call[s].id = stationId_[s]
      BY <1>5, <2>2 DEF AskedInv, Answered, Entitled
    <2> QED  BY <1>2, <2>3, <2>4 DEF Answered, Entitled, Among
  <1>10. AskedStationsOnly'
    <2>1. \A g \in Frontend : \A i \in DOMAIN answers[g] :
              /\ Among(answers[g][i].of, asked[g]) \/ Among(answers[g][i].of, went[g])
              /\ answers[g][i].acked => answers[g][i].id = answers[g][i].of
      BY DEF AskedInv, AskedStationsOnly
    <2>2. \A g \in Frontend : \A i \in DOMAIN answers[g] :
              /\ Among(answers[g][i].of, asked'[g]) \/ Among(answers[g][i].of, went[g])
              /\ answers[g][i].acked => answers[g][i].id = answers[g][i].of
      BY <1>5, <2>1
    <2> QED  BY <1>2, <2>2 DEF AskedStationsOnly, Among
  <1> QED  BY <1>8, <1>9, <1>10 DEF AskedInv

\* A request that is led astray entitles its frontend to an answer where it went.
LEMMA AskedWritePacket ==
    ASSUME TypeInv, AskedInv, NEW f \in Frontend, writePacket(f)
    PROVE  AskedInv'
  <1>1. /\ UNCHANGED <<device, inbox, call, stationId_, asked, answers>>
        /\ nextStation(f, Tail(todo[f]))
    BY DEF writePacket, tcp
  <1>2. todo[f] \in Seq(StationId) /\ todo[f] # <<>>
    BY DEF writePacket, TypeInv, TypeOK
  <1>3. Among(Head(todo[f]), asked[f])
    BY <1>2 DEF AskedInv, Requested
  <1>4. ASSUME NEW g \in Frontend, NEW i \in DOMAIN todo'[g]
        PROVE  Among(todo'[g][i], asked[g])
    <2>1. CASE g # f
      BY <1>1, <1>4, <2>1, NextStation DEF AskedInv, Requested
    <2>2. CASE g = f
      <3>1. todo'[g] = Tail(todo[f])
        BY <1>1, <2>2, NextStation
      <3>2. i + 1 \in DOMAIN todo[f] /\ Tail(todo[f])[i] = todo[f][i + 1]
        BY <1>2, <1>4, <3>1
      <3> QED  BY <2>2, <3>1, <3>2 DEF AskedInv, Requested
    <2> QED  BY <2>1, <2>2
  <1>5. /\ \A g \in Frontend : \A d : Among(d, went[g]) => Among(d, went'[g])
        /\ ptr[f] # None /\ device[ptr[f]] # Head(todo[f]) => Among(device[ptr[f]], went'[f])
    <2>1. CASE ptr[f] = None \/ device[ptr[f]] = Head(todo[f])
      <3>1. went' = went
        BY <2>1 DEF writePacket
      <3> QED  BY <2>1, <3>1
    <2>2. CASE ~(ptr[f] = None \/ device[ptr[f]] = Head(todo[f]))
      <3>1. /\ went[f] \in Seq(StationId) /\ device[ptr[f]] \in StationId
            /\ went'[f] = Append(went[f], device[ptr[f]])
            /\ \A g \in Frontend \ {f} : went'[g] = went[g]
        BY <2>2 DEF writePacket, TypeInv, TypeOK, LiveSessions, HeldPointers
      <3>2. /\ \A j \in DOMAIN went[f] : j \in DOMAIN went'[f] /\ went'[f][j] = went[f][j]
            /\ Len(went[f]) + 1 \in DOMAIN went'[f]
            /\ went'[f][Len(went[f]) + 1] = device[ptr[f]]
        BY <3>1
      <3> QED  BY <3>1, <3>2 DEF Among
    <2> QED  BY <2>1, <2>2
  <1>6. \A g \in Frontend : \A d : Entitled(g, d) => Among(d, asked[g]) \/ Among(d, went'[g])
    BY <1>5 DEF Entitled
  <1>7. ASSUME NEW s \in Session, writes'[s] # <<>>
        PROVE  Among(device[s], asked[output_'[s]]) \/ Among(device[s], went'[output_'[s]])
    <2>1. CASE ptr[f] = None \/ s # ptr[f]
      <3>1. output_'[s] = output_[s] /\ writes'[s] = writes[s]
        BY <2>1 DEF writePacket, TypeInv, TypeOK
      <3>2. output_[s] \in Frontend
        BY <1>7, <3>1 DEF TypeInv, TypeOK, LiveSessions
      <3> QED  BY <1>6, <1>7, <3>1, <3>2 DEF AskedInv, Requested
    <2>2. CASE ptr[f] # None /\ s = ptr[f]
      <3>1. output_'[s] = f
        BY <2>2 DEF writePacket, TypeInv, TypeOK
      <3> QED  BY <1>3, <1>5, <2>2, <3>1
    <2> QED  BY <2>1, <2>2
  <1>8. Requested'
    BY <1>1, <1>4, <1>7 DEF Requested, Entitled, Among
  <1>9. Answered'
    <2>1. \A d \in StationId : \A i \in DOMAIN inbox[d] :
              /\ inbox[d][i] \in Frontend
              /\ Among(d, asked[inbox[d][i]]) \/ Among(d, went'[inbox[d][i]])
      BY <1>6 DEF AskedInv, Answered, TypeInv, TypeOK
    <2>2. \A s \in Session : call[s] # None =>
              /\ Among(device[s], asked[call[s].to]) \/ Among(device[s], went'[call[s].to])
              /\ call[s].id = stationId_[s]
      BY <1>6 DEF AskedInv, Answered, TypeInv, TypeOK, Notification
    <2> QED  BY <1>1, <2>1, <2>2 DEF Answered, Entitled, Among
  <1>10. AskedStationsOnly'
    <2>1. \A g \in Frontend : \A i \in DOMAIN answers[g] :
              /\ Among(answers[g][i].of, asked[g]) \/ Among(answers[g][i].of, went'[g])
              /\ answers[g][i].acked => answers[g][i].id = answers[g][i].of
      BY <1>5 DEF AskedInv, AskedStationsOnly
    <2> QED  BY <1>1, <2>1 DEF AskedStationsOnly, Among
  <1> QED  BY <1>8, <1>9, <1>10 DEF AskedInv

LEMMA AskedStep == TypeInv /\ DirectoryInv /\ AskedInv /\ [Next]_vars => AskedInv'
  <1> SUFFICES ASSUME TypeInv, DirectoryInv, AskedInv, [Next]_vars
               PROVE  AskedInv'
    OBVIOUS
  <1>1. ASSUME NEW s \in Session, SessionStep(s)
        PROVE  AskedInv'
    <2>1. CASE handleHandshakePacket(s) \/ RefuseHandshake(s) \/ PeerClose(s) \/ ReadError(s)
               \/ UnknownPacket(s) \/ TimersEnd(s) \/ Destroy(s)
      <3>1. UNCHANGED <<todo, writes, output_, device, inbox, call, stationId_, asked, went,
                        answers>>
        BY <2>1 DEF handleHandshakePacket, RefuseHandshake, PeerClose, ReadError, UnknownPacket,
             TimersEnd, Destroy, wire, request, past
      <3> QED  BY <3>1, AskedFrame
    <2> QED  BY <1>1, <2>1, AskedServing, AskedTransfer, AskedWeather, AskedNotification
             DEF SessionStep
  <1>2. ASSUME NEW f \in Frontend, FrontendStep(f)
        PROVE  AskedInv'
    <2>1. CASE findPlainStation(f) \/ lockPlain(f) \/ findSSLStation(f) \/ lockSSL(f)
               \/ FreedRead(f) \/ Left(f)
      <3>1. UNCHANGED <<todo, writes, output_, device, inbox, call, stationId_, asked, went,
                        answers>>
        BY <2>1 DEF findPlainStation, readEntry, lockPlain, findSSLStation, lockSSL, lock,
             FreedRead, Left, tcp, wire, request, past
      <3> QED  BY <3>1, AskedFrame
    <2> QED  BY <1>2, <2>1, AskedRequest, AskedWritePacket DEF FrontendStep, Lookup
  <1>3. CASE UNCHANGED vars
    BY <1>3, AskedFrame DEF vars, tcp, wire, request, past
  <1> QED  BY <1>1, <1>2, <1>3 DEF Next

\* A frontend is only sent weather of stations it asked for, or that a request of
\* its own was led to, and under their id unless the device was not acknowledged.
THEOREM OnlyAskedAreAnswered == Spec => []AskedStationsOnly
  <1> DEFINE I == TypeInv /\ DirectoryInv /\ AskedInv
  <1>1. I /\ [Next]_vars => I'
    BY TypeInvStep, DirectoryStep, AskedStep
  <1>2. Init => I
    BY InitTypeInv, InitDirectoryInv, InitAskedInv
  <1>3. I => AskedStationsOnly
    BY DEF AskedInv
  <1> QED  BY <1>1, <1>2, <1>3, PTL DEF Spec
============================================================================
