-------------------------- MODULE HttpSessionProofs -------------------------
(***************************************************************************)
(* Proofs about HttpSession and the WebSocketSession it extends, for any    *)
(* number of connections, of responses in a queue and of notifications     *)
(* under way.                                                              *)
(***************************************************************************)
EXTENDS HttpSession, TLAPS

\* What follows a pointer: an entry is under the UUID of its own session, which
\* is alive, and a handler or a callback holds one that is alive.  uuid_ is no
\* other session's, so no session takes the entry of another with it.
Owned ==
    \A w \in Session :
        /\ w \in sessions_ => uuid_[w] = w /\ obj[w] = "alive"
        /\ InUse(w) => obj[w] = "alive"
        /\ uuid_[w] \in {w, NoUuid}

\* A write in flight is that of a response in the queue.
WritesQueued == \A w \in Session : writing[w] => queue_[w] > 0

\* A session whose object does not exist yet does nothing.
NotBegun == \A w \in Session : obj[w] = "none" => op[w] = "none"

Inv == HttpTypeOK /\ Owned /\ WritesQueued /\ NotBegun

LEMMA InitInv == HttpInit => Inv
  <1> SUFFICES ASSUME HttpInit
               PROVE  Inv
    OBVIOUS
  <1>1. HttpTypeOK
    BY WebSocketAssumption DEF HttpInit, Init, HttpTypeOK, TypeOK, Phase, HttpPhase
  <1>2. Owned /\ WritesQueued /\ NotBegun
    BY DEF HttpInit, Init, Owned, InUse, WritesQueued, NotBegun
  <1> QED  BY <1>1, <1>2 DEF Inv
----------------------------------------------------------------------------
(* The types. *)

\* A response that is queued fits, and one that is written was queued.
LEMMA WriteRequestType ==
    ASSUME TypeOK, WritesQueued, NEW w \in Session, writeRequest(w)
    PROVE  /\ queue_' \in [Session -> 0..MaxQueue]
           /\ writing' \in [Session -> BOOLEAN]
           /\ WritesQueued'
  <1>1. MaxQueue \in Nat /\ MaxQueue > 0
    BY WebSocketAssumption
  <1>2. /\ queue_ \in [Session -> 0..MaxQueue] /\ writing \in [Session -> BOOLEAN]
        /\ queue_' = [queue_ EXCEPT ![w] = IF Stuck(w) THEN @ ELSE @ + 1]
        /\ writing' = [writing EXCEPT ![w] = ~Stuck(w)]
        /\ writing[w] => queue_[w] < MaxQueue
    BY DEF TypeOK, writeRequest
  <1>3. ~Stuck(w) => queue_[w] + 1 \in 0..MaxQueue
    BY <1>1, <1>2 DEF Stuck
  <1>4. Stuck(w) \in BOOLEAN
    BY DEF Stuck
  <1>5. queue_' \in [Session -> 0..MaxQueue] /\ writing' \in [Session -> BOOLEAN]
    BY <1>2, <1>3, <1>4
  <1>6. WritesQueued'
    <2>1. ASSUME NEW v \in Session, writing'[v]
          PROVE  queue_'[v] > 0
      BY <1>1, <1>2, <1>4, <2>1 DEF WritesQueued
    <2> QED  BY <2>1 DEF WritesQueued
  <1> QED  BY <1>5, <1>6

\* The steps of the stream leave the HTTP session as it is and make no object.
LEMMA StreamType ==
    ASSUME Inv, NEW w \in Session, StreamStep(w)
    PROVE  /\ TypeOK' /\ WritesQueued'
           /\ \A c \in Session : obj'[c] # "none" <=> obj[c] # "none"
  <1> USE DEF Inv, HttpTypeOK
  <1>1. CASE Destroy(w)
    BY <1>1 DEF Destroy, leave, TypeOK, Phase, WritesQueued
  <1>2. CASE PeerGone(w)
    BY <1>2 DEF PeerGone, TypeOK, Phase, WritesQueued
  <1>3. CASE WriteDone(w)
    BY <1>3, WebSocketAssumption DEF WriteDone, TypeOK, Phase, WritesQueued
  <1>4. CASE WriteFail(w)
    BY <1>4 DEF WriteFail, TypeOK, Phase, WritesQueued
  <1>5. CASE onAccept(w)
    BY <1>5 DEF onAccept, Accepted, NotAccepted, TypeOK, Phase, WritesQueued
  <1>6. CASE ReadMessage(w)
    BY <1>6, WebSocketAssumption DEF ReadMessage, TypeOK, Phase, WritesQueued
  <1>7. CASE ReadError(w) \/ ShortMessage(w)
    BY <1>7 DEF ReadError, ShortMessage, Parsing, EndOfReading, leave, TypeOK, Phase, WritesQueued
  <1>8. CASE handleAvailableStations(w)
    <2>1. /\ writeRequest(w) /\ Good(w)
          /\ UNCHANGED <<sessions_, obj, uuid_, gone, asked, calls>>
      BY <1>8 DEF handleAvailableStations
    <2>2. buffer_' \in [Session -> Message \cup {None}] /\ op' \in [Session -> Phase]
          /\ \A v \in Session : op'[v] = "parse" <=> buffer_'[v] # None
      BY <2>1, WebSocketAssumption DEF Good, TypeOK, Phase
    <2> QED  BY <2>1, <2>2, WriteRequestType DEF TypeOK
  <1>9. CASE handleWeatherStatusRequest(w)
    <2>1. Good(w) /\ AskStations(w) /\ UNCHANGED <<sessions_, obj, uuid_, gone, calls, queue_, writing>>
      BY <1>9 DEF handleWeatherStatusRequest
    <2>2. buffer_' \in [Session -> Message \cup {None}] /\ op' \in [Session -> Phase]
          /\ \A v \in Session : op'[v] = "parse" <=> buffer_'[v] # None
      BY <2>1, WebSocketAssumption DEF Good, TypeOK, Phase
    <2>3. asked' \in [Session -> BOOLEAN]
      BY <2>1 DEF AskStations, TypeOK
    <2> QED  BY <2>1, <2>2, <2>3 DEF TypeOK, WritesQueued
  <1>10. CASE Bad(w)
    <2>1. asked' \in [Session -> BOOLEAN]
      BY <1>10 DEF Bad, AskStations, TypeOK
    <2> QED  BY <1>10, <2>1 DEF Bad, TypeOK, Phase, WritesQueued
  <1>11. CASE PayloadTooBig(w)
    BY <1>11 DEF PayloadTooBig, vars, TypeOK, WritesQueued
  <1>12. CASE CloseDone(w)
    BY <1>12 DEF CloseDone, TypeOK, Phase, WritesQueued
  <1>13. CASE findWebSocketSession(w)
    BY <1>13, WebSocketAssumption DEF findWebSocketSession, TypeOK, WritesQueued
  <1>14. CASE onWeatherStatusNotification(w)
    <2>1. /\ writeRequest(w) /\ calls' = [calls EXCEPT ![w] = @ - 1] /\ calls[w] > 0
          /\ UNCHANGED <<sessions_, obj, op, buffer_, uuid_, gone, asked>>
      BY <1>14 DEF onWeatherStatusNotification
    <2>2. calls' \in [Session -> 0..MaxCalls]
      BY <2>1, WebSocketAssumption DEF TypeOK
    <2> QED  BY <2>1, <2>2, WriteRequestType DEF TypeOK
  <1> QED
    BY <1>1, <1>2, <1>3, <1>4, <1>5, <1>6, <1>7, <1>8, <1>9, <1>10, <1>11, <1>12, <1>13, <1>14
       DEF StreamStep, Parse

\* run makes the object and begins to accept.
LEMMA RunType ==
    ASSUME Inv, NEW w \in Session, run(w)
    PROVE  TypeOK' /\ WritesQueued' /\ NotBegun' /\ obj' = [obj EXCEPT ![w] = "alive"]
  <1>1. op[w] # "parse"
    BY DEF Inv, NotBegun, run
  <1> QED  BY <1>1 DEF Inv, HttpTypeOK, run, TypeOK, Phase, WritesQueued, NotBegun

\* Nothing but run sets a session in motion.
LEMMA StreamNotBegun ==
    ASSUME Inv, NEW w \in Session, StreamStep(w)
    PROVE  NotBegun'
  <1>1. op \in [Session -> Phase] /\ obj \in [Session -> {"none", "alive", "destroyed"}]
    BY DEF Inv, HttpTypeOK, TypeOK
  <1>2. \A c \in Session : obj'[c] # "none" <=> obj[c] # "none"
    BY StreamType
  <1>3. \A c \in Session : op[c] = "none" => op'[c] = "none"
    <2>1. op' = op \/ \E phase \in Phase : op[w] # "none" /\ op' = [op EXCEPT ![w] = phase]
      BY DEF StreamStep, Destroy, PeerGone, WriteDone, WriteFail, onAccept, Accepted, NotAccepted,
             ReadMessage, ReadError, EndOfReading, Parse, Parsing, ShortMessage,
             handleAvailableStations, handleWeatherStatusRequest, Good, Bad, PayloadTooBig,
             CloseDone, findWebSocketSession, onWeatherStatusNotification, vars, Phase
    <2> QED  BY <1>1, <2>1
  <1> QED  BY <1>2, <1>3 DEF Inv, NotBegun

\* The HTTP session itself: it makes the object of the WebSocket session when
\* it is upgraded, and only then.
LEMMA HttpStepType ==
    ASSUME Inv, NEW c \in Session, HttpStep(c)
    PROVE  HttpTypeOK' /\ WritesQueued' /\ NotBegun'
  <1> USE DEF Inv, HttpTypeOK, goto, HttpPhase
  <1>1. CASE onAcceptHttp(c) \/ onHandshake(c) \/ EndOfStream(c) \/ HttpReadError(c)
             \/ onShutdownHttp(c)
    <2>1. /\ UNCHANGED <<response, vars>>
          /\ http[c] \notin {"write", "upgraded"}
          /\ \E phase \in {"tls", "read", "shutdown", "ended"} :
                http' = [http EXCEPT ![c] = phase]
      BY <1>1 DEF onAcceptHttp, onHandshake, EndOfStream, HttpReadError, onShutdownHttp,
                  httpDisconnect, plainDisconnect, sslDisconnect
    <2> QED  BY <2>1 DEF TypeOK, WritesQueued, NotBegun, vars
  <1>2. CASE Upgrade(c)
    <2>1. run(c) /\ http[c] = "read" /\ http' = [http EXCEPT ![c] = "upgraded"] /\ UNCHANGED response
      BY <1>2 DEF Upgrade
    <2>2. TypeOK' /\ WritesQueued' /\ NotBegun' /\ obj' = [obj EXCEPT ![c] = "alive"]
      BY <2>1, RunType
    <2>3. obj \in [Session -> {"none", "alive", "destroyed"}]
      BY DEF TypeOK
    <2> QED  BY <2>1, <2>2, <2>3
  <1>3. CASE Answer(c)
    <2>1. PICK r \in Response : response' = [response EXCEPT ![c] = r]
      <3>1. ASSUME NEW req \in Request
            PROVE  handle_request(req) \in Response
        BY DEF Request, Response, handle_request
      <3> QED  BY <1>3, <3>1 DEF Answer
    <2>2. r # None
      BY HttpAssumption
    <2>3. http[c] = "read" /\ http' = [http EXCEPT ![c] = "write"] /\ UNCHANGED vars
      BY <1>3 DEF Answer
    <2> QED  BY <2>1, <2>2, <2>3 DEF TypeOK, WritesQueued, NotBegun, vars
  <1>4. CASE onWriteHttp(c) \/ HttpWriteError(c)
    <2>1. /\ UNCHANGED vars /\ http[c] = "write"
          /\ response' = [response EXCEPT ![c] = None]
          /\ \E phase \in {"read", "shutdown", "ended"} : http' = [http EXCEPT ![c] = phase]
      BY <1>4 DEF onWriteHttp, HttpWriteError, httpDisconnect, plainDisconnect, sslDisconnect
    <2> QED  BY <2>1 DEF TypeOK, WritesQueued, NotBegun, vars
  <1>5. CASE HttpPeerGone(c)
    BY <1>5 DEF HttpPeerGone, httpVars, TypeOK, WritesQueued, NotBegun
  <1> QED  BY <1>1, <1>2, <1>3, <1>4, <1>5 DEF HttpStep, onReadHttp
----------------------------------------------------------------------------
(* Who holds a session. *)

\* A step of the stream of an object that is not alive does not make it used
\* again, and no step but the destructor ends an object.
LEMMA StreamOwned ==
    ASSUME Inv, NEW w \in Session, StreamStep(w)
    PROVE  Owned'
  <1> USE DEF Inv, HttpTypeOK, TypeOK
  <1>1. CASE Destroy(w)
    BY <1>1, WebSocketAssumption DEF Destroy, leave, Referenced, Owned, InUse
  <1>2. CASE onAccept(w)
    BY <1>2, WebSocketAssumption DEF onAccept, Accepted, NotAccepted, Owned, InUse, Phase
  <1>3. CASE ReadError(w) \/ ShortMessage(w)
    <2>1. /\ op[w] \in {"read", "parse"} /\ op' = [op EXCEPT ![w] = "ended"]
          /\ sessions_' = sessions_ \ {uuid_[w]}
          /\ UNCHANGED <<obj, uuid_, calls, writing>>
      BY <1>3 DEF ReadError, ShortMessage, Parsing, EndOfReading, leave
    <2> QED  BY <2>1 DEF Owned, InUse, Phase
  <1>4. CASE handleAvailableStations(w) \/ onWeatherStatusNotification(w)
    <2>1. obj[w] = "alive"
      BY <1>4 DEF handleAvailableStations, onWeatherStatusNotification, Parsing, Owned, InUse
    <2>2. \A v \in Session \ {w} : writing'[v] = writing[v]
      BY <1>4 DEF handleAvailableStations, onWeatherStatusNotification, writeRequest
    <2>3. /\ UNCHANGED <<sessions_, obj, uuid_>>
          /\ \A v \in Session \ {w} : op'[v] = op[v] /\ calls'[v] = calls[v]
      BY <1>4 DEF handleAvailableStations, onWeatherStatusNotification, Good
    <2> QED  BY <2>1, <2>2, <2>3 DEF Owned, InUse
  <1>5. CASE ReadMessage(w) \/ handleWeatherStatusRequest(w) \/ Bad(w) \/ CloseDone(w)
    <2>1. /\ op[w] \in {"read", "parse", "closing"}
          /\ UNCHANGED <<sessions_, obj, uuid_, calls, writing>>
          /\ \A v \in Session \ {w} : op'[v] = op[v]
      BY <1>5 DEF ReadMessage, handleWeatherStatusRequest, Good, Parsing, Bad, CloseDone
    <2> QED  BY <2>1 DEF Owned, InUse
  <1>6. CASE findWebSocketSession(w)
    BY <1>6 DEF findWebSocketSession, Owned, InUse
  <1>7. CASE WriteDone(w) \/ WriteFail(w)
    <2>1. /\ writing[w] /\ UNCHANGED <<sessions_, obj, op, uuid_, calls>>
          /\ \A v \in Session \ {w} : writing'[v] = writing[v]
      BY <1>7 DEF WriteDone, WriteFail
    <2> QED  BY <2>1 DEF Owned, InUse
  <1>8. CASE PeerGone(w) \/ PayloadTooBig(w)
    BY <1>8 DEF PeerGone, PayloadTooBig, vars, Owned, InUse
  <1> QED
    BY <1>1, <1>2, <1>3, <1>4, <1>5, <1>6, <1>7, <1>8 DEF StreamStep, Parse

LEMMA HttpOwned ==
    ASSUME Inv, NEW c \in Session, HttpStep(c)
    PROVE  Owned'
  <1>1. \/ run(c)
        \/ UNCHANGED <<sessions_, obj, op, uuid_, calls, writing>>
    BY DEF HttpStep, onReadHttp, onAcceptHttp, onHandshake, EndOfStream, HttpReadError, Upgrade,
           Answer, onWriteHttp, HttpWriteError, onShutdownHttp, HttpPeerGone, vars
  <1>2. CASE run(c)
    BY <1>2 DEF Inv, HttpTypeOK, TypeOK, Owned, InUse, run
  <1>3. CASE UNCHANGED <<sessions_, obj, op, uuid_, calls, writing>>
    BY <1>3 DEF Inv, Owned, InUse
  <1> QED  BY <1>1, <1>2, <1>3
----------------------------------------------------------------------------
LEMMA InvStep ==
    ASSUME Inv, [HttpNext]_allVars
    PROVE  Inv'
  <1>1. ASSUME NEW c \in Session, HttpStep(c)
        PROVE  Inv'
    BY <1>1, HttpStepType, HttpOwned DEF Inv
  <1>2. ASSUME NEW c \in Session, StreamStep(c), UNCHANGED httpVars
        PROVE  Inv'
    <2>1. TypeOK' /\ WritesQueued' /\ NotBegun' /\ Owned'
      BY <1>2, StreamType, StreamNotBegun, StreamOwned
    <2>2. HttpTypeOK'
      BY <1>2, <2>1, StreamType DEF httpVars, Inv, HttpTypeOK
    <2> QED  BY <2>1, <2>2 DEF Inv
  <1>3. CASE UNCHANGED allVars
    BY <1>3 DEF allVars, vars, Inv, HttpTypeOK, TypeOK, Owned, InUse, WritesQueued, NotBegun
  <1> QED  BY <1>1, <1>2, <1>3 DEF HttpNext

LEMMA Invariant == HttpSpec => []Inv
  <1>1. Inv /\ [HttpNext]_allVars => Inv'
    BY InvStep
  <1> QED  BY InitInv, <1>1, PTL DEF HttpSpec

\* Every variable of every connection keeps its type; a WebSocket session exists
\* for those that were upgraded and no others.
THEOREM HttpTypeCorrect == HttpSpec => []HttpTypeOK
  <1>1. Inv => HttpTypeOK
    BY DEF Inv
  <1> QED  BY <1>1, Invariant, PTL

\* An entry of the directory, and a callback in the hands of a TCP session, lead
\* to a session that is alive.
THEOREM CallbacksAreLive == HttpSpec => []CallbacksReachLive
  <1>1. Inv => CallbacksReachLive
    <2> SUFFICES ASSUME Inv, NEW w \in Session, w \in sessions_ \/ calls[w] > 0
                 PROVE  obj[w] = "alive"
      BY DEF CallbacksReachLive
    <2> QED  BY DEF Inv, Owned, InUse
  <1> QED  BY <1>1, Invariant, PTL

\* No step takes the last reference to a session out of the directory, so no
\* destructor runs under the mutex that leave locks.
THEOREM LeaveIsNotLast == HttpSpec => LeaveNotLast
  <1>1. ASSUME Inv, [HttpNext]_allVars, NEW w \in sessions_ \ sessions_'
        PROVE  InUse(w)
    <2>1. PICK c \in Session : sessions_' = sessions_ \ {uuid_[c]} /\ (Destroy(c) \/ InUse(c))
      <3>1. \/ UNCHANGED sessions_
            \/ \E c \in Session : sessions_' = sessions_ \cup {c}
            \/ \E c \in Session : /\ sessions_' = sessions_ \ {uuid_[c]}
                                  /\ Destroy(c) \/ op[c] \in {"read", "parse"}
        BY <1>1 DEF HttpNext, HttpStep, onReadHttp, onAcceptHttp, onHandshake, EndOfStream,
             HttpReadError, Upgrade, run, Answer, onWriteHttp, HttpWriteError, onShutdownHttp,
             HttpPeerGone, vars, allVars, StreamStep, Destroy, PeerGone, WriteDone, WriteFail,
             onAccept, Accepted, NotAccepted, ReadMessage, ReadError, EndOfReading, leave, Parse,
             Parsing, ShortMessage, handleAvailableStations, handleWeatherStatusRequest, Bad,
             PayloadTooBig, CloseDone, findWebSocketSession, onWeatherStatusNotification
      <3> QED  BY <1>1, <3>1 DEF InUse
    <2>2. w = uuid_[c] /\ w \in Session /\ w \in sessions_
      BY <1>1, <2>1 DEF Inv, HttpTypeOK, TypeOK
    <2>3. w = c
      BY <1>1, <2>2, WebSocketAssumption DEF Inv, Owned
    <2> QED  BY <2>1, <2>2, <2>3 DEF Destroy, Referenced
  <1>2. Inv /\ [HttpNext]_allVars => [\A w \in sessions_ \ sessions_' : InUse(w)]_vars
    BY <1>1
  <1> QED  BY <1>2, Invariant, PTL DEF HttpSpec, LeaveNotLast
----------------------------------------------------------------------------
(* What the directory lists.  A session that ends takes its own entry out and *)
(* no other, because uuid_ is its own by then (Owned).                        *)

Reading == {"read", "parse", "closing", "closed"}

\* A step that leaves the directory alone and moves no session in or out of
\* the phases in which it is listed.
LEMMA ListedFrame ==
    ASSUME ListedWhileRead, UNCHANGED sessions_,
           \A w \in Session : op'[w] \in Reading <=> op[w] \in Reading
    PROVE  ListedWhileRead'
  BY DEF ListedWhileRead, Reading

LEMMA ListedStep ==
    ASSUME Inv, ListedWhileRead, [HttpNext]_allVars
    PROVE  ListedWhileRead'
  <1>1. /\ op \in [Session -> Phase] /\ sessions_ \subseteq Session
        /\ uuid_ \in [Session -> Session \cup {NoUuid}]
    BY DEF Inv, HttpTypeOK, TypeOK
  <1>2. ASSUME NEW w \in Session, Destroy(w)
        PROVE  ListedWhileRead'
    <2>1. w \notin sessions_ /\ uuid_[w] \in {w, NoUuid} /\ sessions_' = sessions_ \ {uuid_[w]}
          /\ UNCHANGED op
      BY <1>2 DEF Destroy, Referenced, leave, Inv, Owned
    <2>2. sessions_' = sessions_
      BY <1>1, <2>1, WebSocketAssumption
    <2> QED  BY <2>1, <2>2, ListedFrame
  <1>3. ASSUME NEW w \in Session, Accepted(w)
        PROVE  ListedWhileRead'
    BY <1>1, <1>3 DEF Accepted, ListedWhileRead
  <1>4. ASSUME NEW w \in Session, ReadError(w) \/ ShortMessage(w)
        PROVE  ListedWhileRead'
    <2>1. /\ op[w] \in {"read", "parse"} /\ op' = [op EXCEPT ![w] = "ended"]
          /\ sessions_' = sessions_ \ {uuid_[w]}
      BY <1>4 DEF ReadError, ShortMessage, Parsing, EndOfReading, leave
    <2>2. uuid_[w] = w
      BY <2>1 DEF ListedWhileRead, Inv, Owned
    <2> QED  BY <1>1, <2>1, <2>2 DEF ListedWhileRead
  <1>5. ASSUME NEW w \in Session,
               \/ NotAccepted(w) \/ ReadMessage(w) \/ handleAvailableStations(w)
               \/ handleWeatherStatusRequest(w) \/ Bad(w) \/ CloseDone(w)
        PROVE  ListedWhileRead'
    <2>1. /\ UNCHANGED sessions_ /\ \A v \in Session \ {w} : op'[v] = op[v]
          /\ op'[w] \in Reading <=> op[w] \in Reading
      BY <1>1, <1>5 DEF NotAccepted, ReadMessage, handleAvailableStations,
                        handleWeatherStatusRequest, Parsing, Good, Bad, CloseDone, Reading
    <2> QED  BY <2>1, ListedFrame
  <1>6. ASSUME NEW c \in Session, run(c)
        PROVE  ListedWhileRead'
    <2>1. op[c] = "none" /\ op' = [op EXCEPT ![c] = "accept"] /\ UNCHANGED sessions_
      BY <1>6 DEF run, Inv, NotBegun
    <2> QED  BY <1>1, <2>1, ListedFrame DEF Reading
  <1>7. ASSUME UNCHANGED <<sessions_, op>>
        PROVE  ListedWhileRead'
    BY <1>7, ListedFrame
  <1>8. ASSUME NEW c \in Session, HttpStep(c)
        PROVE  run(c) \/ UNCHANGED <<sessions_, op>>
    BY <1>8 DEF HttpStep, onReadHttp, onAcceptHttp, onHandshake, EndOfStream, HttpReadError,
                Upgrade, Answer, onWriteHttp, HttpWriteError, onShutdownHttp, HttpPeerGone, vars
  <1>9. ASSUME NEW w \in Session,
               \/ PeerGone(w) \/ WriteDone(w) \/ WriteFail(w) \/ PayloadTooBig(w)
               \/ findWebSocketSession(w) \/ onWeatherStatusNotification(w)
        PROVE  UNCHANGED <<sessions_, op>>
    BY <1>9 DEF PeerGone, WriteDone, WriteFail, PayloadTooBig, findWebSocketSession,
                onWeatherStatusNotification, vars
  <1>10. ASSUME NEW w \in Session, StreamStep(w)
         PROVE  ListedWhileRead'
    BY <1>2, <1>3, <1>4, <1>5, <1>7, <1>9, <1>10 DEF StreamStep, onAccept, Parse
  <1>11. CASE UNCHANGED allVars
    BY <1>7, <1>11 DEF allVars, vars
  <1> QED  BY <1>6, <1>7, <1>8, <1>10, <1>11 DEF HttpNext

\* A session is listed exactly while it is read from, or closed for good.
THEOREM ListedIsRead == HttpSpec => []ListedWhileRead
  <1>1. HttpInit => Inv /\ ListedWhileRead
    BY InitInv DEF HttpInit, Init, ListedWhileRead
  <1>2. Inv /\ ListedWhileRead /\ [HttpNext]_allVars => (Inv /\ ListedWhileRead)'
    BY InvStep, ListedStep
  <1> QED  BY <1>1, <1>2, PTL DEF HttpSpec
============================================================================
