-------------------------- MODULE WebSocketSession --------------------------
(***************************************************************************)
(* The sessions of the frontends: PlainWebSocketSession and                *)
(* SSLWebSocketSession with the WebSocketSession and                       *)
(* WebSocketRequestHandler they share, from the HTTP upgrade to the        *)
(* destructor, and the directory of SharedState that leads the weather of  *)
(* a microcontroller back to the frontend that asked for it.               *)
(*                                                                         *)
(* One step is one completion handler, or one of the two calls by which    *)
(* the thread of a TCP session, which is not on the strand, notifies a     *)
(* WebSocket session: findWebSocketSession copies the callback under the   *)
(* lock, the call follows after it.  What happens within writeRequest when *)
(* two threads are in it is the subject of ResponseQueue.                  *)
(*                                                                         *)
(* A session has no owner.  Pending handlers hold it, and so do the        *)
(* callback in the directory and every copy of that callback.  Its random  *)
(* UUID is as good as its identity; the two maps of SharedState, by kind   *)
(* of session, are one set, the UUIDs being unique over both.              *)
(***************************************************************************)
EXTENDS Naturals

CONSTANTS
    Session,        \* the WebSocket sessions
    NoUuid,         \* uuid_ before it is set; no key of the directory
    None,           \* no message
    MaxQueue,       \* bound: responses in the queue of a session
    MaxCalls        \* bound: notifications of one session under way at once

\* What a frontend sends, as handle takes it: the two requests; one that is not
\* JSON, lacks a field or has an unknown id; one of more than 512 bytes; one of
\* fewer than 2.
Message == {"AvailableStations", "WeatherStatus", "malformed", "tooBig", "short"}

ASSUME WebSocketAssumption ==
    /\ NoUuid \notin Session
    /\ None \notin Message
    /\ MaxQueue \in Nat \ {0}
    /\ MaxCalls \in Nat \ {0}

VARIABLES
    sessions_,  \* plain_sessions_ and ssl_sessions_: the UUIDs in them
    obj,        \* the session object: none yet, alive or destroyed
    op,         \* what the chain of read handlers is doing (Phase)
    buffer_,    \* the message to be parsed, or None
    uuid_,
    gone,       \* the frontend closed, vanished or was reset
    asked,      \* a station was asked for weather in the name of the session
    calls,      \* copies of the callback in the hands of TCP sessions
    queue_,     \* number of responses in the queue
    writing     \* an async_write is in flight

vars == <<sessions_, obj, op, buffer_, uuid_, gone, asked, calls, queue_, writing>>

\* "accept" is the WebSocket handshake; "closing" and "closed" follow a bad
\* message; "ended" follows a failed accept or read.
Phase == {"none", "accept", "read", "parse", "closing", "closed", "ended"}

TypeOK ==
    /\ sessions_ \subseteq Session
    /\ obj \in [Session -> {"none", "alive", "destroyed"}]
    /\ op \in [Session -> Phase]
    /\ buffer_ \in [Session -> Message \cup {None}]
    /\ \A w \in Session : op[w] = "parse" <=> buffer_[w] # None
    /\ uuid_ \in [Session -> Session \cup {NoUuid}]
    /\ gone \in [Session -> BOOLEAN]
    /\ asked \in [Session -> BOOLEAN]
    /\ calls \in [Session -> 0..MaxCalls]
    /\ queue_ \in [Session -> 0..MaxQueue]
    /\ writing \in [Session -> BOOLEAN]

Init ==
    /\ sessions_ = {}
    /\ obj = [w \in Session |-> "none"]
    /\ op = [w \in Session |-> "none"]
    /\ buffer_ = [w \in Session |-> None]
    /\ uuid_ = [w \in Session |-> NoUuid]
    /\ gone = [w \in Session |-> FALSE]
    /\ asked = [w \in Session |-> FALSE]
    /\ calls = [w \in Session |-> 0]
    /\ queue_ = [w \in Session |-> 0]
    /\ writing = [w \in Session |-> FALSE]

----------------------------------------------------------------------------
(* Lifetime. *)

\* Mutant: the handler of async_read captures this and not a shared_ptr.
NotByReading(w) ==
    op[w] \in {"accept", "parse", "closing"} \/ writing[w] \/ calls[w] > 0

\* Mutant: the callback captures this and not a shared_ptr.
HandlersOnly(w) == op[w] \in {"accept", "read", "parse", "closing"} \/ writing[w]

\* A handler, running or pending, or a copy of the callback holds the session.
InUse(w) ==
    \/ op[w] \in {"accept", "read", "parse", "closing"}
    \/ writing[w]
    \/ calls[w] > 0

\* The callback in the directory holds it too.
Referenced(w) == InUse(w) \/ w \in sessions_

leave(w) == sessions_' = sessions_ \ {uuid_[w]}

\* make_websocket_session and run, up to async_accept in onRun.
run(w) ==
    /\ obj[w] = "none"
    /\ obj' = [obj EXCEPT ![w] = "alive"]
    /\ op' = [op EXCEPT ![w] = "accept"]
    /\ UNCHANGED <<sessions_, buffer_, uuid_, gone, asked, calls, queue_, writing>>

\* The last reference is gone and the destructor runs; it leaves once more.
Destroy(w) ==
    /\ obj[w] = "alive" /\ ~Referenced(w)
    /\ obj' = [obj EXCEPT ![w] = "destroyed"]
    /\ leave(w)
    /\ UNCHANGED <<op, buffer_, uuid_, gone, asked, calls, queue_, writing>>

PeerGone(w) ==
    /\ obj[w] = "alive" /\ ~gone[w]
    /\ gone' = [gone EXCEPT ![w] = TRUE]
    /\ UNCHANGED <<sessions_, obj, op, buffer_, uuid_, asked, calls, queue_, writing>>

----------------------------------------------------------------------------
(* Writing. *)

\* A write failed: whatever is in the queue stays there for good.
Stuck(w) == queue_[w] > 0 /\ ~writing[w]

(* Every response is queued; it is written at once if it is alone there.     *)
(* What a stuck queue grows to is not counted.                               *)
writeRequest(w) ==
    /\ writing[w] => queue_[w] < MaxQueue
    /\ queue_' = [queue_ EXCEPT ![w] = IF Stuck(w) THEN @ ELSE @ + 1]
    /\ writing' = [writing EXCEPT ![w] = ~Stuck(w)]

\* onWrite without an error: the next response of the queue is written.
WriteDone(w) ==
    /\ writing[w] /\ ~gone[w] /\ op[w] # "closed"
    /\ queue_' = [queue_ EXCEPT ![w] = @ - 1]
    /\ writing' = [writing EXCEPT ![w] = queue_[w] > 1]
    /\ UNCHANGED <<sessions_, obj, op, buffer_, uuid_, gone, asked, calls>>

\* onWrite with an error: it returns, and the queue stays as it is.
WriteFail(w) ==
    /\ writing[w] /\ (gone[w] \/ op[w] \in {"closing", "closed"})
    /\ writing' = [writing EXCEPT ![w] = FALSE]
    /\ UNCHANGED <<sessions_, obj, op, buffer_, uuid_, gone, asked, calls, queue_>>

----------------------------------------------------------------------------
(* Accepting, reading and parsing. *)

\* onAccept: the session gets its UUID, joins the directory and reads.
Accepted(w) ==
    /\ op[w] = "accept" /\ ~gone[w]
    /\ uuid_' = [uuid_ EXCEPT ![w] = w]
    /\ sessions_' = sessions_ \cup {w}
    /\ op' = [op EXCEPT ![w] = "read"]
    /\ UNCHANGED <<obj, buffer_, gone, asked, calls, queue_, writing>>

\* onAccept with an error: nothing follows.
NotAccepted(w) ==
    /\ op[w] = "accept"
    /\ op' = [op EXCEPT ![w] = "ended"]
    /\ UNCHANGED <<sessions_, obj, buffer_, uuid_, gone, asked, calls, queue_, writing>>

onAccept(w) == Accepted(w) \/ NotAccepted(w)

\* onRead with a message, up to the parse loop.
ReadMessage(w) ==
    /\ op[w] = "read" /\ ~gone[w]
    /\ \E m \in Message : buffer_' = [buffer_ EXCEPT ![w] = m]
    /\ op' = [op EXCEPT ![w] = "parse"]
    /\ UNCHANGED <<sessions_, obj, uuid_, gone, asked, calls, queue_, writing>>

\* Mutant: the session is left to its destructor to leave.
EndsListed(w) ==
    /\ op' = [op EXCEPT ![w] = "ended"]
    /\ buffer_' = [buffer_ EXCEPT ![w] = None]
    /\ UNCHANGED sessions_

\* The end of a session that cannot be read from: it leaves the directory.
EndOfReading(w) ==
    /\ op' = [op EXCEPT ![w] = "ended"]
    /\ buffer_' = [buffer_ EXCEPT ![w] = None]
    /\ leave(w)

\* onRead with an error; the ping of the stream's idle timeout finds a frontend
\* that vanished.
ReadError(w) ==
    /\ op[w] = "read" /\ gone[w]
    /\ EndOfReading(w)
    /\ UNCHANGED <<obj, uuid_, gone, asked, calls, queue_, writing>>

Parsing(w, m) == op[w] = "parse" /\ buffer_[w] = m

ShortMessage(w) ==
    /\ Parsing(w, "short")
    /\ EndOfReading(w)
    /\ UNCHANGED <<obj, uuid_, gone, asked, calls, queue_, writing>>

(* handle returned Good: the request is consumed; the loop goes on with what *)
(* is left of the buffer, if there is more, or the next read begins.         *)
Good(w) ==
    \E rest \in (Message \ {"short"}) \cup {None} :
        /\ buffer_' = [buffer_ EXCEPT ![w] = rest]
        /\ op' = [op EXCEPT ![w] = IF rest = None THEN "read" ELSE "parse"]

handleAvailableStations(w) ==
    /\ Parsing(w, "AvailableStations")
    /\ Good(w)
    /\ writeRequest(w)
    /\ UNCHANGED <<sessions_, obj, uuid_, gone, asked, calls>>

\* Of the stations in a request some, or none, are found and asked.
AskStations(w) == \E found \in BOOLEAN : asked' = [asked EXCEPT ![w] = @ \/ found]

handleWeatherStatusRequest(w) ==
    /\ Parsing(w, "WeatherStatus")
    /\ Good(w)
    /\ AskStations(w)
    /\ UNCHANGED <<sessions_, obj, uuid_, gone, calls, queue_, writing>>

(* handle returned Bad: the stream is closed, and the session does not leave. *)
(* A request with a bad id among its stations was half carried out by then.   *)
Bad(w) ==
    /\ Parsing(w, "malformed")
    /\ AskStations(w)
    /\ op' = [op EXCEPT ![w] = "closing"]
    /\ buffer_' = [buffer_ EXCEPT ![w] = None]
    /\ UNCHANGED <<sessions_, obj, uuid_, gone, calls, queue_, writing>>

\* handle returned PayloadTooBig and 0 bytes: the loop takes another turn with
\* the same buffer.
PayloadTooBig(w) ==
    /\ Parsing(w, "tooBig")
    /\ UNCHANGED vars

Parse(w) ==
    \/ ShortMessage(w)
    \/ handleAvailableStations(w) \/ handleWeatherStatusRequest(w)
    \/ Bad(w) \/ PayloadTooBig(w)

\* The handler of async_close, which only logs.
CloseDone(w) ==
    /\ op[w] = "closing"
    /\ op' = [op EXCEPT ![w] = "closed"]
    /\ UNCHANGED <<sessions_, obj, buffer_, uuid_, gone, asked, calls, queue_, writing>>

----------------------------------------------------------------------------
(* The weather arrives at a TCP session. *)

\* findWebSocketSession by the UUID in the packet, which is that of a session
\* for which a station was asked, however long ago.
findWebSocketSession(w) ==
    /\ asked[w] /\ calls[w] < MaxCalls
    /\ w \in sessions_ /\ obj[w] = "alive"
    /\ calls' = [calls EXCEPT ![w] = @ + 1]
    /\ UNCHANGED <<sessions_, obj, op, buffer_, uuid_, gone, asked, queue_, writing>>

onWeatherStatusNotification(w) ==
    /\ calls[w] > 0
    /\ calls' = [calls EXCEPT ![w] = @ - 1]
    /\ writeRequest(w)
    /\ UNCHANGED <<sessions_, obj, op, buffer_, uuid_, gone, asked>>

----------------------------------------------------------------------------
StreamStep(w) ==
    \/ Destroy(w) \/ PeerGone(w)
    \/ WriteDone(w) \/ WriteFail(w)
    \/ onAccept(w) \/ ReadMessage(w) \/ ReadError(w) \/ Parse(w) \/ CloseDone(w)
    \/ findWebSocketSession(w) \/ onWeatherStatusNotification(w)

Next == \E w \in Session : run(w) \/ StreamStep(w)

Spec == Init /\ [][Next]_vars

(* Queued handlers run, the handshakes and the close have deadlines, and a    *)
(* thread that holds a callback calls it.  Nothing is assumed of frontends.   *)
Fairness ==
    \A w \in Session :
        /\ WF_vars(onAccept(w)) /\ WF_vars(ReadError(w)) /\ WF_vars(Parse(w))
        /\ WF_vars(CloseDone(w)) /\ WF_vars(WriteDone(w) \/ WriteFail(w))
        /\ WF_vars(onWeatherStatusNotification(w)) /\ WF_vars(Destroy(w))

FairSpec == Spec /\ Fairness

----------------------------------------------------------------------------
(* Properties. *)

\* What findWebSocketSession follows and what a TCP session calls is alive: the
\* pointer of an entry and the session behind a copied callback, which may be
\* called long after the session left.
CallbacksReachLive ==
    \A w \in Session : w \in sessions_ \/ calls[w] > 0 => obj[w] = "alive"

\* The directory lists a session exactly while its frontend is read from, so the
\* weather it asked for finds it and one that ended leaves no entry behind, but
\* for the one kind that stays for good: a session closed for a bad message,
\* which nothing but its own destructor would take out.
ListedWhileRead ==
    \A w \in Session :
        w \in sessions_ <=> op[w] \in {"read", "parse", "closing", "closed"}

\* mtx_ is not locked again by the thread that holds it: leave destroys the
\* callback of the entry under the lock, so if that were the last reference
\* ~WebSocketSession would run there, and call leave.
LeaveNotLast == [][\A w \in sessions_ \ sessions_' : InUse(w)]_vars
============================================================================
