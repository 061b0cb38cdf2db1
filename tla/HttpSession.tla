---------------------------- MODULE HttpSession -----------------------------
(***************************************************************************)
(* The connections of the frontends from the Listener on: PlainHttpSession *)
(* and SSLHttpSession with the HttpSession they share, and the WebSocket   *)
(* session that an upgrade makes of one and gives the stream to.           *)
(*                                                                         *)
(* One step is one completion handler.  Nothing but its pending handler    *)
(* holds an HTTP session, so it ends, and closes the stream unless that    *)
(* was released, with the handler that starts no other operation.  Every   *)
(* operation has a deadline of 60 seconds.                                 *)
(***************************************************************************)
EXTENDS WebSocketSession

CONSTANT SSLSession     \* the connections that came in at the HTTPS port

VARIABLES
    http,       \* the operation that is pending (HttpPhase)
    response    \* the response being written, or None

httpVars == <<http, response>>

allVars == <<http, response, vars>>

\* "upgraded" is a session whose stream was released to a WebSocket session.
HttpPhase == {"none", "tls", "read", "write", "shutdown", "upgraded", "ended"}

Request == [keep_alive : BOOLEAN]

Response == [need_eof : BOOLEAN]

ASSUME HttpAssumption ==
    /\ SSLSession \subseteq Session
    /\ None \notin Response

HttpTypeOK ==
    /\ TypeOK
    /\ http \in [Session -> HttpPhase]
    /\ response \in [Session -> Response \cup {None}]
    /\ \A c \in Session : http[c] = "write" <=> response[c] # None
    /\ \A c \in Session : obj[c] # "none" <=> http[c] = "upgraded"

HttpInit ==
    /\ Init
    /\ http = [c \in Session |-> "none"]
    /\ response = [c \in Session |-> None]

goto(c, phase) == http' = [http EXCEPT ![c] = phase]

----------------------------------------------------------------------------
\* Whatever the method, the target and the file come to, the request is answered
\* with one response, and every response takes keep_alive from the request.
handle_request(req) == [need_eof |-> ~req.keep_alive]

\* A plain session shuts down its sending side and is done.
plainDisconnect(c) == goto(c, "ended")

\* A TLS session begins a TLS shutdown.
sslDisconnect(c) == goto(c, "shutdown")

httpDisconnect(c) == IF c \in SSLSession THEN sslDisconnect(c) ELSE plainDisconnect(c)

----------------------------------------------------------------------------
onAcceptHttp(c) ==
    /\ http[c] = "none"
    /\ goto(c, IF c \in SSLSession THEN "tls" ELSE "read")
    /\ UNCHANGED <<response, vars>>

onHandshake(c) ==
    /\ http[c] = "tls"
    /\ \/ ~gone[c] /\ goto(c, "read")
       \/ goto(c, "ended")
    /\ UNCHANGED <<response, vars>>

\* onRead: the frontend has closed its side.
EndOfStream(c) ==
    /\ http[c] = "read" /\ gone[c]
    /\ httpDisconnect(c)
    /\ UNCHANGED <<response, vars>>

\* onRead with any other error, the deadline among them: nothing follows.
HttpReadError(c) ==
    /\ http[c] = "read"
    /\ goto(c, "ended")
    /\ UNCHANGED <<response, vars>>

\* Mutant: after an upgrade the HTTP session reads the next request.
UpgradeAndRead(c) ==
    /\ http[c] = "read" /\ ~gone[c]
    /\ run(c)
    /\ UNCHANGED httpVars

\* onRead of an upgrade: the stream goes over to a WebSocket session, which
\* accepts it.
Upgrade(c) ==
    /\ http[c] = "read" /\ ~gone[c]
    /\ goto(c, "upgraded")
    /\ run(c)
    /\ UNCHANGED response

\* onRead of a request: it is answered.
Answer(c) ==
    /\ http[c] = "read" /\ ~gone[c]
    /\ \E req \in Request : response' = [response EXCEPT ![c] = handle_request(req)]
    /\ goto(c, "write")
    /\ UNCHANGED vars

\* onWrite: the response says if the next request is read.
onWriteHttp(c) ==
    /\ http[c] = "write" /\ ~gone[c]
    /\ response' = [response EXCEPT ![c] = None]
    /\ IF response[c].need_eof THEN httpDisconnect(c) ELSE goto(c, "read")
    /\ UNCHANGED vars

\* onWrite with an error: nothing follows.
HttpWriteError(c) ==
    /\ http[c] = "write"
    /\ response' = [response EXCEPT ![c] = None]
    /\ goto(c, "ended")
    /\ UNCHANGED vars

\* onShutdown, with an error or without: the stream closes now or with the
\* session.
onShutdownHttp(c) ==
    /\ http[c] = "shutdown"
    /\ goto(c, "ended")
    /\ UNCHANGED <<response, vars>>

HttpPeerGone(c) ==
    /\ http[c] \in {"tls", "read", "write", "shutdown"} /\ ~gone[c]
    /\ gone' = [gone EXCEPT ![c] = TRUE]
    /\ UNCHANGED <<httpVars, sessions_, obj, op, buffer_, uuid_, asked, calls, queue_, writing>>

onReadHttp(c) == EndOfStream(c) \/ HttpReadError(c) \/ Upgrade(c) \/ Answer(c)

HttpStep(c) ==
    \/ onAcceptHttp(c) \/ onHandshake(c) \/ onReadHttp(c)
    \/ onWriteHttp(c) \/ HttpWriteError(c) \/ onShutdownHttp(c) \/ HttpPeerGone(c)

HttpNext ==
    \E c \in Session : HttpStep(c) \/ (StreamStep(c) /\ UNCHANGED httpVars)

HttpSpec == HttpInit /\ [][HttpNext]_allVars

(* Each operation completes, by its deadline at the latest. *)
HttpFairness ==
    /\ Fairness
    /\ \A c \in Session :
          /\ WF_allVars(onHandshake(c)) /\ WF_allVars(onReadHttp(c))
          /\ WF_allVars(onWriteHttp(c) \/ HttpWriteError(c))
          /\ WF_allVars(onShutdownHttp(c))

HttpFairSpec == HttpSpec /\ HttpFairness

----------------------------------------------------------------------------
\* A frontend that goes away takes its connection with it, in whatever phase of
\* the HTTP or the WebSocket session that happens, the handing over of the
\* stream included, unless a message that is too big or bad came first.
ConnectionReclaimed ==
    \A c \in Session :
        gone[c] /\ op[c] \in {"none", "accept", "read"}
            ~> http[c] = "ended" \/ obj[c] = "destroyed"
============================================================================
