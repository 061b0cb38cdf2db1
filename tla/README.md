# Verification of websocket-server

TLA+ models of the server in `src/src/websocket_server`, the TLC runs that check
them on small instances, and TLAPS proofs for instances of every size. Source
paths below are relative to that directory unless they begin with `src/`.

The server sits between microcontrollers (µCs), which speak a binary protocol
over TCP or TLS (`src/PROTOCOL.md`), and frontends, which fetch a page over HTTP
or HTTPS and upgrade to a WebSocket. A frontend asks for the weather of a
station. The server forwards the request to the µC that serves the station and,
when the answer comes, finds the frontend again by the UUID the packet carries.

## 1. Inventory

| component | state | operations | interacts by |
|---|---|---|---|
| **TCP session** (`TCPSession.hh`, `TCPRequestHandler.hh`) | input and output buffer, `stationId_`, ping and pong timer, the socket | `run`, `doReadPacketHeader`, `onReadPacketHeader`, `parsePacketHeader`, `writePacket`, the packet handlers, `onPingTimeout`, `onPongTimeout`, `stop`, destructor | `join`, `leave`, `findWebSocketSession` of SharedState; `writePacket` is called by WebSocket sessions |
| **Transports** (`PlainTCPSession.cc`, `SSLTCPSession.cc`) | the socket or TLS stream | `run`, `onHandshake`, `disconnect`, `onShutdown` | the base class |
| **Packet framing** (in `TCPSession.hh`, `Packets/In.hh`) | `input_`, `numBytesLeft_` | read at an offset, parse, `memmove` | the packet handlers |
| **SharedState** | two maps of raw pointers to TCP sessions by station id; two maps of callbacks by UUID; `mtx_` | `join`, `leave`, `findStation`, `findWebSocketSession`, `allStationIds` | everything |
| **WebSocket session** (`WebSocketSession.hh`) | `buffer_`, `uuid_`, `queue_`, the stream | `run`, `onAccept`, `onRead`, `writeRequest`, `onWrite`, `onWeatherStatusNotification`, destructor | SharedState; notified on the threads of TCP sessions |
| **WebSocket requests** (`WebSocketRequestHandler.hh`) | none | `handle`, `handleAvailableStations`, `handleWeatherStatusRequest` | `findStation`, then `writePacket` of the TCP session |
| **HTTP session** (`HttpSession.hh`, `PlainHttpSession.cc`, `SSLHttpSession.cc`) | the request, the response, the stream until it is released | `run`, `onHandshake`, `onRead`, `onWrite`, `disconnect`, `onShutdown` | makes a WebSocket session and gives it the stream |
| **Listener** (`Listener.hh`) | the acceptor | `run`, `doAccept`, `onAccept` | makes sessions |
| **Start and shutdown** (`main.cc`, `CommandLineInterface.cc`, `ServerCertificate.cc`) | the options, the `io_context`, its threads | start, pool of threads, signal handler, join | owns what the handlers refer to |
| logger, `packet_view`, page, mock client, vendored libraries | | | not modelled, see section 7 |

What is hard here:

* **No owner.** Sessions live as long as a pending handler holds a `shared_ptr`
  to them. Whether one dies, and when, depends on which handlers re-arm which
  operation. The directory refers to TCP sessions by raw pointers and to
  WebSocket sessions by callbacks that own them.
* **Threads.** Read and write handlers of a session are on its strand; its
  timers are made on the `io_context` and are not. A WebSocket session calls
  into a TCP session and a TCP session into a WebSocket session, each from its own
  strand. `findStation` does not take `mtx_`: it reads a raw pointer and locks the
  `weak_ptr` behind it afterwards.
* **Cancelled too late.** A timer handler that is already queued with success
  runs although its timer has been cancelled since.
* **One output buffer** for all packets of a TCP session, and one queue for all
  responses of a WebSocket session.
* **Requests that cross.** The answer of a device is tied to its request by a
  UUID only. Devices reconnect, frontends leave, and requests overwrite each
  other.
* **Locals of main.** Listeners, SSL context and configuration are used by
  handlers of all threads and are gone when `main` returns.
* **Uninitialised state.** `stationId_` is not set by any constructor; the
  destructor calls `leave` with it whether or not the session ever joined.

What makes each component correct, in short: the directory holds no dangling
pointer and an acknowledged µC keeps its station until its session is destroyed;
a request reaches a live session that serves the station; a session has exactly
one heartbeat; a peer that is silent after a Ping is cut off; connections of peers
that left are reclaimed; packets are handled whole, once and in order;
a callback that was copied out of the directory leads to a live session, and
none is destroyed under the mutex; responses reach the frontend in order and none
is forgotten; a frontend is sent weather only of stations it asked for; every port
accepts until a signal ends the server, and no handler outlives `main`.
`PROJECT.json` lists the hazards, each at its line, with the
properties that would show it, or the reason why none does yet.

## 2. Modules

| module | models | extends or instantiates |
|---|---|---|
| `SharedState` | the maps of TCP sessions: `join`, `leave`, `findStation` | |
| `StationDirectory` | abstract: which session serves which station | |
| `TCPSession` | sessions of µCs, one step per completion handler | `SharedState`; implements `StationDirectory` |
| `TCPSessionProofs`, `MCTCPSession` | proofs; TLC instances | `TCPSession` |
| `WeatherService`, `WeatherServiceProofs` | abstract: a station owes an answer for each time it was asked; a proof of what follows | |
| `WeatherExchange` | a request from the frontend to the device and back, over all kinds of sessions | `SharedState`; implements `WeatherService` |
| `WeatherExchangeProofs`, `MCWeatherExchange` | proofs; TLC instances | `WeatherExchange` |
| `ExchangeServiceProofs` | the proof that the exchange implements the service | `WeatherExchangeProofs`, `WeatherServiceProofs` |
| `Server` | `main`, the four Listeners, the pool of threads, the signal | |
| `ServerProofs`, `MCServer` | proofs; a TLC instance | `Server` |
| `PacketFraming` | the input buffer and the parse loop, byte by byte | |
| `PacketFramingProofs`, `MCPacketFraming` | proofs; a TLC instance | `PacketFraming` |
| `WebSocketSession` | sessions of frontends after the upgrade, and the maps of callbacks | |
| `HttpSession` | HTTP sessions and the upgrade | `WebSocketSession` |
| `HttpSessionProofs`, `MCHttpSession` | proofs; TLC instances | `HttpSession` |
| `ResponseChannel` | abstract: a channel that keeps order | |
| `ResponseQueue` | `writeRequest` and `onWrite`, statement by statement, on several threads | implements `ResponseChannel` |
| `ResponseQueueProofs`, `MCResponseQueue` | proofs; TLC instances | `ResponseQueue` |

### TCPSession

Every handler is one action with the name it has in the code; it makes all the
state changes of the handler. Every variable is a function over `Session`, the
addresses at which sessions are allocated. `obj` says whether there is an object
and whether it was destroyed; an address can be used again, with everything reset
but the directory, and `stationId_` taken from `Garbage`.

* `op` is the chain of read operations. Only the completion of the server's own
  Handshake starts it, and only `onReadPacketHeader` continues it.
* `Referenced` lists the operations whose handler captures `self`. `Destroy`,
  the destructor, is possible only without any. It is a step of its own:
  between the last release and `leave`, other threads find the entry and cannot
  lock its session (`Lockable`).
* `writes` holds the packets given to `writePacket`, in order; `output_` is the
  one buffer. `Transmit` transfers what the buffer holds at that time.
* A timer has waits (`pingWaits`, `pongWait`) and handlers queued with success
  (`pingFired`, `pongFired`). Cancelling removes the former only. A handler that
  is run with `operation_aborted` returns at once and is left out.
* `reply`, `handshakes`, `struck`, `owed`, `unheard` and `crossed` are history: what
  the peer was told, whether the destructor of another session erased the entry
  (`strays`), how many Pongs the peer has still to send, whether one was handled
  since the last Ping reached it, and whether a Ping and its pong timer have missed
  each other.
* The peer (`ReadData`, `PeerClose`) sends any packet of `Packets`, but one Pong for
  each Ping that it got and at most `MaxHandshakes` Handshakes. Two Pings are out at
  a time where a late Handshake makes the heartbeat catch up, since the expiry of
  `pingTimer_` counts from the construction of the session.
* The timer handlers are atomic. In the server they can run at the same time as
  a handler on the strand; what a data race on a timer object does is not
  modelled.

### WeatherExchange

The composition. TCPSession takes `findStation` in one step and leaves out what a
packet carries; here the sessions keep what a request passes and nothing more, and
the lookup is cut at each access the code makes without a lock: the read of the
plain map, the lock of its `weak_ptr`, the read of the TLS map, its lock, and the
`writePacket`. `ptr` is a raw pointer in `plainPtr` and `sslPtr` and a `shared_ptr`
in `write`, where it keeps its session alive (`Referenced`).

* A session joins before it has its `stationId_` (`joining`), and a destructor runs
  when nothing refers to the session: neither reading nor heartbeat (`timed`: a wait
  or a queued handler of a timer), nor a write, nor the result of a lookup. Of the
  heartbeat it is only told that it begins with the ACK, may outlive a read
  error, outlives a packet of unknown type, and comes to an end.
* A new session may be allocated wherever none is alive. The lock behind a pointer to
  a destroyed session reads memory that was given back: if nothing was allocated there
  since, it may find the count of 0 that was left (`lock`), or anything (`FreedRead`),
  after which the process does nothing that the model tells (`faulted`); if a
  session is there now, that one is locked. `dangled` records that the
  session a pointer was read for has been destroyed.
* A request and its answer are the UUID they carry, which is what the code routes
  by. `Transmit` sends what `output_` holds at the time. `inbox` belongs to the
  device and survives its connection: what was asked on one may be answered on the
  next, before or after the Handshake.
* `handleWeatherStatusPacket` copies the callback under the mutex,
  `onWeatherStatusNotification` calls it without.
* `asked`, `steady`, `struck`, `dangled`, `meant`, `went` and `answers` are history. A
  request that was written to the device of another station is recorded with the
  station it was `meant` for and the one where it `went`: `Misdirect` in
  WeatherService. For the refinement, `UnderWay` counts
  the requests for a station wherever they are (in a lookup, a write, the inbox of the
  device or a copied callback); a request that finds no session, a
  write that fails and an answer to a frontend that left are `Lose`.
* Left out because the way does not pass it: what the heartbeat sends and other
  packets, the queue of the frontend, a Handshake after an accepted one.

### Server

`main` is one thread that goes through its phases; `parse` and
`loadServerCertificate` succeed or end it. The count of threads is a
`std::uint32_t` of `Word` values, of which `- 1` may wrap. `run` is one Listener's
`open`, `bind`, `listen` and first accept, or the exception that ends `main`.
Threads run a handler of a port (`onAccept`) or of some session at a time; `stopped`
keeps them from taking up another. A handler of a session returns, with one
exception: `onRead` of a frontend's session does not when `handle` says `PayloadTooBig`
(`Looping`). Before `signals.async_wait` a signal kills the
process (`aborted`), as does a thread that cannot be created. What a session does is
in the other modules.

### PacketFraming

`input_` holds for every cell the position in the stream of the byte it was
filled with, so a view with a stale, torn or shifted byte differs from the packet it
should be. Reads deliver any number of bytes. The type in the first byte of the
buffer is that of the packet which starts there; were the first byte any other, it could
be taken for any type. The loop runs while there are bytes, so an empty buffer is not
parsed.

### WebSocketSession and HttpSession

A UUID is drawn at random when the session is accepted and stands for the
session itself. A callback in the map (`sessions_`), a copy of one (`calls`) and
pending handlers (`InUse`) hold the session. `gone` covers every way of a
frontend to go: the stream's idle ping, 10 s of silence, finds it in the end.
`findWebSocketSession` and `onWeatherStatusNotification` are separate steps, for
the lock is released between them. Messages are classes by what `handle` decides:
the two requests, malformed, too big and too short. A message that is too big is
neither consumed nor does it end the loop: `PayloadTooBig` changes nothing, and
`ConnectionReclaimed` says nothing of a frontend that sent one before it went.

`HttpSession` starts at the accept. `Upgrade` ends the HTTP session and runs the
WebSocket session in one step, as `onRead` does. Whatever `handle_request` decides,
there is one response, which takes `keep_alive` from the request; nothing that follows
depends on its status, so the model has none.

### ResponseQueue

`writeRequest` and `onWrite` are cut in two where another thread could see the
difference: between `push_back` and the test of the size, and between `erase` and
the next write. `strand` is the thread running a handler of the session; a
notification comes without it. Several threads are in the queue only because
`onWeatherStatusNotification` is called by a TCP session.

## 3. Runs

| run | instance | distinct states | shows |
|---|---|---|---|
| `tcp_session` | one TLS session, every packet and every initial `stationId_`, 2 writes, 2 Pongs owed | 48 900 | types, `RegistryConsistent`, `OneHeartbeat`, `AnsweringPeerKept`, `SilenceIsTimed`, `PingAnsweredOrCut`, `UnackedReclaimed` |
| `tcp_directory` | two plain sessions and a TLS session, one station, every initial `stationId_`, timers that do not expire | 1 920 000 | `RegistryConsistent`, `AckedUnlessStruck`, `RequestsReachStation`, the sessions implement `StationDirectory` |
| `exchange` | two frontends asking for two stations in all, two stations, one address at which sessions follow each other, every initial `stationId_` | 492 000 | types, `AskedStationsOnly`, `AnsweredAtMostOnce`, the sessions together implement `WeatherService` |
| `exchange_lookup` | one request for one station, two plain sessions and a TLS session, two stations, `stationId_` 0 before the Handshake | 4 040 000 | `FoundServesUnlessDangled`, `SteadyStationFound` |
| `frontend` | a plain and a TLS connection, queue of 2, 1 notification each | 64 000 | types, `CallbacksReachLive`, `ListedWhileRead`, `LeaveNotLast`, `ConnectionReclaimed` |
| `framing` | 4 packets of 3 types and unknown ones, buffer of 4 bytes | 8 400 | types, `Framed`, `RoomToRead`, `AllHandled` |
| `queue_one` | 1 thread, 8 responses | 245 | `QueueServed`, `AllDelivered`, the queue implements `ResponseChannel` |
| `server` | four Listeners, two threads besides main, a counter of 8 values | 191 000 | types, `NoHandlerAtExit`, `AsManyThreads`, `AbortExplained`, `PortsAccept`, `ExitTold`, `SignalEnds` |
| `doc_lifetime` | one session | | violates `LifetimeEnds` |
| `doc_station` | two sessions, one of whose addresses is used again | | violates `FoundServesStation` |
| `doc_stray` | two plain sessions, every initial `stationId_` | | violates `AckedRegistered` |
| `doc_thread_safe` | two threads | | violates `QueueServed` |

The bounds, and why they are enough:

* `MaxHandshakes = 1` in the passing runs is the protocol (`src/PROTOCOL.md:34`: the
  server's handshake packet is answered by one of the µC's, which is acknowledged
  or not; line 47: a µC has exactly one station id). It is needed: with two, the first entry of the
  directory survives its session and `RegistryConsistent` fails.
* `Garbage`: the value of an uninitialised `stationId_`. No passing run assumes a
  benign one: `tcp_session`, `tcp_directory` and `exchange` take every value, and
  `exchange_lookup` the 0 of Goe, the worst one, since only the id of a station erases
  an entry. `doc_lifetime` and `doc_station` take a value that is no station id, so
  that what they show has no other cause.
* `QuietTimers` (`tcp_directory`): no timer expires. Timers keep a session alive
  longer and write to it; they do not touch the directory. `tcp_session` has them.
* `MaxOwed = 2`: a Ping to a peer that owes two Pongs already adds none. With two, one
  Pong settles one Ping and leaves another; more Pings out differ in how often
  that happens, and the proofs cover any number.
* One address in `exchange` is enough for what goes wrong there: the session behind a
  pointer is destroyed and that of another station takes its place, so the request
  goes astray, is counted, answered and overwritten. Lookups among several sessions
  of both kinds are in `exchange_lookup`, with one request, since a lookup depends on
  no other request. Together they would not be finished in minutes; the
  proofs cover any number of everything.
* `tcp_directory` has one station: entries of different stations never meet, since each
  operation touches one. A stray destructor needs two sessions of one kind and one station.
* `MaxAsked = 2`: one frontend asking for two stations, in one request or two, or
  two frontends for one each; requests overwrite each other with two.
* `Word = 8` and `MaxWorkers = 2`: a count of 0 wraps to 7 and exceeds the threads
  that can be created; 1 is main alone, 3 the most that works, 7 too many.
* One session meets itself over several lives at one address; two sessions meet
  in the directory and nowhere else, and the proofs cover any number. Two
  writes in flight are enough for one to overwrite the other and for a Ping to
  meet an answer. Where the bound is 1, a handler that writes waits; the runs
  with 1 state properties of the directory and the timers only.
* In `framing` the sizes are those of the code in proportion and the buffer is as
  long as the longest packet, the smallest with which the code can work. Four
  packets fill it more than twice.
* Two in a queue is the first one written and one waiting; what a queue grows to
  after a failed write, when nothing is ever written again, is not counted.

CHECK_DEADLOCK is off where the system may rest: no peer need send anything,
a destroyed connection of a finite instance does not come back, and a process that
has ended does nothing more, like one that has used freed memory.

## 4. Fairness

Weak fairness of what the `io_context` does by itself: a queued handler runs; a
timer that is armed expires (30 s for the Ping, 10 s for the Pong); an operation with
a deadline completes or fails (60 s for reads on TCP and every operation on
HTTP, 30 s for the WebSocket handshake, 10 s of idle time with a keep-alive ping
after it); a write to a socket is transferred or fails; a thread inside a function
goes on; the destructor runs when the last reference goes. `ReadError` is fair
because a read without data for 60 s ends in one; a run in which data always comes
disables it again and again and satisfies the fairness. `NotAccepted` is one way
of `onAccept`, which is fair as a whole. Strong fairness is assumed twice, of handlers
that the code runs whatever else happens. `onPingTimeout` is disabled in the model while
`MaxWrites` writes are in flight, and in the code by nothing. In
`Server` other handlers can keep all threads busy again and again, but the queue of
the `io_context` is first in, first out, so each free thread comes closer to the handler
of the signal. There every handler returns that is not `Looping`, and `SignalEnds` excepts
a process in which one is; `ConnectionReclaimed` likewise supposes that some thread is left
for the connection, which messages that are too big on others could prevent. No liveness
is stated of `WeatherExchange`: a session that an unknown packet or a late timer leaves
behind may never end, and what the heartbeat and peers promise is in
`TCPSession`. Nothing is assumed of peers, frontends or the
allocator: none of `ReadData`, `PeerClose`, `PeerGone`, `Accept` is fair.

## 5. Proofs

All theorems hold for every value of the constants that satisfies the assumptions
in the modules, and the additional ones named here.

| theorem | states | assumes |
|---|---|---|
| `TCPSessionProofs!TypeCorrect` | `Spec => []TypeOK` | |
| `NoDanglingEntry` | `Spec => []RegistryConsistent` | one Handshake per connection |
| `HeartbeatIsOne` | `Spec => []OneHeartbeat` | one Handshake per connection |
| `AckedStaysRegistered` | `Spec => []AckedUnlessStruck` | |
| `RequestsReach` | `Spec => []RequestsReachStation` | one Handshake per connection |
| `ImplementsDirectory` | `Spec => DirectorySpec` | one Handshake per connection |
| `AnsweringIsKept` | `Spec => []AnsweringPeerKept` | |
| `SilenceTimed` | `Spec => []SilenceIsTimed` | |
| `PacketFramingProofs!FramingTypeCorrect` | `Spec => []TypeOK` | |
| `NeverMisframed` | `Spec => []Framed` | |
| `AlwaysRoom` | `Spec => []RoomToRead` | |
| `HttpSessionProofs!HttpTypeCorrect` | `HttpSpec => []HttpTypeOK` | |
| `CallbacksAreLive` | `HttpSpec => []CallbacksReachLive` | |
| `LeaveIsNotLast` | `HttpSpec => LeaveNotLast` | |
| `ListedIsRead` | `HttpSpec => []ListedWhileRead` | |
| `ResponseQueueProofs!ServedOnOneThread` | `Spec => []QueueServed` | one thread |
| `ImplementsChannel` | `Spec => ChannelSpec` | one thread |
| `WeatherExchangeProofs!ExchangeTypeCorrect` | `Spec => []TypeOK` | |
| `FoundServes` | `Spec => []FoundServesUnlessDangled` | |
| `SteadyIsFound` | `Spec => []SteadyStationFound` | |
| `OnlyAskedAreAnswered` | `Spec => []AskedStationsOnly` | |
| `WeatherServiceProofs!ServiceAnswersOnce` | `Spec => []AnsweredAtMostOnce`, of the abstract service | requests are sequences of stations |
| `ExchangeServiceProofs!ExchangeImplementsService` | `Spec => ServiceSpec` | |
| `AnswersOnce` | `Spec => []AnsweredAtMostOnce` | |
| `ServerProofs!ServerTypeCorrect` | `Spec => []TypeOK` | |
| `HandlersEndBeforeMain` | `Spec => []NoHandlerAtExit` | |
| `ThreadsAsAsked` | `Spec => []AsManyThreads` | |
| `AbortsAreExplained` | `Spec => []AbortExplained` | |
| `EveryPortAccepts` | `Spec => []PortsAccept` | |
| `ExitIsTold` | `Spec => []ExitTold` | |

The arguments:

* **Types of `TCPSession`** are not inductive alone. `Budget`: a Handshake that is
  being parsed is within the bound. `Hello`: a Handshake among the writes is there
  once and only in phase `hello`, so no completion of a write starts a second
  chain of reads. `ReaderAlive`: the chain of reads belongs to a live session.
* **The directory.** `Registry` adds to `RegistryConsistent` that an entry's
  session was acknowledged and that an answered session has handled a
  Handshake; so a session that parses its only Handshake is in no map, and its
  `join` cannot leave an earlier entry behind. This holds whatever an
  uninitialised id contains, because a stray `leave` can only remove entries.
  `Kept` is the converse: an acknowledged session that lives has the entry of its
  `stationId_`, or was struck out. It holds whatever an uninitialised id contains, since the
  destructor that erases the entry of another records that (`strays`), and it is
  inductive for any number of Handshakes, where `Registry` is not: a second one
  leaves an entry too many, never one too few. `ImplementsDirectory` maps a session to the
  station it was acknowledged for while it is alive and was not struck out; `join` is
  `Register`, a destructor that finds its own entry `Release`, one that erases the entry of
  another the `Release` of that other, everything else a stutter. It needs one Handshake as
  well, since in `StationDirectory` a session serves one station until it is released;
  `StruckAcked` says that the session struck out had an entry to lose.
* **The heartbeat.** `Heartbeat`: no wait and no handler before the ACK, at
  most one ever, exactly one while an acknowledged session reads, and no answer
  before the chain of reads has begun.
* **Framing.** The front of the buffer is the start of the first packet not yet
  handled (`Front`), the cells below `numBytesLeft_` continue the stream from
  there (`Contents`), and a read is appended only to less than one packet
  (`Phases`).
* **Frontends.** `Owned`: an entry is under its own session's UUID and that session
  is alive; what is in use is alive; a UUID is its own session's or not set. An
  entry is therefore only removed by its own session, in a handler that holds it,
  and `ListedWhileRead` is inductive on top of it.
  `WritesQueued` and `NotBegun` carry the types.
* **The queue.** `Numbered`: the queue is what was given and not delivered, in
  order. `WritesFront`: what is being written is its front. `Pcs`: what
  each statement may count on. The assumption of one thread is used where a
  thread may conclude that no other stands between two statements; with two,
  `doc_thread_safe` shows the property fails.
* **The pong timer.** A wait is there only after a Ping was transferred: it owes a
  Pong until one is handled, and every way in which that could be lost sets
  `crossed`.
* **The peer that is silent.** `SilenceIsTimed` is not inductive: the peer gets a Ping
  where another packet was given, since there is one buffer, and one must know
  that a Ping is among the writes then. `LastGiven` says so: the buffer holds
  the packet of the last write in flight. The handler of that write starts the timer, and
  the Pong that cancels the timer is heard. That is all there is to prove of several
  Pings at a time: the Pong of one cancels the timer of another, and the code waits for
  that other no more.
* **The exchange.** `Entered`: an entry is of a live session that joins or joined for the
  station of its device. It holds whatever `stationId_` contains, because a stray `leave`
  only removes entries. `Pointed`: a pointer that was read is to such a session, or
  that session has been destroyed since and the lookup is `dangled`, whatever is at
  the address now; so `FoundServes` needs nothing of the allocator. A UUID in a buffer, a
  write, an inbox or a callback was asked for at the device's station or led to it
  (`Entitled`); overwriting exchanges one such for another. `SteadyIsFound` uses the
  converse, `Registered`: a session that serves the station all the time and was
  not struck out is in the map of its kind at both reads.
* **The exchange implements the service.** The abstract `asked`, `told`, `meant` and `went`
  are those of the frontends; what a station owes is the number of its requests under way.
  Each step of the exchange is shown to move that number as a step of the service does: a
  request that is sent adds what it names, a lookup, a write, a receipt or a callback moves
  one from one place to the next and leaves the sum, an answer takes one, and what fails
  takes one as well (`Lose`). A request written to the device of another station, which
  takes a dangling pointer, moves one from the one to the other (`Misdirect`). `Counted`,
  that finitely many are under way, is part of the invariant and not an assumption, so sets
  of sessions and frontends may be infinite.
* **No answer twice.** For the service: what was told, is owed and was led away is no
  more than what was asked and what was led there, for an answer takes one that is owed and
  makes one that is told. It is an induction over four actions. The exchange has it by
  the refinement, with `ServiceAnswersOnce` instantiated under the mapping: nothing of it is
  proved again over the twenty-odd actions.
* **The server.** `HandlersRun`: a handler runs on a thread in `io.run()`, so
  when all have returned there is none. `LoopCount`: threads created and left to
  create add up to the count, which has wrapped for 0 and then cannot reach its end.
  `OneHandler`: the accept of a port is in the hands of one thread.

Only model-checked: the liveness properties, since they need fairness and `ENABLED`
(`PingAnsweredOrCut`, `UnackedReclaimed`, `AllHandled`, `ConnectionReclaimed`,
`AllDelivered`, `SignalEnds`). Of `PingAnsweredOrCut` the safety part
is proved, `SilenceIsTimed`: what remains for TLC is that the timer expires and its handler
runs. Every invariant, action property and refinement of a passing run is a theorem.
No theorem assumes anything of the allocator or of an uninitialised member. Two conditions
remain, and each is needed: a second Handshake that names another station breaks
`RegistryConsistent` and `OneHeartbeat`, a second thread `QueueServed` (`doc_thread_safe`).
The first is the protocol. The second is not what the server does, which
`doc_thread_safe` is there to show; `ServedOnOneThread` and `ImplementsChannel` say that the
queue is right for a caller on the strand.

## 6. What the runs found

* `AckedRegistered` (`doc_stray`): `stationId_` is initialised by no constructor, and a
  session that never joined calls `leave` with it all the same. If it holds 0, the id of
  a station, the entry of the session that serves the station goes; that
  session stays connected, keeps its heartbeat, and is found by no request.
  `AckedUnlessStruck` says that an entry is lost in no other way.
* `LifetimeEnds` (`doc_lifetime`): an `onPingTimeout` that was queued when `stop` ran starts
  the timer again, and from then on the timer keeps the session alive; a packet of unknown
  type has the same effect, since the reading ends without `stop`.
* `FoundServesStation` (`doc_station`): `findStation` reads a pointer, its session is
  destroyed, another is allocated at the address, and the request goes to the
  device of another station. If nothing is allocated there the pointer is followed into
  freed memory. `FoundServesUnlessDangled` says that a lookup goes astray in no other way.
* `QueueServed` with two threads (`doc_thread_safe`): two `writeRequest`s both push before
  either tests the size, and then neither writes.

Seen while modelling, and listed as hazards where they are such:

* `join` looks into the map of the session's own kind, so a plain and a TLS µC may hold
  one station id, against `src/PROTOCOL.md:47`; `StationDirectory` has the kinds apart.
* `writePacket` overwrites the one buffer of a transfer in progress: what a frontend, a
  heartbeat and a Handshake write replaces what was there. `SilenceIsTimed`,
  `AnsweringPeerKept` and `ServiceSpec` hold in spite of it.
* With two Pings out the Pong of the first cancels the one timer, and the second is waited
  for by nobody until the next Ping is sent (`SilenceIsTimed`).
* A Pong that is handled before the write of its Ping completes does not stop the
  pong timer, which then cuts off a healthy peer (`AnsweringPeerKept` says in which ways
  that happens and that there is no other).
* A second Handshake on one connection leaves the entry of the first behind, pointing to
  freed memory once the session is gone.
* A refused µC is not disconnected, against `src/PROTOCOL.md:102`, although its session is
  reclaimed when it goes (`UnackedReclaimed`).
* A message that is too big makes the loop of a WebSocket session spin: its thread never
  returns, and a signal does not end the server then (`SignalEnds` excepts it). One that is
  bad closes a session whose own callback keeps it alive for ever (`ListedWhileRead`).
* Weather sent before the Handshake is forwarded under an uninitialised id
  (`AskedStationsOnly` promises the id only of an acknowledged device).
* A count of threads of 0 aborts the start (`AbortExplained`).

## 7. Not modelled

* **Data and its formats**: JSON, options, configuration files, HTTP, the
  bytes of TLS, the temperature, humidity and time of an answer, the wording of
  responses. No decision of the control depends on them, with one exception: the
  length field of a WebSocket request, whose misuse reads beyond the message.
* **Peers**: the page and the mock client appear as what they may send.
* **Without state or effect**: `packet_view`, `source_location`, `mime_type`,
  `allStationIds`, which only reads under the mutex, `copySessions`,
  `restartPongTimer` and `releaseStream` of the TCP sessions, which nothing calls.
* **The logger**: nothing depends on it. Its stream is shared by all threads without
  a lock.
* **Data races as such**: inside `std::unordered_map` when `findStation` meets a `join`,
  on timer objects, in `std::gmtime` and in the logger. They have no bounded set of
  outcomes; every access is one atomic step, and the order of the accesses is free.
* **Freed memory**: the lock of a session that was destroyed either finds it expired, or
  anything may follow, of which nothing is claimed (`FreedRead`).
* **Exceptions** other than at the start (a failed allocation, one thrown by a handler
  into `io.run()`): they end the process.
* **Third-party code** under `src/subprojects`: used, not part of the server.

## 8. Plan

Done: TCP sessions, directory, framing, frontends, the queue, their composition in the
weather exchange, and the process around them, each with its proofs. Left, in order of
value:

1. Which entries a second Handshake leaves behind, stated exactly: `AckedUnlessStruck`
   survives it, `RegistryConsistent` does not.
2. That `WeatherExchange`, which joins in two steps, implements `StationDirectory` as
   `TCPSession` does; a run of it needs two sessions of one kind.
3. The HTTP body of the answer to HEAD, and what comes in behind an upgrade.
4. `handleAvailableStations` with the list it sends, which names a station twice
   that a plain and a TLS session hold.
