------------------------------- MODULE Server -------------------------------
(***************************************************************************)
(* The process around the sessions: main with its start and its end, the   *)
(* four Listeners with their loops of accepts, and the pool of threads     *)
(* that run the io_context.                                                *)
(*                                                                         *)
(* Of a session there is only that its handlers run on these threads, once *)
(* an accept has made one.  The Listeners, the SSL context and the command *)
(* line are locals of main, which handlers use by reference: they are gone *)
(* when main has returned.                                                 *)
(***************************************************************************)
EXTENDS Integers, Sequences

CONSTANTS
    Listeners,  \* the ports in the order their Listeners are run
    Frontend,   \* those of them whose sessions may become WebSocket sessions
    Word,       \* how many values a std::uint32_t has
    Requested,  \* the thread counts on the command line, as a std::uint32_t
    Hardware,   \* what hardware_concurrency() may return, 0 if not known
    MaxWorkers  \* how many threads the process can create

ASSUME ServerAssumption ==
    /\ Word \in Nat \ {0}
    /\ Requested \subseteq 0..(Word - 1)
    /\ Hardware \subseteq 0..(Word - 1)
    /\ MaxWorkers \in Nat /\ MaxWorkers < Word - 1

Port == {Listeners[n] : n \in DOMAIN Listeners}

\* The main thread, 0, and those that main creates.
Thread == 0..MaxWorkers

VARIABLES
    main,       \* where main is: the phases below, exited, or aborted
    status,     \* what main returned
    threads,    \* CommandLineInterface::threads
    next,       \* the place of the next Listener to run
    i,          \* the counter of the loop that creates threads
    spawned,    \* threads created so far: 1..spawned
    returned,   \* those whose io.run() has returned
    handler,    \* what handler a thread is in: of a port, of a session, in a loop
                \* that does not end, or none
    accept,     \* the accept of a port: none yet, pending, handled, ended
    served,     \* ports at which a session was made
    signal,     \* SIGINT or SIGTERM: none, delivered, handled
    stopped,    \* io.stop() was called
    failed      \* history: ports at which an accept failed

process == <<main, status, threads, next, i, spawned, returned>>
io == <<handler, accept, served, failed>>
vars == <<process, io, signal, stopped>>

\* Every value that is no port.
Idle == "idle"
InSession == "session"
Looping == "looping"

ASSUME PortAssumption ==
    /\ Listeners \in Seq(Port) /\ Frontend \subseteq Port
    /\ {Idle, InSession, Looping} \cap Port = {}

Init ==
    /\ main = "parse"
    /\ status = "none"
    /\ threads = 0
    /\ next = 1
    /\ i = 0
    /\ spawned = 0
    /\ returned = {}
    /\ handler = [t \in Thread |-> Idle]
    /\ accept = [p \in Port |-> "closed"]
    /\ served = {}
    /\ signal = "none"
    /\ stopped = FALSE
    /\ failed = {}

----------------------------------------------------------------------------
(* The start. *)

exit(code) == main' = "exited" /\ status' = code

\* The command line is read; a count of 0 stands for that of the hardware.
parse ==
    /\ main = "parse"
    /\ \/ /\ \E n \in Requested :
                IF n = 0 THEN threads' \in Hardware ELSE threads' = n
          /\ main' = "certificate"
          /\ UNCHANGED status
       \/ exit("FAILURE") /\ UNCHANGED threads
    /\ UNCHANGED <<next, i, spawned, returned, io, signal, stopped>>

loadServerCertificate ==
    /\ main = "certificate"
    /\ \/ main' = "listen" /\ UNCHANGED status
       \/ exit("FAILURE")
    /\ UNCHANGED <<threads, next, i, spawned, returned, io, signal, stopped>>

\* Mutant: the last of the Listeners is left out.
AllButOne == next = Len(Listeners)

listening == next > Len(Listeners)

\* Listener::run of one after the other: open, bind and listen, any of which
\* may throw, and the first accept.
run ==
    /\ main = "listen" /\ ~listening
    /\ \/ /\ accept' = [accept EXCEPT ![Listeners[next]] = "pending"]
          /\ next' = next + 1
          /\ UNCHANGED <<main, status, stopped>>
       \/ /\ stopped' = TRUE
          /\ exit("FAILURE")
          /\ UNCHANGED <<accept, next>>
    /\ UNCHANGED <<threads, i, spawned, returned, handler, served, failed, signal>>

\* Mutant: the counter is signed.
Signed(n) == n - 1

\* Mutant: the main thread is taken off twice.
TwoLess(n) == IF n < 2 THEN n + Word - 2 ELSE n - 2

\* Unsigned, it wraps.
minusOne(n) == IF n = 0 THEN Word - 1 ELSE n - 1

\* The signals are caught from here on, and the loop that creates the threads
\* begins.
waitForSignal ==
    /\ main = "listen" /\ listening
    /\ main' = "spawn"
    /\ i' = minusOne(threads)
    /\ UNCHANGED <<status, threads, next, spawned, returned, io, signal, stopped>>

\* One turn of the loop.  A thread that cannot be created is an exception that
\* nothing catches, as is, before the loop, a count there is no room for.
spawn ==
    /\ main = "spawn" /\ i > 0
    /\ IF spawned < MaxWorkers
       THEN spawned' = spawned + 1 /\ i' = i - 1 /\ UNCHANGED main
       ELSE main' = "aborted" /\ UNCHANGED <<spawned, i>>
    /\ UNCHANGED <<status, threads, next, returned, io, signal, stopped>>

runMain ==
    /\ main = "spawn" /\ i = 0
    /\ main' = "run"
    /\ UNCHANGED <<status, threads, next, i, spawned, returned, io, signal, stopped>>

\* A signal ends the process at once as long as main does not wait for it.
Signal ==
    /\ main \notin {"exited", "aborted"} /\ signal = "none"
    /\ IF main \in {"parse", "certificate", "listen"}
       THEN main' = "aborted" /\ UNCHANGED signal
       ELSE signal' = "delivered" /\ UNCHANGED main
    /\ UNCHANGED <<status, threads, next, i, spawned, returned, io, stopped>>

----------------------------------------------------------------------------
(* The threads in io.run(). *)

Running(t) ==
    /\ main # "aborted"
    /\ IF t = 0 THEN main = "run" ELSE t \in (1..spawned) \ returned

\* The completion of the accept that is pending at a port is taken up.
AcceptCompletes(t, p) ==
    /\ Running(t) /\ handler[t] = Idle /\ ~stopped
    /\ accept[p] = "pending"
    /\ accept' = [accept EXCEPT ![p] = "handled"]
    /\ handler' = [handler EXCEPT ![t] = p]
    /\ UNCHANGED <<process, served, failed, signal, stopped>>

\* onAccept: a session is made and the next accept started; an error ends the
\* loop of the port.
onAccept(t) ==
    /\ main # "aborted" /\ handler[t] \in Port
    /\ LET p == handler[t] IN
       \/ /\ accept' = [accept EXCEPT ![p] = "pending"]
          /\ served' = served \cup {p}
          /\ UNCHANGED failed
       \/ /\ accept' = [accept EXCEPT ![p] = "ended"]
          /\ failed' = failed \cup {p}
          /\ UNCHANGED served
    /\ handler' = [handler EXCEPT ![t] = Idle]
    /\ UNCHANGED <<process, signal, stopped>>

SessionHandler(t) ==
    /\ Running(t) /\ handler[t] = Idle /\ ~stopped
    /\ served # {}
    /\ handler' = [handler EXCEPT ![t] = InSession]
    /\ UNCHANGED <<process, accept, served, failed, signal, stopped>>

SessionHandlerReturns(t) ==
    /\ main # "aborted" /\ handler[t] = InSession
    /\ handler' = [handler EXCEPT ![t] = Idle]
    /\ UNCHANGED <<process, accept, served, failed, signal, stopped>>

\* onRead of a WebSocket session has a message of more than 512 bytes: handle
\* says PayloadTooBig, nothing is consumed, and the loop neither ends nor returns.
PayloadTooBig(t) ==
    /\ main # "aborted" /\ handler[t] = InSession
    /\ served \cap Frontend # {}
    /\ handler' = [handler EXCEPT ![t] = Looping]
    /\ UNCHANGED <<process, accept, served, failed, signal, stopped>>

\* Mutant: the handler of the signal only logs it.
OnlyLogs == UNCHANGED stopped

stop == stopped' = TRUE

onSignal(t) ==
    /\ Running(t) /\ handler[t] = Idle /\ ~stopped
    /\ signal = "delivered"
    /\ signal' = "handled"
    /\ stop
    /\ UNCHANGED <<process, io>>

\* Mutant: the wait for a signal is no work that keeps io.run() from returning.
NothingToAccept == stopped \/ \A p \in Port : accept[p] = "ended"

\* io.run() returns when it is stopped: the wait for a signal is outstanding
\* until then.
runReturns == stopped

\* io.run() returns on a thread that has finished its handler.
Return(t) ==
    /\ Running(t) /\ handler[t] = Idle /\ runReturns
    /\ IF t = 0
       THEN main' = "join" /\ UNCHANGED returned
       ELSE returned' = returned \cup {t} /\ UNCHANGED main
    /\ UNCHANGED <<status, threads, next, i, spawned, io, signal, stopped>>

\* Mutant: the threads are detached.
Detached == TRUE

joined == returned = 1..spawned

join ==
    /\ main = "join" /\ joined
    /\ exit("SUCCESS")
    /\ UNCHANGED <<threads, next, i, spawned, returned, io, signal, stopped>>

----------------------------------------------------------------------------
Main ==
    \/ parse \/ loadServerCertificate \/ run \/ waitForSignal
    \/ spawn \/ runMain \/ join

Handle(t) ==
    \/ \E p \in Port : AcceptCompletes(t, p)
    \/ SessionHandler(t)
    \/ onSignal(t)

Finish(t) == onAccept(t) \/ SessionHandlerReturns(t) \/ Return(t)

Next ==
    \/ Main \/ Signal
    \/ \E t \in Thread : Handle(t) \/ PayloadTooBig(t) \/ Finish(t)

Spec == Init /\ [][Next]_vars

(* Threads run, and handlers return, all but one that is Looping.  A signal   *)
(* that was delivered is one completion in the queue of the io_context, which *)
(* is first in, first out: a thread takes it up although others are always    *)
(* there too.                                                                 *)
FairSpec ==
    /\ Spec
    /\ WF_vars(Main)
    /\ \A t \in Thread : WF_vars(Finish(t))
    /\ SF_vars(\E t \in Thread : onSignal(t))

----------------------------------------------------------------------------
TypeOK ==
    /\ main \in {"parse", "certificate", "listen", "spawn", "run", "join",
                 "exited", "aborted"}
    /\ status \in {"none", "SUCCESS", "FAILURE"}
    /\ threads \in 0..(Word - 1)
    /\ next \in 1..(Len(Listeners) + 1)
    /\ i \in 0..(Word - 1)
    /\ spawned \in 0..MaxWorkers
    /\ returned \subseteq 1..spawned
    /\ handler \in [Thread -> Port \cup {Idle, InSession, Looping}]
    /\ accept \in [Port -> {"closed", "pending", "handled", "ended"}]
    /\ served \subseteq Port
    /\ signal \in {"none", "delivered", "handled"}
    /\ stopped \in BOOLEAN
    /\ failed \subseteq Port

\* When main returns, and with it the Listeners and the context that handlers
\* refer to are destroyed, no thread is in a handler or can come into one.
NoHandlerAtExit ==
    main = "exited" => \A t \in Thread : handler[t] = Idle /\ ~Running(t)

\* The io_context is run by as many threads as were asked for, main being one
\* of them: the loop never ends with a count that has wrapped.
AsManyThreads ==
    main \in {"run", "join"} => spawned + 1 = threads

\* Threads cannot be created only for a count the process cannot have, and for
\* 0: where the number of threads of the hardware is not known, the loop starts
\* from a count that has wrapped.
AbortExplained ==
    main = "aborted" /\ i > 0 => threads = 0 \/ threads > MaxWorkers + 1

\* From the start to the signal an accept is under way at every port, unless one
\* has failed there: the server keeps running without that port.
PortsAccept ==
    main \in {"spawn", "run"} =>
        \A p \in Port :
            /\ accept[p] \in {"pending", "handled"} <=> p \notin failed
            /\ accept[p] = "handled" => \E t \in Thread : handler[t] = p

\* A failed start has served nobody, and a success is one that a signal ended.
ExitTold ==
    /\ status = "FAILURE" => served = {} /\ spawned = 0
    /\ status = "SUCCESS" => signal = "handled"

\* A signal that is delivered ends the process, while threads are still being
\* created or all are busy with handlers of sessions, unless one of these loops.
SignalEnds ==
    signal = "delivered" ~>
        main \in {"exited", "aborted"} \/ \E t \in Thread : handler[t] = Looping
=============================================================================
