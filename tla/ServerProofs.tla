---------------------------- MODULE ServerProofs ----------------------------
(***************************************************************************)
(* Proofs about Server, for every number of Listeners, of threads, and     *)
(* every width of the counter.                                             *)
(***************************************************************************)
EXTENDS Server, TLAPS

----------------------------------------------------------------------------
(* The parts of the inductive invariant. *)

\* Before the signals are caught nothing runs, and the Listeners run so far are
\* accepting.
Starting ==
    main \in {"parse", "certificate", "listen"} =>
        /\ spawned = 0 /\ i = 0 /\ served = {} /\ failed = {}
        /\ signal = "none" /\ ~stopped
        /\ \A n \in 1..(next - 1) : accept[Listeners[n]] = "pending"

\* A handler runs on a thread whose io.run() has not returned.
HandlersRun ==
    \A t \in Thread : handler[t] # Idle =>
        IF t = 0 THEN main = "run" ELSE t \in (1..spawned) \ returned

\* What is left of the loop that creates threads.
LoopCount ==
    /\ main = "spawn" => spawned + i = minusOne(threads)
    /\ main \in {"run", "join"} => spawned = minusOne(threads)
    /\ main = "aborted" /\ i > 0 =>
           spawned = MaxWorkers /\ spawned + i = minusOne(threads)

\* Only the handler of a signal stops a server that has started.
StoppedBySignal ==
    /\ status # "none" <=> main = "exited"
    /\ status # "FAILURE" /\ stopped => signal = "handled"
    /\ main = "join" => stopped
    /\ status = "SUCCESS" => stopped /\ returned = 1..spawned
    /\ status = "FAILURE" => spawned = 0 /\ served = {}

\* A port is in the hands of one thread.
OneHandler ==
    \A t \in Thread : handler[t] \in Port =>
        /\ accept[handler[t]] = "handled"
        /\ \A u \in Thread : handler[u] = handler[t] => u = t

Accepting ==
    main \in {"spawn", "run", "join"} =>
        \A p \in Port :
            /\ accept[p] \in {"pending", "handled"} <=> p \notin failed
            /\ accept[p] = "handled" => \E t \in Thread : handler[t] = p

Inv ==
    /\ TypeOK /\ Starting /\ HandlersRun /\ LoopCount /\ StoppedBySignal
    /\ OneHandler /\ Accepting

LEMMA Count ==
    /\ MaxWorkers \in Nat /\ Word \in Nat /\ MaxWorkers < Word - 1
    /\ \A n \in 0..(Word - 1) : minusOne(n) \in 0..(Word - 1)
  BY ServerAssumption DEF minusOne

LEMMA LastListener == \A p \in Port : \E n \in 1..Len(Listeners) : p = Listeners[n]
  <1>1. DOMAIN Listeners = 1..Len(Listeners)
    BY PortAssumption
  <1> QED  BY <1>1 DEF Port

LEMMA ListenerIsPort ==
    /\ Len(Listeners) \in Nat
    /\ \A n \in 1..Len(Listeners) : Listeners[n] \in Port
  <1>1. DOMAIN Listeners = 1..Len(Listeners) /\ Len(Listeners) \in Nat
    BY PortAssumption
  <1> QED  BY <1>1 DEF Port

LEMMA InitInv == Init => Inv
  <1> SUFFICES ASSUME Init
               PROVE  Inv
    OBVIOUS
  <1>1. 1 \in 1..(Len(Listeners) + 1) /\ 0 \in 0..(Word - 1) /\ 0 \in 0..MaxWorkers
    BY ListenerIsPort, Count
  <1>2. TypeOK
    <2>1. /\ main = "parse" /\ status = "none" /\ threads = 0 /\ next = 1 /\ i = 0
          /\ spawned = 0 /\ returned = {} /\ served = {} /\ failed = {}
          /\ signal = "none" /\ stopped = FALSE
      BY DEF Init
    <2>2. handler \in [Thread -> Port \cup {Idle, InSession}]
      BY DEF Init
    <2>3. accept \in [Port -> {"closed", "pending", "handled", "ended"}]
      BY DEF Init
    <2> QED  BY <1>1, <2>1, <2>2, <2>3 DEF TypeOK
  <1>3. Starting /\ HandlersRun /\ LoopCount /\ StoppedBySignal /\ Accepting
    BY DEF Init, Starting, HandlersRun, LoopCount, StoppedBySignal, Accepting
  <1>4. OneHandler
    BY PortAssumption DEF Init, OneHandler
  <1> QED  BY <1>2, <1>3, <1>4 DEF Inv

\* Steps of main before the threads.
LEMMA StartStep ==
    ASSUME Inv, parse \/ loadServerCertificate \/ run \/ waitForSignal
    PROVE  Inv'
  <1>1. /\ main \in {"parse", "certificate", "listen"} /\ status = "none"
        /\ spawned = 0 /\ i = 0 /\ served = {} /\ failed = {} /\ returned = {}
        /\ signal = "none" /\ ~stopped
        /\ \A n \in 1..(next - 1) : accept[Listeners[n]] = "pending"
    BY DEF Inv, TypeOK, Starting, StoppedBySignal, parse, loadServerCertificate, run, waitForSignal
  <1>2. UNCHANGED <<spawned, returned, handler, served, failed, signal>>
    BY DEF parse, loadServerCertificate, run, waitForSignal, io
  <1>3. \A t \in Thread : handler[t] = Idle
    BY <1>1 DEF Inv, HandlersRun
  <1>4. TypeOK'
    <2>1. CASE parse
      BY <2>1, ServerAssumption DEF parse, exit, io, Inv, TypeOK
    <2>2. CASE loadServerCertificate
      BY <2>2 DEF loadServerCertificate, exit, io, Inv, TypeOK
    <2>3. CASE run
      <3>1. next \in 1..Len(Listeners)
        BY <2>3, ListenerIsPort DEF run, listening, Inv, TypeOK
      <3>2. /\ next' \in 1..(Len(Listeners) + 1)
            /\ main' \in {"listen", "exited"} /\ status' \in {"none", "FAILURE"}
        <4>1. \/ next' = next + 1 /\ UNCHANGED <<main, status>>
              \/ main' = "exited" /\ status' = "FAILURE" /\ next' = next
          BY <2>3 DEF run, exit
        <4>2. main = "listen"
          BY <2>3 DEF run
        <4> QED  BY <1>1, <3>1, <4>1, <4>2, ListenerIsPort
      <3>3. accept' \in [Port -> {"closed", "pending", "handled", "ended"}]
        BY <2>3, <3>1, ListenerIsPort DEF run, Inv, TypeOK
      <3>4. UNCHANGED <<threads, i, spawned, returned, handler, served, failed, signal>>
        BY <2>3 DEF run
      <3>5. stopped' \in BOOLEAN
        BY <2>3 DEF run, Inv, TypeOK
      <3> QED  BY <3>2, <3>3, <3>4, <3>5 DEF Inv, TypeOK
    <2>4. CASE waitForSignal
      BY <2>4, Count DEF waitForSignal, io, Inv, TypeOK
    <2> QED  BY <2>1, <2>2, <2>3, <2>4
  <1>5. HandlersRun' /\ OneHandler'
    BY <1>2, <1>3, PortAssumption DEF HandlersRun, OneHandler
  <1>6. Starting'
    <2>1. CASE parse \/ loadServerCertificate \/ waitForSignal
      BY <1>1, <2>1 DEF parse, loadServerCertificate, waitForSignal, exit, io, Starting
    <2>2. CASE run
      <3>1. CASE main' = "exited"
        BY <3>1 DEF Starting
      <3>2. CASE main' # "exited"
        <4>1. /\ next' = next + 1 /\ accept' = [accept EXCEPT ![Listeners[next]] = "pending"]
              /\ UNCHANGED <<i, stopped>>
          BY <2>2, <3>2 DEF run, exit
        <4>2. next \in 1..Len(Listeners) /\ Len(Listeners) \in Nat
          BY <2>2, ListenerIsPort DEF run, listening, Inv, TypeOK
        <4>3. \A n \in 1..next : Listeners[n] \in Port
          BY <4>2, ListenerIsPort
        <4>4. \A n \in 1..(next' - 1) : accept'[Listeners[n]] = "pending"
          BY <1>1, <4>1, <4>2, <4>3 DEF Inv, TypeOK
        <4> QED  BY <1>1, <1>2, <4>1, <4>4 DEF Starting
      <3> QED  BY <3>1, <3>2
    <2> QED  BY <2>1, <2>2
  <1>7. LoopCount'
    <2>1. i \in Nat /\ (waitForSignal => minusOne(threads) \in Nat)
      BY Count DEF Inv, TypeOK
    <2>2. CASE waitForSignal
      BY <1>1, <2>1, <2>2 DEF waitForSignal, LoopCount, minusOne
    <2>3. CASE ~waitForSignal
      BY <2>3 DEF parse, loadServerCertificate, run, exit, LoopCount
    <2> QED  BY <2>2, <2>3
  <1>8. StoppedBySignal'
    BY <1>1 DEF parse, loadServerCertificate, run, waitForSignal, exit, io, StoppedBySignal
  <1>9. Accepting'
    <2>1. CASE waitForSignal
      <3>1. \A p \in Port : accept[p] = "pending"
        <4>1. next - 1 = Len(Listeners)
          BY <2>1, PortAssumption DEF waitForSignal, listening, Inv, TypeOK
        <4> QED  BY <1>1, <4>1, LastListener
      <3> QED  BY <1>1, <2>1, <3>1 DEF waitForSignal, io, Accepting
    <2>2. CASE ~waitForSignal
      BY <2>2 DEF parse, loadServerCertificate, run, exit, Accepting
    <2> QED  BY <2>1, <2>2
  <1> QED  BY <1>4, <1>5, <1>6, <1>7, <1>8, <1>9 DEF Inv

LEMMA SpawnStep ==
    ASSUME Inv, spawn \/ runMain
    PROVE  Inv'
  <1>1. /\ main = "spawn" /\ status = "none"
        /\ UNCHANGED <<status, threads, next, returned, io, signal, stopped>>
        /\ spawned \in Nat /\ i \in Nat
    BY Count DEF spawn, runMain, Inv, TypeOK, StoppedBySignal
  <1>2. TypeOK'
    <2>1. /\ main' \in {"spawn", "run", "aborted"} /\ i' \in 0..(Word - 1)
          /\ spawned' \in 0..MaxWorkers /\ spawned' >= spawned
      <3>1. i \in 0..(Word - 1) /\ spawned \in 0..MaxWorkers
        BY DEF Inv, TypeOK
      <3>2. CASE spawn
        BY <1>1, <3>1, <3>2, Count DEF spawn
      <3>3. CASE runMain
        BY <1>1, <3>1, <3>3, Count DEF runMain
      <3> QED  BY <3>2, <3>3
    <2>2. returned' \subseteq 1..spawned'
      BY <1>1, <2>1 DEF Inv, TypeOK
    <2> QED  BY <1>1, <2>1, <2>2 DEF io, Inv, TypeOK
  <1>3. Starting' /\ StoppedBySignal'
    BY <1>1 DEF spawn, runMain, io, Inv, Starting, StoppedBySignal
  <1>4. HandlersRun'
    BY <1>1 DEF spawn, runMain, io, Inv, HandlersRun, TypeOK
  <1>5. LoopCount'
    BY <1>1, Count DEF spawn, runMain, Inv, TypeOK, LoopCount, minusOne
  <1>6. OneHandler' /\ Accepting'
    BY <1>1 DEF spawn, runMain, io, Inv, OneHandler, Accepting
  <1> QED  BY <1>2, <1>3, <1>4, <1>5, <1>6 DEF Inv

LEMMA SignalStep ==
    ASSUME Inv, Signal
    PROVE  Inv'
  <1>1. UNCHANGED <<status, threads, next, i, spawned, returned, io, stopped>>
    BY DEF Signal
  <1>2. TypeOK' /\ LoopCount' /\ Starting' /\ StoppedBySignal'
    BY <1>1 DEF Signal, io, Inv, TypeOK, LoopCount, Starting, StoppedBySignal, minusOne
  <1>3. HandlersRun' /\ OneHandler' /\ Accepting'
    BY <1>1 DEF Signal, io, Inv, HandlersRun, OneHandler, Accepting
  <1> QED  BY <1>2, <1>3 DEF Inv

LEMMA HandleStep ==
    ASSUME Inv, NEW t \in Thread, Handle(t)
    PROVE  Inv'
  <1>1. /\ Running(t) /\ handler[t] = Idle /\ ~stopped /\ UNCHANGED process
        /\ UNCHANGED <<served, failed>>
    BY DEF Handle, AcceptCompletes, SessionHandler, onSignal, io
  <1>2. /\ IF t = 0 THEN main = "run" ELSE t \in (1..spawned) \ returned
        /\ main \notin {"parse", "certificate", "listen"} /\ status # "FAILURE"
    BY <1>1 DEF Running, Thread, Inv, TypeOK, Starting, StoppedBySignal
  <1>3. LoopCount'
    BY <1>1 DEF process, Inv, LoopCount, minusOne
  <1>4. Starting'
    BY <1>1, <1>2 DEF process, Starting
  <1>5. StoppedBySignal'
    BY <1>1, <1>2 DEF Handle, AcceptCompletes, SessionHandler, onSignal, stop, process, Inv,
         StoppedBySignal
  <1>6. CASE onSignal(t)
    BY <1>1, <1>3, <1>4, <1>5, <1>6
       DEF onSignal, stop, process, io, Inv, TypeOK, HandlersRun, OneHandler, Accepting
  <1>7. CASE SessionHandler(t)
    <2>1. TypeOK'
      BY <1>1, <1>7 DEF SessionHandler, process, Inv, TypeOK
    <2>2. /\ handler' = [handler EXCEPT ![t] = InSession] /\ UNCHANGED <<accept, failed>>
          /\ \A p \in Port : p # Idle /\ p # InSession
      BY <1>7, PortAssumption DEF SessionHandler
    <2>3. handler'[t] = InSession /\ \A u \in Thread \ {t} : handler'[u] = handler[u]
      BY <2>2 DEF Inv, TypeOK
    <2>4. HandlersRun' /\ OneHandler' /\ Accepting'
      BY <1>1, <1>2, <2>2, <2>3 DEF process, Inv, HandlersRun, OneHandler, Accepting
    <2> QED  BY <1>3, <1>4, <1>5, <2>1, <2>4 DEF Inv
  <1>8. ASSUME NEW p \in Port, AcceptCompletes(t, p)
        PROVE  Inv'
    <2>1. TypeOK'
      BY <1>1, <1>8 DEF AcceptCompletes, process, Inv, TypeOK
    <2>2. /\ handler'[t] = p /\ \A u \in Thread \ {t} : handler'[u] = handler[u]
          /\ accept[p] = "pending" /\ accept'[p] = "handled"
          /\ \A q \in Port \ {p} : accept'[q] = accept[q]
      BY <1>8 DEF AcceptCompletes, Inv, TypeOK
    <2>3. \A u \in Thread : handler[u] # p
      BY <2>2 DEF Inv, OneHandler
    <2>4. HandlersRun'
      BY <1>1, <1>2, <2>2 DEF process, Inv, HandlersRun
    <2>5. OneHandler'
      BY <2>2, <2>3 DEF Inv, OneHandler
    <2>6. Accepting'
      BY <1>1, <2>2, PortAssumption DEF process, Inv, Accepting
    <2> QED  BY <1>3, <1>4, <1>5, <2>1, <2>4, <2>5, <2>6 DEF Inv
  <1> QED  BY <1>6, <1>7, <1>8 DEF Handle

LEMMA FinishStep ==
    ASSUME Inv, NEW t \in Thread, onAccept(t) \/ SessionHandlerReturns(t)
    PROVE  Inv'
  <1>1. /\ UNCHANGED <<process, signal, stopped>>
        /\ handler' = [handler EXCEPT ![t] = Idle] /\ handler[t] # Idle
        /\ \A p \in Port : p # Idle /\ p # InSession /\ InSession # Idle
    BY PortAssumption DEF onAccept, SessionHandlerReturns, Idle, InSession
  <1>2. /\ IF t = 0 THEN main = "run" ELSE t \in (1..spawned) \ returned
        /\ main \notin {"parse", "certificate", "listen"} /\ status # "FAILURE"
    BY <1>1 DEF Thread, Inv, TypeOK, Starting, StoppedBySignal, HandlersRun
  <1>3. handler'[t] = Idle /\ \A u \in Thread \ {t} : handler'[u] = handler[u]
    BY <1>1 DEF Inv, TypeOK
  <1>4. LoopCount' /\ HandlersRun'
    BY <1>1, <1>3 DEF process, Inv, LoopCount, HandlersRun, minusOne
  <1>5. Starting' /\ StoppedBySignal'
    BY <1>1, <1>2 DEF process, Inv, Starting, StoppedBySignal
  <1>6. CASE SessionHandlerReturns(t)
    <2>1. UNCHANGED <<accept, served, failed>> /\ handler[t] = InSession
      BY <1>6 DEF SessionHandlerReturns
    <2>2. TypeOK'
      BY <1>1, <2>1 DEF process, Inv, TypeOK
    <2>3. OneHandler' /\ Accepting'
      BY <1>1, <1>3, <2>1 DEF process, Inv, OneHandler, Accepting
    <2> QED  BY <1>4, <1>5, <2>2, <2>3 DEF Inv
  <1>7. CASE onAccept(t)
    <2> DEFINE p == handler[t]
    <2>1. /\ p \in Port /\ accept[p] = "handled"
          /\ \A u \in Thread \ {t} : handler[u] # p
      BY <1>7 DEF onAccept, Inv, OneHandler
    <2>2. /\ \/ accept'[p] = "pending" /\ failed' = failed
             \/ accept'[p] = "ended" /\ failed' = failed \cup {p}
          /\ \A q \in Port \ {p} : accept'[q] = accept[q]
      BY <1>7, <2>1 DEF onAccept, Inv, TypeOK
    <2>3. TypeOK'
      BY <1>1, <1>7, <2>1 DEF onAccept, process, Inv, TypeOK
    <2>4. OneHandler'
      BY <1>1, <1>3, <2>1, <2>2 DEF Inv, OneHandler
    <2>5. Accepting'
      <3> SUFFICES ASSUME main \in {"spawn", "run", "join"}, NEW q \in Port
                   PROVE  /\ accept'[q] \in {"pending", "handled"} <=> q \notin failed'
                          /\ accept'[q] = "handled" => \E u \in Thread : handler'[u] = q
        BY <1>1 DEF process, Accepting
      <3>1. /\ accept[q] \in {"pending", "handled"} <=> q \notin failed
            /\ accept[q] = "handled" => \E u \in Thread : handler[u] = q
        BY DEF Inv, Accepting
      <3>2. CASE q = p
        BY <2>1, <2>2, <3>1, <3>2
      <3>3. CASE q # p
        BY <1>3, <2>2, <3>1, <3>3
      <3> QED  BY <3>2, <3>3
    <2> QED  BY <1>4, <1>5, <2>3, <2>4, <2>5 DEF Inv
  <1> QED  BY <1>6, <1>7

LEMMA LoopStep ==
    ASSUME Inv, NEW t \in Thread, PayloadTooBig(t)
    PROVE  Inv'
  <1>1. /\ UNCHANGED <<process, accept, served, failed, signal, stopped>>
        /\ handler' = [handler EXCEPT ![t] = Looping] /\ handler[t] = InSession
        /\ \A p \in Port : p # InSession /\ p # Looping
        /\ InSession # Idle
    BY PortAssumption DEF PayloadTooBig, Idle, InSession
  <1>2. handler'[t] = Looping /\ \A u \in Thread \ {t} : handler'[u] = handler[u]
    BY <1>1 DEF Inv, TypeOK
  <1>3. TypeOK'
    BY <1>1 DEF process, Inv, TypeOK
  <1>4. LoopCount' /\ Starting' /\ StoppedBySignal'
    BY <1>1 DEF process, Inv, LoopCount, Starting, StoppedBySignal, minusOne
  <1>5. HandlersRun'
    BY <1>1, <1>2 DEF process, Inv, HandlersRun
  <1>6. OneHandler' /\ Accepting'
    BY <1>1, <1>2 DEF process, Inv, OneHandler, Accepting
  <1> QED  BY <1>3, <1>4, <1>5, <1>6 DEF Inv

LEMMA ReturnStep ==
    ASSUME Inv, NEW t \in Thread, Return(t)
    PROVE  Inv'
  <1>1. /\ Running(t) /\ handler[t] = Idle /\ stopped
        /\ UNCHANGED <<status, threads, next, i, spawned, io, signal, stopped>>
    BY DEF Return, runReturns
  <1>2. /\ IF t = 0 THEN main = "run" ELSE t \in (1..spawned) \ returned
        /\ main \notin {"parse", "certificate", "listen", "exited"}
    BY <1>1 DEF Running, Thread, Inv, TypeOK, Starting, StoppedBySignal
  <1>3. TypeOK'
    BY <1>1, <1>2 DEF Return, io, Inv, TypeOK
  <1>4. HandlersRun'
    BY <1>1, <1>2 DEF Return, io, Inv, HandlersRun, Thread
  <1>5. LoopCount' /\ Starting'
    BY <1>1, <1>2 DEF Return, io, Inv, LoopCount, Starting, minusOne
  <1>6. StoppedBySignal'
    BY <1>1, <1>2 DEF Return, io, Inv, StoppedBySignal
  <1>7. OneHandler' /\ Accepting'
    BY <1>1, <1>2 DEF Return, io, Inv, OneHandler, Accepting
  <1> QED  BY <1>3, <1>4, <1>5, <1>6, <1>7 DEF Inv

LEMMA JoinStep ==
    ASSUME Inv, join
    PROVE  Inv'
  <1>1. /\ main = "join" /\ main' = "exited" /\ status' = "SUCCESS" /\ returned = 1..spawned
        /\ UNCHANGED <<threads, next, i, spawned, returned, io, signal, stopped>>
    BY DEF join, joined, exit
  <1>2. TypeOK' /\ Starting' /\ LoopCount' /\ StoppedBySignal'
    BY <1>1 DEF io, Inv, TypeOK, Starting, LoopCount, StoppedBySignal
  <1>3. HandlersRun' /\ OneHandler' /\ Accepting'
    BY <1>1 DEF io, Inv, HandlersRun, OneHandler, Accepting
  <1> QED  BY <1>2, <1>3 DEF Inv

LEMMA InvStep == Inv /\ [Next]_vars => Inv'
  <1> SUFFICES ASSUME Inv, [Next]_vars
               PROVE  Inv'
    OBVIOUS
  <1>1. CASE Main
    BY <1>1, StartStep, SpawnStep, JoinStep DEF Main
  <1>2. CASE UNCHANGED vars
    BY <1>2 DEF vars, process, io, Inv, TypeOK, Starting, HandlersRun, LoopCount, minusOne,
         StoppedBySignal, OneHandler, Accepting
  <1> QED  BY <1>1, <1>2, SignalStep, HandleStep, LoopStep, FinishStep, ReturnStep DEF Next, Finish

LEMMA Invariant == Spec => []Inv
  BY InitInv, InvStep, PTL DEF Spec

\* The model's variables keep their types.
THEOREM ServerTypeCorrect == Spec => []TypeOK
  <1>1. Inv => TypeOK
    BY DEF Inv
  <1> QED  BY <1>1, Invariant, PTL

\* No handler outlives main, whose locals the handlers use.
THEOREM HandlersEndBeforeMain == Spec => []NoHandlerAtExit
  <1>1. Inv => NoHandlerAtExit
    <2> SUFFICES ASSUME Inv, main = "exited", NEW t \in Thread
                 PROVE  handler[t] = Idle /\ ~Running(t)
      BY DEF NoHandlerAtExit
    <2>1. (1..spawned) \ returned = {}
      <3>1. CASE status = "SUCCESS"
        BY <3>1 DEF Inv, StoppedBySignal
      <3>2. CASE status = "FAILURE"
        BY <3>2 DEF Inv, StoppedBySignal
      <3> QED  BY <3>1, <3>2 DEF Inv, TypeOK, StoppedBySignal
    <2> QED  BY <2>1 DEF Inv, HandlersRun, Running
  <1> QED  BY <1>1, Invariant, PTL

\* A server that runs does so with the number of threads asked for.
THEOREM ThreadsAsAsked == Spec => []AsManyThreads
  <1>1. Inv => AsManyThreads
    BY Count DEF Inv, TypeOK, LoopCount, minusOne, AsManyThreads
  <1> QED  BY <1>1, Invariant, PTL

\* Creating the threads fails for no other count than 0 or one that is too high.
THEOREM AbortsAreExplained == Spec => []AbortExplained
  <1>1. Inv => AbortExplained
    BY Count DEF Inv, TypeOK, LoopCount, minusOne, AbortExplained
  <1> QED  BY <1>1, Invariant, PTL

\* An accept is under way at every port at which none has failed.
THEOREM EveryPortAccepts == Spec => []PortsAccept
  <1>1. Inv => PortsAccept
    BY DEF Inv, Accepting, PortsAccept
  <1> QED  BY <1>1, Invariant, PTL

\* What main returns is true of the run it ends.
THEOREM ExitIsTold == Spec => []ExitTold
  <1>1. Inv => ExitTold
    BY DEF Inv, StoppedBySignal, ExitTold
  <1> QED  BY <1>1, Invariant, PTL
=============================================================================
