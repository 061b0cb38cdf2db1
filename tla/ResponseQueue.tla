--------------------------- MODULE ResponseQueue ----------------------------
(***************************************************************************)
(* The response queue of one WebSocket session, statement by statement,    *)
(* as the threads of the io_context run writeRequest and onWrite.          *)
(*                                                                         *)
(* The handlers of the session are on its strand, one at a time: onWrite,  *)
(* and the onRead that answers a request.  A notification of weather calls *)
(* writeRequest on the strand of a TCP session, at the same time as those  *)
(* if there is a thread to run it.                                         *)
(***************************************************************************)
EXTENDS Naturals, Sequences

CONSTANTS
    Thread,         \* the threads that run the io_context
    None,           \* no thread
    MaxResponses    \* bound: responses given to the queue

ASSUME QueueAssumption ==
    /\ None \notin Thread
    /\ MaxResponses \in Nat

VARIABLES
    queue_,         \* responses, numbered from 1
    given,          \* the number of the last one
    writes,         \* the async_writes in flight
    delivered,      \* the responses that reached the frontend
    pc,             \* where a thread is: out of the two functions, after the
                    \* push_back of writeRequest, after the erase of onWrite
    strand,         \* the thread that runs a handler of the session, or None
    failed          \* a write failed: the connection is lost

vars == <<queue_, given, writes, delivered, pc, strand, failed>>

\* What front() of an empty vector yields.
NoResponse == 0

Response == 0..MaxResponses

TypeOK ==
    /\ queue_ \in Seq(Response)
    /\ given \in Response
    /\ writes \in Seq(Response)
    /\ delivered \in Seq(Response)
    /\ pc \in [Thread -> {"out", "pushed", "erased"}]
    /\ strand \in Thread \cup {None}
    /\ failed \in BOOLEAN

Init ==
    /\ queue_ = <<>>
    /\ given = 0
    /\ writes = <<>>
    /\ delivered = <<>>
    /\ pc = [t \in Thread |-> "out"]
    /\ strand = None
    /\ failed = FALSE

front == IF queue_ = <<>> THEN NoResponse ELSE Head(queue_)

asyncWrite == writes' = Append(writes, front)

release(t) == strand' = IF strand = t THEN None ELSE strand

----------------------------------------------------------------------------
(* writeRequest: the response is queued, and then written if it is alone. *)

\* Called by onRead on the strand of the session, or by a TCP session on its own.
push_back(t) ==
    /\ pc[t] = "out" /\ given < MaxResponses
    /\ \/ strand = None /\ strand' = t
       \/ UNCHANGED strand
    /\ given' = given + 1
    /\ queue_' = Append(queue_, given + 1)
    /\ pc' = [pc EXCEPT ![t] = "pushed"]
    /\ UNCHANGED <<writes, delivered, failed>>

\* Mutant: the queue is never found to be in use.
NeverBusy == FALSE

alreadyWriting == Len(queue_) > 1

startWrite(t) ==
    /\ pc[t] = "pushed"
    /\ IF alreadyWriting THEN UNCHANGED writes ELSE asyncWrite
    /\ pc' = [pc EXCEPT ![t] = "out"]
    /\ release(t)
    /\ UNCHANGED <<queue_, given, delivered, failed>>

----------------------------------------------------------------------------
(* onWrite: the response is erased, and the next one of the queue written. *)

\* Mutant: the last response is erased, not the one that was written.
EraseLast == IF queue_ = <<>> THEN <<>> ELSE SubSeq(queue_, 1, Len(queue_) - 1)

erase == IF queue_ = <<>> THEN <<>> ELSE Tail(queue_)

onWrite(t) ==
    /\ pc[t] = "out" /\ strand = None
    /\ writes # <<>> /\ ~failed
    /\ delivered' = Append(delivered, Head(writes))
    /\ writes' = Tail(writes)
    /\ queue_' = erase
    /\ pc' = [pc EXCEPT ![t] = "erased"]
    /\ strand' = t
    /\ UNCHANGED <<given, failed>>

\* Mutant: onWrite leaves the rest of the queue to the next writeRequest.
NoNextWrite == UNCHANGED writes

writeFront == IF queue_ = <<>> THEN UNCHANGED writes ELSE asyncWrite

writeNext(t) ==
    /\ pc[t] = "erased"
    /\ writeFront
    /\ pc' = [pc EXCEPT ![t] = "out"]
    /\ release(t)
    /\ UNCHANGED <<queue_, given, delivered, failed>>

\* onWrite with an error returns at once.
onWriteError(t) ==
    /\ pc[t] = "out" /\ strand = None
    /\ writes # <<>>
    /\ writes' = Tail(writes)
    /\ failed' = TRUE
    /\ UNCHANGED <<queue_, given, delivered, pc, strand>>

----------------------------------------------------------------------------
Step(t) == startWrite(t) \/ onWrite(t) \/ writeNext(t) \/ onWriteError(t)

Next == \E t \in Thread : push_back(t) \/ Step(t)

Spec == Init /\ [][Next]_vars

(* A thread in a function goes on, and a write completes. *)
FairSpec == Spec /\ \A t \in Thread : WF_vars(Step(t))

----------------------------------------------------------------------------
\* The stream is written by one async_write at a time, which Beast demands, and
\* whenever no thread is between two statements one is in flight exactly if
\* there is something in the queue: no response is forgotten there.  The comment
\* on run says the session "is written to be thread-safe by default".
QueueServed ==
    /\ Len(writes) <= 1
    /\ (\A t \in Thread : pc[t] = "out") /\ ~failed =>
           (writes = <<>> <=> queue_ = <<>>)

\* With one thread the queue is a channel that keeps the order of its responses.
Channel == INSTANCE ResponseChannel

ChannelSpec == Channel!Spec

\* Every response given to the queue reaches the frontend, unless the connection
\* is lost.
AllDelivered ==
    \A n \in 1..MaxResponses : given >= n ~> (Len(delivered) >= n \/ failed)
============================================================================
