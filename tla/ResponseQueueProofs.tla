------------------------ MODULE ResponseQueueProofs -------------------------
(***************************************************************************)
(* Proofs about ResponseQueue where one thread runs the io_context, for a  *)
(* queue of any length.  With two threads QueueServed fails, which the run *)
(* doc_thread_safe shows.                                                  *)
(***************************************************************************)
EXTENDS ResponseQueue, SequenceTheorems, TLAPS

OneThread == \A t, u \in Thread : t = u

AtRest == \A t \in Thread : pc[t] = "out"

\* The queue holds the responses from the first that was not delivered to the
\* last that was given.
Numbered ==
    /\ given = Len(delivered) + Len(queue_)
    /\ \A i \in 1..Len(queue_) : queue_[i] = Len(delivered) + i

\* What is being written is the front of the queue, which is still in it.
WritesFront ==
    \/ writes = <<>>
    \/ Len(writes) = 1 /\ queue_ # <<>> /\ Head(writes) = Head(queue_)

\* What the statements between which a thread stands may count on.
Pcs ==
    /\ AtRest /\ ~failed => (writes = <<>> <=> queue_ = <<>>)
    /\ \A t \in Thread : pc[t] = "pushed" =>
          /\ queue_ # <<>>
          /\ Len(queue_) = 1 => writes = <<>>
          /\ Len(queue_) > 1 /\ ~failed => writes # <<>>
    /\ \A t \in Thread : pc[t] = "erased" => writes = <<>>

Inv == TypeOK /\ Numbered /\ WritesFront /\ Pcs

LEMMA InitInv == Init => Inv
  <1> SUFFICES ASSUME Init
               PROVE  Inv
    OBVIOUS
  <1>1. TypeOK
    <2>1. /\ strand \in Thread \cup {None} /\ failed \in BOOLEAN
          /\ pc \in [Thread -> {"out", "pushed", "erased"}]
      BY DEF Init
    <2>2. queue_ \in Seq(Response) /\ writes \in Seq(Response) /\ delivered \in Seq(Response)
      BY EmptySeq, Zenon DEF Init
    <2>3. given \in Response
      BY QueueAssumption DEF Init, Response
    <2> QED  BY <2>1, <2>2, <2>3 DEF TypeOK
  <1>2. Len(queue_) = 0 /\ Len(delivered) = 0
    BY DEF Init
  <1>3. Numbered
    BY <1>2 DEF Init, Numbered
  <1>4. WritesFront /\ Pcs
    BY DEF Init, WritesFront, Pcs
  <1> QED  BY <1>1, <1>3, <1>4 DEF Inv

\* The types of the sequences, as the steps need them.
LEMMA Lengths ==
    ASSUME Inv
    PROVE  /\ queue_ \in Seq(Response) /\ writes \in Seq(Response) /\ delivered \in Seq(Response)
           /\ Len(queue_) \in Nat /\ Len(writes) \in Nat /\ Len(delivered) \in Nat
           /\ Response \subseteq Nat /\ given \in Response /\ MaxResponses \in Nat
           /\ queue_ # <<>> => Len(queue_) > 0
           /\ Len(writes) <= 1
  <1>1. /\ queue_ \in Seq(Response) /\ writes \in Seq(Response) /\ delivered \in Seq(Response)
        /\ Response \subseteq Nat /\ given \in Response /\ MaxResponses \in Nat
    BY QueueAssumption DEF Inv, TypeOK, Response
  <1>2. /\ Len(queue_) \in Nat /\ Len(writes) \in Nat /\ Len(delivered) \in Nat
        /\ queue_ # <<>> => Len(queue_) > 0
    BY <1>1, LenProperties, EmptySeq
  <1>3. Len(writes) <= 1
    BY EmptySeq DEF Inv, WritesFront
  <1> QED  BY <1>1, <1>2, <1>3

\* With one thread, no other is between two statements.
LEMMA Alone ==
    ASSUME OneThread, Inv, NEW t \in Thread, NEW p \in {"out", "pushed", "erased"},
           pc' = [pc EXCEPT ![t] = p]
    PROVE  /\ AtRest <=> pc[t] = "out"
           /\ AtRest' <=> p = "out"
           /\ \A u \in Thread : pc'[u] = p /\ u = t
           /\ pc' \in [Thread -> {"out", "pushed", "erased"}]
  BY DEF OneThread, Inv, TypeOK, AtRest

LEMMA PushStep ==
    ASSUME OneThread, Inv, NEW t \in Thread, push_back(t)
    PROVE  Inv'
  <1>1. /\ given' = given + 1 /\ queue_' = Append(queue_, given + 1)
        /\ UNCHANGED <<writes, delivered, failed>>
        /\ pc[t] = "out" /\ pc' = [pc EXCEPT ![t] = "pushed"]
        /\ given < MaxResponses
    BY DEF push_back
  <1>2. given + 1 \in Response
    BY <1>1, Lengths DEF Response
  <1>3. /\ queue_' \in Seq(Response) /\ queue_' # <<>>
        /\ Len(queue_') = Len(queue_) + 1
        /\ \A i \in 1..Len(queue_) : queue_'[i] = queue_[i]
        /\ queue_'[Len(queue_) + 1] = given + 1
    BY <1>1, <1>2, Lengths, AppendProperties
  <1>4. queue_ # <<>> => Head(queue_') = Head(queue_)
    BY <1>1, Lengths, HeadTailAppend
  <1>5. /\ AtRest /\ ~AtRest'
        /\ \A u \in Thread : pc'[u] = "pushed"
        /\ pc' \in [Thread -> {"out", "pushed", "erased"}]
    BY <1>1, Alone
  <1>6. TypeOK'
    BY <1>1, <1>2, <1>3, <1>5 DEF Inv, TypeOK, push_back
  <1>7. Numbered'
    <2>1. /\ given = Len(delivered) + Len(queue_) /\ Len(queue_) \in Nat /\ Len(delivered) \in Nat
          /\ \A i \in 1..Len(queue_) : queue_[i] = Len(delivered) + i
      BY Lengths DEF Inv, Numbered
    <2>2. given' = Len(delivered') + Len(queue_')
      BY <1>1, <1>3, <2>1
    <2>3. ASSUME NEW i \in 1..Len(queue_')
          PROVE  queue_'[i] = Len(delivered) + i
      <3>1. i \in 1..Len(queue_) \/ i = Len(queue_) + 1
        BY <1>3, <2>1
      <3> QED  BY <1>3, <2>1, <3>1
    <2> QED  BY <1>1, <2>2, <2>3 DEF Numbered
  <1>8. WritesFront'
    <2>1. writes' = writes
      BY <1>1
    <2> QED  BY <1>3, <1>4, <2>1 DEF Inv, WritesFront
  <1>9. Pcs'
    <2>1. Len(queue_') = 1 => writes = <<>>
      BY <1>3, Lengths DEF Inv, WritesFront
    <2>2. Len(queue_') > 1 /\ ~failed => writes # <<>>
      BY <1>3, <1>5, Lengths DEF Inv, Pcs
    <2> QED  BY <1>1, <1>3, <1>5, <2>1, <2>2 DEF Pcs
  <1> QED  BY <1>6, <1>7, <1>8, <1>9 DEF Inv

\* An async_write that is begun on a queue of some length takes its front.
LEMMA WriteFront ==
    ASSUME Inv, queue_ # <<>>, writes = <<>>, asyncWrite, UNCHANGED queue_
    PROVE  /\ writes' \in Seq(Response) /\ writes' # <<>>
           /\ WritesFront'
  <1>1. front \in Response /\ front = Head(queue_)
    BY Lengths, HeadTailProperties DEF front
  <1>2. /\ writes' \in Seq(Response) /\ writes' # <<>> /\ Len(writes') = 1
        /\ Head(writes') = front
    BY <1>1, AppendProperties, HeadTailAppend, Lengths DEF asyncWrite
  <1> QED  BY <1>1, <1>2 DEF WritesFront

LEMMA StartWriteStep ==
    ASSUME OneThread, Inv, NEW t \in Thread, startWrite(t)
    PROVE  Inv'
  <1>1. /\ UNCHANGED <<queue_, given, delivered, failed>>
        /\ pc[t] = "pushed" /\ pc' = [pc EXCEPT ![t] = "out"]
    BY DEF startWrite
  <1>2. AtRest' /\ pc' \in [Thread -> {"out", "pushed", "erased"}]
        /\ \A u \in Thread : pc'[u] = "out"
    BY <1>1, Alone
  <1>3. queue_ # <<>> /\ Len(queue_) > 0 /\ Len(queue_) \in Nat
    BY <1>1, Lengths DEF Inv, Pcs
  <1>4. /\ writes' \in Seq(Response) /\ WritesFront'
        /\ ~failed => writes' # <<>>
    <2>1. CASE Len(queue_) > 1
      <3>1. UNCHANGED writes
        BY <2>1 DEF startWrite, alreadyWriting
      <3> QED  BY <1>1, <2>1, <3>1, Lengths DEF Inv, Pcs, WritesFront
    <2>2. CASE Len(queue_) = 1
      <3>1. asyncWrite /\ writes = <<>>
        BY <1>1, <2>2 DEF startWrite, alreadyWriting, Inv, Pcs
      <3>2. UNCHANGED queue_
        BY <1>1
      <3> QED  BY <1>3, <3>1, <3>2, WriteFront
    <2>3. \A n \in Nat : n > 0 => n = 1 \/ n > 1
      OBVIOUS
    <2> QED  BY <1>3, <2>1, <2>2, <2>3, Zenon
  <1>5. TypeOK'
    BY <1>1, <1>2, <1>4 DEF Inv, TypeOK, startWrite, release
  <1>6. Numbered' /\ Pcs'
    BY <1>1, <1>2, <1>3, <1>4 DEF Inv, Numbered, Pcs
  <1> QED  BY <1>4, <1>5, <1>6 DEF Inv

\* The write that completes is that of the next response.
LEMMA FrontIsNext ==
    ASSUME Inv, writes # <<>>
    PROVE  /\ Head(writes) = Len(delivered) + 1
           /\ Len(delivered) < given
           /\ queue_ # <<>> /\ Tail(writes) = <<>>
  <1>1. /\ queue_ # <<>> /\ Head(writes) = Head(queue_) /\ Len(queue_) > 0 /\ Len(writes) = 1
    BY Lengths DEF Inv, WritesFront
  <1>2. Head(queue_) = queue_[1] /\ queue_[1] = Len(delivered) + 1
    BY <1>1, Lengths DEF Inv, Numbered
  <1>3. Tail(writes) \in Seq(Response) /\ Len(Tail(writes)) = 0
    <2>1. writes \in Seq(Response)
      BY Lengths
    <2> QED  BY <1>1, <2>1, HeadTailProperties
  <1>4. Tail(writes) = <<>>
    BY <1>3, EmptySeq
  <1>5. Len(delivered) < given
    BY <1>1, Lengths DEF Inv, Numbered
  <1> QED  BY <1>1, <1>2, <1>4, <1>5

LEMMA OnWriteStep ==
    ASSUME OneThread, Inv, NEW t \in Thread, onWrite(t)
    PROVE  Inv'
  <1>1. /\ pc[t] = "out" /\ writes # <<>> /\ ~failed
        /\ delivered' = Append(delivered, Head(writes))
        /\ writes' = Tail(writes) /\ pc' = [pc EXCEPT ![t] = "erased"]
        /\ strand' = t /\ UNCHANGED <<given, failed>>
    BY DEF onWrite
  <1>2. /\ Head(writes) = Len(delivered) + 1 /\ Len(delivered) < given
        /\ queue_ # <<>> /\ writes' = <<>>
    BY <1>1, FrontIsNext
  <1>3. Head(writes) \in Response
    BY <1>1, Lengths, HeadTailProperties
  <1>4. delivered' \in Seq(Response) /\ Len(delivered') = Len(delivered) + 1
    BY <1>1, <1>3, Lengths, AppendProperties
  <1>5. queue_' = Tail(queue_)
    BY <1>2 DEF onWrite, erase
  <1>6. /\ queue_' \in Seq(Response) /\ Len(queue_') = Len(queue_) - 1
        /\ \A i \in 1..Len(queue_') : queue_'[i] = queue_[i + 1]
    BY <1>2, <1>5, Lengths, HeadTailProperties
  <1>7. /\ ~AtRest' /\ pc' \in [Thread -> {"out", "pushed", "erased"}]
        /\ \A u \in Thread : pc'[u] = "erased"
    BY <1>1, Alone
  <1>8. TypeOK'
    BY <1>1, <1>2, <1>4, <1>6, <1>7, Lengths, EmptySeq DEF Inv, TypeOK
  <1>9. Numbered'
    BY <1>1, <1>4, <1>6, Lengths DEF Inv, Numbered
  <1>10. WritesFront' /\ Pcs'
    BY <1>2, <1>7 DEF WritesFront, Pcs
  <1> QED  BY <1>8, <1>9, <1>10 DEF Inv

LEMMA WriteNextStep ==
    ASSUME OneThread, Inv, NEW t \in Thread, writeNext(t)
    PROVE  Inv'
  <1>1. /\ UNCHANGED <<queue_, given, delivered, failed>>
        /\ pc[t] = "erased" /\ pc' = [pc EXCEPT ![t] = "out"]
        /\ writes = <<>>
    BY DEF writeNext, Inv, Pcs
  <1>2. AtRest' /\ pc' \in [Thread -> {"out", "pushed", "erased"}]
        /\ \A u \in Thread : pc'[u] = "out"
    BY <1>1, Alone
  <1>3. /\ writes' \in Seq(Response) /\ WritesFront'
        /\ writes' = <<>> <=> queue_ = <<>>
    <2>1. CASE queue_ = <<>>
      BY <1>1, <2>1, Lengths DEF writeNext, writeFront, WritesFront
    <2>2. CASE queue_ # <<>>
      BY <1>1, <2>2, WriteFront DEF writeNext, writeFront
    <2> QED  BY <2>1, <2>2
  <1>4. TypeOK'
    BY <1>1, <1>2, <1>3 DEF Inv, TypeOK, writeNext, release
  <1>5. Numbered' /\ Pcs'
    BY <1>1, <1>2, <1>3 DEF Inv, Numbered, Pcs
  <1> QED  BY <1>3, <1>4, <1>5 DEF Inv

LEMMA WriteErrorStep ==
    ASSUME OneThread, Inv, NEW t \in Thread, onWriteError(t)
    PROVE  Inv'
  <1>1. /\ pc[t] = "out" /\ writes # <<>> /\ writes' = Tail(writes) /\ failed' = TRUE
        /\ UNCHANGED <<queue_, given, delivered, pc, strand>>
    BY DEF onWriteError
  <1>2. writes' = <<>>
    BY <1>1, FrontIsNext
  <1>3. \A u \in Thread : pc[u] = "out"
    BY <1>1 DEF OneThread
  <1>4. TypeOK'
    BY <1>1, <1>2, EmptySeq DEF Inv, TypeOK
  <1>5. Numbered' /\ WritesFront' /\ Pcs'
    BY <1>1, <1>2, <1>3 DEF Inv, Numbered, WritesFront, Pcs
  <1> QED  BY <1>4, <1>5 DEF Inv

LEMMA InvStep ==
    ASSUME OneThread, Inv, [Next]_vars
    PROVE  Inv'
  <1>1. CASE UNCHANGED vars
    BY <1>1 DEF vars, Inv, TypeOK, Numbered, WritesFront, Pcs, AtRest
  <1>2. CASE Next
    BY <1>2, PushStep, StartWriteStep, OnWriteStep, WriteNextStep, WriteErrorStep DEF Next, Step
  <1> QED  BY <1>1, <1>2

LEMMA Invariant ==
    ASSUME OneThread
    PROVE  Spec => []Inv
  <1>1. Inv /\ [Next]_vars => Inv'
    BY InvStep
  <1> QED  BY InitInv, <1>1, PTL DEF Spec

\* With one thread the stream is never given a second async_write while one is
\* in flight, and no response is left in the queue with nobody writing.
THEOREM ServedOnOneThread ==
    ASSUME OneThread
    PROVE  Spec => []QueueServed
  <1>1. Inv => QueueServed
    BY Lengths DEF Inv, Pcs, AtRest, QueueServed
  <1> QED  BY <1>1, Invariant, PTL

\* With one thread the queue is a channel that keeps order: the responses reach
\* the frontend as they were given, none skipped and none twice.
THEOREM ImplementsChannel ==
    ASSUME OneThread
    PROVE  Spec => ChannelSpec
  <1>1. Init => Channel!Init
    BY DEF Init, Channel!Init
  <1>2. ASSUME Inv, [Next]_vars
        PROVE  [Channel!Next]_<<given, delivered>>
    <2>1. ASSUME NEW t \in Thread, push_back(t)
          PROVE  Channel!Give
      BY <2>1 DEF push_back, Channel!Give
    <2>2. ASSUME NEW t \in Thread, onWrite(t)
          PROVE  Channel!Deliver
      <3>1. writes # <<>> /\ delivered' = Append(delivered, Head(writes)) /\ given' = given
        BY <2>2 DEF onWrite
      <3> QED  BY <1>2, <3>1, FrontIsNext DEF Channel!Deliver
    <2>3. ASSUME NEW t \in Thread, startWrite(t) \/ writeNext(t) \/ onWriteError(t)
          PROVE  UNCHANGED <<given, delivered>>
      BY <2>3 DEF startWrite, writeNext, onWriteError
    <2> QED  BY <1>2, <2>1, <2>2, <2>3 DEF Next, Step, vars, Channel!Next
  <1>3. Inv /\ [Next]_vars => [Channel!Next]_<<given, delivered>>
    BY <1>2
  <1> QED  BY <1>1, <1>3, Invariant, PTL DEF Spec, ChannelSpec, Channel!Spec, Channel!vars
============================================================================
