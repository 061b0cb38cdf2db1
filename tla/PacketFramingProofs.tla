------------------------- MODULE PacketFramingProofs ------------------------
(***************************************************************************)
(* Proofs about PacketFraming, for every set of packet types, every size of *)
(* packets and buffer, and every way to cut the stream into reads.          *)
(***************************************************************************)
EXTENDS PacketFraming, SequenceTheorems, TLAPS

\* The packets lie one behind the other in the stream.
Starts ==
    /\ start[1] = 0
    /\ \A n \in 1..Len(sent) :
          start[n + 1] = start[n] + IF sent[n] = Unknown THEN 1 ELSE Size[sent[n]]

\* The front of the buffer is the start of the first packet not yet handled.
Front ==
    /\ Len(handled) <= Len(sent)
    /\ received = start[Len(handled) + 1] + numBytesLeft_

\* The buffer holds the stream from there on.
Contents ==
    \A i \in Cell : i < numBytesLeft_ => input_[i] = start[Len(handled) + 1] + i

\* What each phase knows of the number of bytes in the buffer.
Phases ==
    /\ phase = "read" => numBytesLeft_ = 0
    /\ phase = "parse" => numBytesLeft_ > 0
    /\ phase = "append" => /\ Len(handled) < Len(sent)
                           /\ sent[Len(handled) + 1] \in PacketType
                           /\ numBytesLeft_ < Size[sent[Len(handled) + 1]]

Views == \A n \in 1..Len(handled) : sent[n] \in PacketType /\ handled[n] = Bytes(n)

View == UNION {[0..(m - 1) -> Nat] : m \in 1..MaxInputSize}

Inv == /\ TypeOK /\ handled \in Seq(View)
       /\ Starts /\ Front /\ Contents /\ Phases /\ Views

LEMMA InitInv == Init => Inv
  BY FramingAssumption
     DEF Init, Inv, TypeOK, Starts, Front, Contents, Phases, Views, Cell

\* While there are bytes to parse, the first of them is the first of the next
\* packet, and FirstByte tells its type.
LEMMA NextPacket ==
    ASSUME Inv, phase = "parse", NEW t \in Type, FirstByte(t)
    PROVE  /\ Len(handled) + 1 \in 1..Len(sent)
           /\ sent[Len(handled) + 1] = t
  <1>1. /\ Len(handled) \in Nat /\ Len(sent) \in Nat /\ numBytesLeft_ > 0
        /\ Len(handled) <= Len(sent) /\ numBytesLeft_ \in Nat
        /\ start \in Seq(Nat) /\ Len(start) = Len(sent) + 1
    BY DEF Inv, TypeOK, Phases, Front
  <1>2. received <= start[Len(sent) + 1] /\ received = start[Len(handled) + 1] + numBytesLeft_
    BY <1>1 DEF Inv, TypeOK, Front
  <1>3. start[Len(handled) + 1] \in Nat /\ start[Len(sent) + 1] \in Nat
    BY <1>1
  <1>4. Len(handled) # Len(sent)
    BY <1>1, <1>2, <1>3
  <1>5. Len(handled) + 1 \in 1..Len(sent)
    BY <1>1, <1>4
  <1>6. input_[0] = start[Len(handled) + 1]
    BY <1>1, <1>3, FramingAssumption DEF Inv, Contents, Cell
  <1>7. DOMAIN sent = 1..Len(sent)
    BY DEF Inv, TypeOK
  <1> QED  BY <1>5, <1>6, <1>7 DEF FirstByte

\* The ranges of the counters, and of the positions at the front and the end.
LEMMA Ranges ==
    ASSUME Inv
    PROVE  /\ Len(handled) \in Nat /\ Len(sent) \in Nat /\ Len(handled) <= Len(sent)
           /\ \A n \in 1..(Len(sent) + 1) : start[n] \in Nat
           /\ start[Len(start)] \in Nat
           /\ received \in Nat /\ received <= start[Len(start)]
           /\ numBytesLeft_ \in Nat /\ numBytesLeft_ <= MaxInputSize
           /\ \A c \in Cell : c \in Nat /\ input_[c] \in Nat
  <1>1. /\ sent \in Seq(Type) /\ start \in Seq(Nat) /\ Len(start) = Len(sent) + 1
        /\ received \in 0..start[Len(start)] /\ numBytesLeft_ \in 0..MaxInputSize
        /\ handled \in Seq(View) /\ Len(handled) <= Len(sent)
    BY DEF Inv, TypeOK, Front
  <1>2. Len(handled) \in Nat /\ Len(sent) \in Nat
    BY <1>1
  <1>3. \A n \in 1..(Len(sent) + 1) : start[n] \in Nat
    BY <1>1
  <1>4. start[Len(start)] \in Nat
    BY <1>1, <1>2, <1>3
  <1>5. /\ received \in Nat /\ received <= start[Len(start)]
        /\ numBytesLeft_ \in Nat /\ numBytesLeft_ <= MaxInputSize
    BY <1>1, <1>4, FramingAssumption
  <1>6. \A c \in Cell : c \in Nat
    BY DEF Cell
  <1>7. \A c \in Cell : input_[c] \in Nat
    BY DEF Inv, TypeOK
  <1> QED  BY <1>1, <1>2, <1>3, <1>4, <1>5, <1>6, <1>7

LEMMA SendStep ==
    ASSUME Inv, NEW t \in Type, Send(t)
    PROVE  Inv'
  <1> DEFINE size == IF t = Unknown THEN 1 ELSE Size[t]
             last == start[Len(start)]
  <1>1. size \in Nat /\ last \in Nat
    BY FramingAssumption DEF Type, Inv, TypeOK
  <1>2. /\ sent' = Append(sent, t) /\ start' = Append(start, last + size)
        /\ UNCHANGED <<received, input_, numBytesLeft_, phase, handled>>
    BY DEF Send
  <1> HIDE DEF size, last
  <1>3. /\ sent \in Seq(Type) /\ start \in Seq(Nat) /\ Len(start) = Len(sent) + 1
        /\ Len(handled) \in Nat /\ Len(sent) \in Nat /\ Len(handled) <= Len(sent)
    BY DEF Inv, TypeOK, Front
  <1>4. /\ sent' \in Seq(Type) /\ Len(sent') = Len(sent) + 1
        /\ \A n \in 1..Len(sent) : sent'[n] = sent[n]
        /\ sent'[Len(sent) + 1] = t
    BY <1>2, <1>3, AppendProperties
  <1>5. /\ start' \in Seq(Nat) /\ Len(start') = Len(start) + 1
        /\ \A n \in 1..Len(start) : start'[n] = start[n]
        /\ start'[Len(start) + 1] = last + size
    BY <1>1, <1>2, <1>3, AppendProperties
  <1>6. TypeOK'
    <2>1. received' \in 0..start'[Len(start')]
      BY <1>1, <1>2, <1>3, <1>5 DEF Inv, TypeOK, last
    <2> QED  BY <1>2, <1>3, <1>4, <1>5, <2>1 DEF Inv, TypeOK
  <1>7. Starts'
    <2>1. start'[1] = 0
      BY <1>3, <1>5 DEF Inv, Starts
    <2>2. ASSUME NEW n \in 1..Len(sent')
          PROVE  start'[n + 1] = start'[n] + IF sent'[n] = Unknown THEN 1 ELSE Size[sent'[n]]
      <3>1. CASE n \in 1..Len(sent)
        <4>1. n \in 1..Len(start) /\ n + 1 \in 1..Len(start)
          BY <1>3, <3>1
        <4>2. start[n + 1] = start[n] + IF sent[n] = Unknown THEN 1 ELSE Size[sent[n]]
          BY <3>1 DEF Inv, Starts
        <4> QED  BY <1>4, <1>5, <3>1, <4>1, <4>2
      <3>2. CASE n = Len(sent) + 1
        BY <1>3, <1>4, <1>5, <3>2 DEF size, last
      <3> QED  BY <1>3, <1>4, <2>2, <3>1, <3>2
    <2> QED  BY <2>1, <2>2 DEF Starts
  <1>8. Front' /\ Contents' /\ Phases'
    BY <1>2, <1>3, <1>4, <1>5 DEF Inv, Front, Contents, Phases
  <1>9. Views'
    <2>1. ASSUME NEW n \in 1..Len(handled)
          PROVE  sent'[n] \in PacketType /\ handled[n] = Bytes(n)'
      <3>1. n \in 1..Len(sent) /\ n \in 1..Len(start)
        BY <1>3
      <3>2. sent'[n] = sent[n] /\ start'[n] = start[n]
        BY <1>4, <1>5, <3>1
      <3> QED  BY <3>2 DEF Inv, Views, Bytes
    <2> QED  BY <1>2, <2>1 DEF Views
  <1> QED  BY <1>2, <1>6, <1>7, <1>8, <1>9 DEF Inv

LEMMA ReadStep ==
    ASSUME Inv, NEW k \in 1..MaxInputSize, onReadPacketHeader(k)
    PROVE  Inv'
  <1> USE FramingAssumption
  <1>1. /\ received \in Nat /\ numBytesLeft_ \in Nat /\ start[Len(start)] \in Nat
        /\ Len(handled) \in Nat /\ start[Len(handled) + 1] \in Nat
    BY Ranges
  <1>2. readOffset = numBytesLeft_
    BY DEF Inv, Phases, readOffset
  <1>3. /\ k \in Nat /\ k > 0 /\ numBytesLeft_ + k <= MaxInputSize
        /\ received' = received + k /\ received + k <= start[Len(start)]
        /\ numBytesLeft_' = numBytesLeft_ + k /\ phase' = "parse"
        /\ UNCHANGED <<sent, start, handled>>
    BY <1>2 DEF onReadPacketHeader
  <1>4. \A c \in Cell : input_'[c] =
            IF c \in numBytesLeft_..(numBytesLeft_ + k - 1)
            THEN received + (c - numBytesLeft_) ELSE input_[c]
    BY <1>2 DEF onReadPacketHeader
  <1>5. \A c \in Cell : c \in Nat
    BY DEF Cell
  <1>6. ASSUME NEW c \in Cell
        PROVE  input_'[c] \in Nat
    <2>1. c \in Nat /\ input_[c] \in Nat
      BY Ranges
    <2>2. CASE c \in numBytesLeft_..(numBytesLeft_ + k - 1)
      <3>1. input_'[c] = received + (c - numBytesLeft_) /\ c >= numBytesLeft_
        BY <1>1, <1>3, <1>4, <2>1, <2>2
      <3> QED  BY <1>1, <2>1, <3>1
    <2>3. CASE c \notin numBytesLeft_..(numBytesLeft_ + k - 1)
      <3>1. input_'[c] = input_[c]
        BY <1>4, <2>3
      <3> QED  BY <2>1, <3>1
    <2> QED  BY <2>2, <2>3
  <1>7. input_' \in [Cell -> Nat]
    BY <1>6 DEF onReadPacketHeader
  <1>8. TypeOK'
    BY <1>1, <1>3, <1>7 DEF Inv, TypeOK
  <1>9. Contents'
    <2>1. ASSUME NEW i \in Cell, i < numBytesLeft_ + k
          PROVE  input_'[i] = start[Len(handled) + 1] + i
      <3>1. CASE i < numBytesLeft_
        BY <1>1, <1>3, <1>4, <1>5, <3>1 DEF Inv, Contents
      <3>2. CASE i >= numBytesLeft_
        <4>1. i \in Nat /\ i \in numBytesLeft_..(numBytesLeft_ + k - 1)
          BY <1>1, <1>3, <1>5, <2>1, <3>2
        <4>2. input_'[i] = received + (i - numBytesLeft_)
          BY <1>4, <4>1
        <4>3. received = start[Len(handled) + 1] + numBytesLeft_
          BY DEF Inv, Front
        <4> QED  BY <1>1, <4>1, <4>2, <4>3
      <3> QED  BY <1>1, <1>5, <3>1, <3>2
    <2> QED  BY <1>3, <2>1 DEF Contents
  <1>10. Starts' /\ Views'
    BY <1>3 DEF Inv, Starts, Views, Bytes
  <1>11. Front' /\ Phases'
    BY <1>1, <1>3 DEF Inv, Front, Phases
  <1> QED  BY <1>3, <1>8, <1>9, <1>10, <1>11 DEF Inv

LEMMA HandleStep ==
    ASSUME Inv, NEW t \in PacketType, handle(t)
    PROVE  Inv'
  <1> USE FramingAssumption
  <1> DEFINE h == Len(handled)
             view == [i \in 0..(Size[t] - 1) |-> input_[i]]
  <1>1. h + 1 \in 1..Len(sent) /\ sent[h + 1] = t
    BY NextPacket DEF handle, Type
  <1>2. /\ h \in Nat /\ Len(sent) \in Nat /\ received \in Nat /\ numBytesLeft_ \in Nat
        /\ numBytesLeft_ <= MaxInputSize /\ Size[t] \in 1..MaxInputSize /\ numBytesLeft_ >= Size[t]
        /\ start[h + 1] \in Nat /\ start[h + 2] \in Nat
    <2>1. /\ h \in Nat /\ Len(sent) \in Nat /\ received \in Nat /\ numBytesLeft_ \in Nat
          /\ numBytesLeft_ <= MaxInputSize
          /\ \A n \in 1..(Len(sent) + 1) : start[n] \in Nat
      BY Ranges
    <2>2. Size[t] \in 1..MaxInputSize
      OBVIOUS
    <2>3. numBytesLeft_ >= Size[t]
      BY DEF handle, Complete
    <2>4. h + 1 \in 1..(Len(sent) + 1) /\ h + 2 \in 1..(Len(sent) + 1)
      BY <1>1, <2>1
    <2> QED  BY <2>1, <2>2, <2>3, <2>4
  <1>3. start[h + 2] = start[h + 1] + Size[t]
    <2>1. start[(h + 1) + 1] = start[h + 1] + IF sent[h + 1] = Unknown THEN 1 ELSE Size[sent[h + 1]]
      BY <1>1 DEF Inv, Starts
    <2>2. (h + 1) + 1 = h + 2 /\ t # Unknown
      BY <1>2
    <2> QED  BY <1>1, <2>1, <2>2
  <1>4. view = Bytes(h + 1) /\ view \in [0..(Size[t] - 1) -> Nat]
    <2>1. \A i \in 0..(Size[t] - 1) : i \in Cell /\ i < numBytesLeft_
      BY <1>2 DEF Cell
    <2>2. \A i \in 0..(Size[t] - 1) : input_[i] = start[h + 1] + i /\ input_[i] \in Nat
      BY <2>1 DEF Inv, TypeOK, Contents
    <2> QED  BY <1>1, <2>2 DEF Bytes
  <1>5. /\ Append(handled, view) \in Seq(View) /\ Len(Append(handled, view)) = h + 1
        /\ \A n \in 1..h : Append(handled, view)[n] = handled[n]
        /\ Append(handled, view)[h + 1] = view
    <2>1. view \in View /\ handled \in Seq(View)
      BY <1>2, <1>4 DEF Inv, View
    <2> QED  BY <2>1, AppendProperties
  <1>6. handled' = Append(handled, view) /\ UNCHANGED <<sent, start, received>>
    BY DEF handle
  <1> HIDE DEF view
  <1>7. numBytesLeft_' = numBytesLeft_ - Size[t] /\ numBytesLeft_' \in 0..MaxInputSize
    BY <1>2 DEF handle
  <1>8. input_' = memmove(Size[t]) /\ input_' \in [Cell -> Nat]
    <2>1. \A c \in Cell : c < numBytesLeft_ - Size[t] => c + Size[t] \in Cell
      BY <1>2 DEF Cell
    <2> QED  BY <2>1 DEF handle, memmove, Inv, TypeOK
  <1>9. TypeOK'
    BY <1>6, <1>7, <1>8 DEF handle, Inv, TypeOK
  <1>10. Starts' /\ Front'
    BY <1>1, <1>2, <1>3, <1>5, <1>6, <1>7 DEF Inv, Starts, Front
  <1>11. Contents'
    <2>1. ASSUME NEW i \in Cell, i < numBytesLeft_'
          PROVE  input_'[i] = start'[Len(handled') + 1] + i
      <3>1. i + Size[t] \in Cell /\ i + Size[t] < numBytesLeft_
        BY <1>2, <1>7, <2>1 DEF Cell
      <3>2. input_'[i] = input_[i + Size[t]]
        BY <1>7, <1>8, <2>1 DEF memmove
      <3>3. input_[i + Size[t]] = start[h + 1] + (i + Size[t])
        BY <3>1 DEF Inv, Contents
      <3>4. i \in Nat
        BY DEF Cell
      <3> QED  BY <1>2, <1>3, <1>5, <1>6, <3>2, <3>3, <3>4
    <2> QED  BY <2>1 DEF Contents
  <1>12. Phases'
    BY <1>2, <1>7 DEF handle, Phases
  <1>13. Views'
    <2>1. ASSUME NEW n \in 1..Len(handled')
          PROVE  sent'[n] \in PacketType /\ handled'[n] = Bytes(n)'
      <3>1. CASE n \in 1..h
        BY <1>2, <1>5, <1>6, <3>1 DEF Inv, Views, Bytes
      <3>2. CASE n = h + 1
        BY <1>1, <1>4, <1>5, <1>6, <3>2 DEF Bytes
      <3> QED  BY <1>2, <1>5, <1>6, <2>1, <3>1, <3>2
    <2> QED  BY <2>1 DEF Views
  <1> QED  BY <1>5, <1>6, <1>9, <1>10, <1>11, <1>12, <1>13 DEF Inv, View

LEMMA InvStep == Inv /\ [Next]_vars => Inv'
  <1> SUFFICES ASSUME Inv, [Next]_vars
               PROVE  Inv'
    OBVIOUS
  <1>1. ASSUME NEW t \in Type, Send(t)
        PROVE  Inv'
    BY <1>1, SendStep
  <1>2. CASE Read
    BY <1>2, ReadStep DEF Read
  <1>3. ASSUME NEW t \in PacketType, handle(t)
        PROVE  Inv'
    BY <1>3, HandleStep
  <1>4. ASSUME NEW t \in PacketType, Incomplete(t)
        PROVE  Inv'
    <2>1. /\ Len(handled) + 1 \in 1..Len(sent)
          /\ sent[Len(handled) + 1] = t
      BY <1>4, NextPacket DEF Incomplete, Type
    <2>2. Phases'
      BY <1>4, <2>1, FramingAssumption DEF Incomplete, Complete, Phases, Inv, TypeOK
    <2> QED
      BY <1>4, <2>2 DEF Incomplete, Inv, TypeOK, Starts, Front, Contents, Views, Bytes
  <1>5. CASE BadPacket
    BY <1>5 DEF BadPacket, Inv, TypeOK, Starts, Front, Contents, Phases, Views, Bytes
  <1>6. CASE UNCHANGED vars
    BY <1>6 DEF vars, Inv, TypeOK, Starts, Front, Contents, Phases, Views, Bytes
  <1> QED
    BY <1>1, <1>2, <1>3, <1>4, <1>5, <1>6 DEF Next, parsePacketHeader

LEMMA Invariant == Spec => []Inv
  BY InitInv, InvStep, PTL DEF Spec

\* The n-th view a packet handler is given holds exactly the bytes of the n-th
\* packet of the stream, however the network cuts it into reads.
THEOREM NeverMisframed == Spec => []Framed
  <1>1. Inv => Framed
    BY DEF Inv, Front, Views, Framed
  <1> QED  BY <1>1, Invariant, PTL

\* The bookkeeping of the buffer keeps its types: no count leaves its range.
THEOREM FramingTypeCorrect == Spec => []TypeOK
  <1>1. Inv => TypeOK
    BY DEF Inv
  <1> QED  BY <1>1, Invariant, PTL

\* A read is never begun with no room for a byte.
THEOREM AlwaysRoom == Spec => []RoomToRead
  <1>1. Inv => RoomToRead
    BY FramingAssumption DEF Inv, TypeOK, Phases, RoomToRead, readOffset
  <1> QED  BY <1>1, Invariant, PTL
============================================================================
