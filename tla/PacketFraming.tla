--------------------------- MODULE PacketFraming ----------------------------
(***************************************************************************)
(* How the byte stream of a microcontroller becomes packets: the input     *)
(* buffer of TCPSession, filled by async_read_some with as many bytes as   *)
(* the network happens to deliver, and the parse loop that hands views of  *)
(* it to the packet handlers.  A cell of the buffer holds the position in  *)
(* the stream of the byte it was filled with, so that a handler that is    *)
(* given a stale, shifted or torn packet shows.                            *)
(***************************************************************************)
EXTENDS Naturals, Sequences

CONSTANTS
    PacketType,     \* the packet types the server knows
    Size,           \* sizeByPacketId of each
    Unknown,        \* any other first byte; its size is 0
    MaxInputSize,
    MaxPackets      \* bound: packets the peer sends

Type == PacketType \cup {Unknown}

ASSUME FramingAssumption ==
    /\ MaxInputSize \in Nat \ {0}
    /\ Unknown \notin PacketType
    /\ Size \in [PacketType -> 1..MaxInputSize]
    /\ MaxPackets \in Nat

VARIABLES
    sent,           \* the packets the peer sent, by type
    start,          \* where each of them starts in the stream, and the next
    received,       \* bytes of the stream read from the socket
    input_,
    numBytesLeft_,
    phase,          \* "read" into an empty buffer, "append" to a partial
                    \* packet, "parse", or "bad": reading has ended
    handled         \* the views the packet handlers were given

vars == <<sent, start, received, input_, numBytesLeft_, phase, handled>>

Cell == 0..(MaxInputSize - 1)

\* The bytes of the n-th packet.
Bytes(n) == [i \in 0..(Size[sent[n]] - 1) |-> start[n] + i]

Init ==
    /\ sent = <<>>
    /\ start = <<0>>
    /\ received = 0
    /\ input_ = [c \in Cell |-> 0]
    /\ numBytesLeft_ = 0
    /\ phase = "read"
    /\ handled = <<>>

\* The peer sends a packet; of one the server does not know, the first byte.
Send(t) ==
    /\ Len(sent) < MaxPackets
    /\ sent' = Append(sent, t)
    /\ start' = Append(start, start[Len(start)] + IF t = Unknown THEN 1 ELSE Size[t])
    /\ UNCHANGED <<received, input_, numBytesLeft_, phase, handled>>

----------------------------------------------------------------------------
(* doReadPacketHeader reads into the whole buffer; after an incomplete       *)
(* packet the read appends to the bytes that are there.                      *)
readOffset == IF phase = "read" THEN 0 ELSE numBytesLeft_

\* The read completes with k bytes, and onReadPacketHeader goes on to parse.
onReadPacketHeader(k) ==
    /\ phase \in {"read", "append"}
    /\ readOffset + k <= MaxInputSize
    /\ received + k <= start[Len(start)]
    /\ input_' = [c \in Cell |->
                    IF c \in readOffset..(readOffset + k - 1)
                    THEN received + (c - readOffset) ELSE input_[c]]
    /\ received' = received + k
    /\ numBytesLeft_' = numBytesLeft_ + k
    /\ phase' = "parse"
    /\ UNCHANGED <<sent, start, handled>>

\* The value of the first byte in the buffer: the type of the packet that
\* starts there, and anything if none does.
FirstByte(t) == \A n \in DOMAIN sent : start[n] = input_[0] => t = sent[n]

\* Mutant: the bytes behind the packet are not moved to the front.
NoMove(parsed) == input_

\* memmove of what is behind the parsed packet to the front of the buffer.
memmove(parsed) ==
    [c \in Cell |-> IF c < numBytesLeft_ - parsed THEN input_[c + parsed] ELSE input_[c]]

\* Mutant: the packet is given to its handler one byte early.
EarlyByOne(t) == numBytesLeft_ + 1 >= Size[t]

\* Mutant: a packet is complete when there is a byte behind it.
LateByOne(t) == numBytesLeft_ > Size[t]

Complete(t) == numBytesLeft_ >= Size[t]

\* One turn of the parse loop: a complete packet is handled and popped off.
handle(t) ==
    /\ phase = "parse"
    /\ FirstByte(t) /\ Complete(t)
    /\ handled' = Append(handled, [i \in 0..(Size[t] - 1) |-> input_[i]])
    /\ input_' = memmove(Size[t])
    /\ numBytesLeft_' = numBytesLeft_ - Size[t]
    /\ phase' = IF numBytesLeft_ > Size[t] THEN "parse" ELSE "read"
    /\ UNCHANGED <<sent, start, received>>

\* Indeterminate: the rest of the packet is read into the buffer behind it.
Incomplete(t) ==
    /\ phase = "parse"
    /\ FirstByte(t) /\ ~Complete(t)
    /\ phase' = "append"
    /\ UNCHANGED <<sent, start, received, input_, numBytesLeft_, handled>>

\* Bad: the loop returns without another read.
BadPacket ==
    /\ phase = "parse"
    /\ FirstByte(Unknown)
    /\ phase' = "bad"
    /\ UNCHANGED <<sent, start, received, input_, numBytesLeft_, handled>>

parsePacketHeader == BadPacket \/ \E t \in PacketType : handle(t) \/ Incomplete(t)

Read == \E k \in 1..MaxInputSize : onReadPacketHeader(k)

Next == (\E t \in Type : Send(t)) \/ Read \/ parsePacketHeader

Spec == Init /\ [][Next]_vars

(* Bytes that arrived are read, and what was read is parsed. *)
FairSpec == Spec /\ WF_vars(Read) /\ WF_vars(parsePacketHeader)

----------------------------------------------------------------------------
\* The bookkeeping keeps its types.
TypeOK ==
    /\ sent \in Seq(Type)
    /\ start \in Seq(Nat) /\ Len(start) = Len(sent) + 1
    /\ received \in 0..start[Len(start)]
    /\ input_ \in [Cell -> Nat]
    /\ numBytesLeft_ \in 0..MaxInputSize
    /\ phase \in {"read", "append", "parse", "bad"}

\* However reads cut the stream into pieces, the n-th view a handler is given
\* holds exactly the bytes of the n-th packet: none torn, stale or repeated.
Framed ==
    /\ Len(handled) <= Len(sent)
    /\ \A n \in DOMAIN handled : sent[n] \in PacketType /\ handled[n] = Bytes(n)

\* The buffer always has room for the rest of the packet at its front: a read
\* of no bytes, which would complete at once and for ever, is never begun.
RoomToRead == phase \in {"read", "append"} => readOffset < MaxInputSize

\* Every packet sent before the first unknown one is handled.
AllHandled ==
    \A n \in 1..MaxPackets : Len(sent) >= n ~> (Len(handled) >= n \/ phase = "bad")
============================================================================
