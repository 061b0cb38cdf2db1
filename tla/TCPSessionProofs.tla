------------------------- MODULE TCPSessionProofs --------------------------
(***************************************************************************)
(* Proofs about TCPSession, for every set of sessions, station ids and     *)
(* packets.                                                                *)
(***************************************************************************)
EXTENDS TCPSession, SequenceTheorems, TLAPS

----------------------------------------------------------------------------
(* Type correctness.  handshakes and owed stay in range because a Handshake  *)
(* or a Pong is read only while the peer may send one (Budget); the input stays in step with   *)
(* the phase because only the write of the server's Handshake starts a read  *)
(* (Hello).                                                                  *)

Budget ==
    \A s \in Session : op[s] = "parse" =>
        /\ input_[s].type = "Handshake" => handshakes[s] < MaxHandshakes
        /\ input_[s].type = "Pong" => owed[s] > 0

\* The write of the server's Handshake is in flight only in phase "hello", and
\* there is one: its handler starts the only chain of reads.
Hello ==
    \A s \in Session : \A i \in DOMAIN writes[s] :
        writes[s][i].pkt = "Handshake" =>
            /\ op[s] = "hello"
            /\ \A j \in DOMAIN writes[s] : writes[s][j].pkt = "Handshake" => j = i

\* The chain of reads belongs to a live session.
ReaderAlive ==
    \A s \in Session : op[s] \in {"tls", "hello", "read", "parse"} => obj[s] = "alive"

TypeInv == TypeOK /\ Budget /\ Hello /\ ReaderAlive

LEMMA NewWrite ==
    ASSUME NEW pkt \in OutPacket
    PROVE  [pkt |-> pkt, sent |-> FALSE] \in Write
  BY DEF Write

LEMMA MarkSent ==
    ASSUME NEW w \in Seq(Write), NEW i \in DOMAIN w
    PROVE  [w EXCEPT ![i].sent = TRUE] \in Seq(Write)
  <1>1. w[i] \in Write /\ i \in 1..Len(w)
    OBVIOUS
  <1>2. [w[i] EXCEPT !.sent = TRUE] \in Write
    BY <1>1 DEF Write
  <1> QED  BY <1>1, <1>2, ExceptSeq

LEMMA WriteType ==
    ASSUME OutType, NEW s \in Session, NEW pkt \in OutPacket, writePacket(s, pkt),
           UNCHANGED pings
    PROVE  OutType'
  <1>1. Append(writes[s], [pkt |-> pkt, sent |-> FALSE]) \in Seq(Write)
    BY NewWrite, AppendProperties DEF OutType
  <1> QED  BY <1>1 DEF OutType, writePacket, pings

LEMMA WriteHello ==
    ASSUME OutType, Hello, NEW s \in Session, NEW pkt \in OutPacket, writePacket(s, pkt),
           \/ pkt # "Handshake" /\ (op[s] # "hello" \/ op'[s] = "hello")
           \/ pkt = "Handshake" /\ op[s] # "hello" /\ op'[s] = "hello",
           \A t \in Session \ {s} : op'[t] = op[t]
    PROVE  Hello'
  <1> DEFINE w == [pkt |-> pkt, sent |-> FALSE]
  <1>1. /\ writes[s] \in Seq(Write) /\ w \in Write /\ w.pkt = pkt
        /\ writes' = [writes EXCEPT ![s] = Append(writes[s], w)]
    BY NewWrite DEF OutType, writePacket
  <1>2. /\ DOMAIN Append(writes[s], w) = 1..(Len(writes[s]) + 1)
        /\ DOMAIN writes[s] = 1..Len(writes[s])
        /\ \A i \in DOMAIN writes[s] : Append(writes[s], w)[i] = writes[s][i]
        /\ Append(writes[s], w)[Len(writes[s]) + 1] = w
    BY <1>1, AppendProperties
  <1> HIDE DEF w
  <1>3. writes'[s] = Append(writes[s], w) /\ \A t \in Session \ {s} : writes'[t] = writes[t]
    BY <1>1 DEF OutType
  <1>4. \A i \in DOMAIN writes'[s] :
            \/ i \in DOMAIN writes[s] /\ writes'[s][i] = writes[s][i]
            \/ i = Len(writes[s]) + 1 /\ writes'[s][i].pkt = pkt
    BY <1>1, <1>2, <1>3
  <1>5. ASSUME NEW i \in DOMAIN writes'[s], writes'[s][i].pkt = "Handshake"
        PROVE  /\ op'[s] = "hello"
               /\ \A j \in DOMAIN writes'[s] : writes'[s][j].pkt = "Handshake" => j = i
    <2>1. CASE pkt # "Handshake"
      BY <1>4, <1>5, <2>1 DEF Hello
    <2>2. CASE pkt = "Handshake"
      BY <1>4, <1>5, <2>2 DEF Hello
    <2> QED  BY <2>1, <2>2
  <1>6. ASSUME NEW t \in Session \ {s}, NEW i \in DOMAIN writes'[t],
               writes'[t][i].pkt = "Handshake"
        PROVE  /\ op'[t] = "hello"
               /\ \A j \in DOMAIN writes'[t] : writes'[t][j].pkt = "Handshake" => j = i
    BY <1>3, <1>6 DEF Hello
  <1> QED  BY <1>5, <1>6 DEF Hello

LEMMA TailHello ==
    ASSUME OutType, Hello, NEW s \in Session, writes[s] # <<>>,
           writes' = [writes EXCEPT ![s] = Tail(writes[s])],
           Head(writes[s]).pkt = "Handshake" \/ op'[s] = op[s],
           \A t \in Session \ {s} : op'[t] = op[t]
    PROVE  Hello'
  <1>1. /\ writes[s] \in Seq(Write) /\ Head(writes[s]) = writes[s][1]
        /\ DOMAIN writes[s] = 1..Len(writes[s]) /\ 1 \in DOMAIN writes[s]
        /\ DOMAIN Tail(writes[s]) = 1..(Len(writes[s]) - 1)
        /\ \A i \in DOMAIN Tail(writes[s]) : Tail(writes[s])[i] = writes[s][i + 1]
    BY HeadTailProperties DEF OutType
  <1>2. writes'[s] = Tail(writes[s]) /\ \A t \in Session \ {s} : writes'[t] = writes[t]
    BY DEF OutType
  <1>3. \A i \in DOMAIN writes'[s] :
            /\ i \in Nat /\ i + 1 # 1 /\ i + 1 \in DOMAIN writes[s]
            /\ writes'[s][i] = writes[s][i + 1]
    <2>1. Len(writes[s]) \in Nat
      BY <1>1
    <2>2. DOMAIN writes'[s] = 1..(Len(writes[s]) - 1)
      BY <1>1, <1>2
    <2>3. \A i \in DOMAIN writes'[s] : writes'[s][i] = writes[s][i + 1]
      BY <1>1, <1>2
    <2>4. \A i \in DOMAIN writes'[s] : i \in Nat /\ i # 0 /\ i + 1 \in 1..Len(writes[s])
      BY <2>1, <2>2
    <2> QED  BY <1>1, <2>3, <2>4
  <1>4. ASSUME NEW i \in DOMAIN writes'[s], writes'[s][i].pkt = "Handshake"
        PROVE  /\ op'[s] = "hello"
               /\ \A j \in DOMAIN writes'[s] : writes'[s][j].pkt = "Handshake" => j = i
    <2>1. Head(writes[s]).pkt # "Handshake"
      BY <1>1, <1>3, <1>4 DEF Hello
    <2>2. ASSUME NEW j \in DOMAIN writes'[s], writes'[s][j].pkt = "Handshake"
          PROVE  j = i
      <3>1. j + 1 = i + 1
        BY <1>3, <1>4, <2>2 DEF Hello
      <3> QED  BY <1>3, <3>1
    <2> QED  BY <1>3, <1>4, <2>1, <2>2 DEF Hello
  <1>5. ASSUME NEW t \in Session \ {s}, NEW i \in DOMAIN writes'[t],
               writes'[t][i].pkt = "Handshake"
        PROVE  /\ op'[t] = "hello"
               /\ \A j \in DOMAIN writes'[t] : writes'[t][j].pkt = "Handshake" => j = i
    BY <1>2, <1>5 DEF Hello
  <1> QED  BY <1>4, <1>5 DEF Hello

LEMMA JoinType ==
    ASSUME DirectoryTypeOK, NEW s \in Session, NEW id \in StationId, join(s, id)
    PROVE  DirectoryTypeOK'
  BY DEF DirectoryTypeOK, join, joined, Kind, KindOf

LEMMA LeaveType ==
    ASSUME DirectoryTypeOK, NEW s \in Session, NEW id, leave(s, id)
    PROVE  DirectoryTypeOK'
  BY DEF DirectoryTypeOK, leave, Kind, KindOf

LEMMA DisconnectType ==
    ASSUME LinkType, NEW s \in Session, disconnect(s), UNCHANGED gone
    PROVE  LinkType'
  <1>1. CASE s \in SSLSession
    BY <1>1 DEF LinkType, disconnect, SSLDisconnect
  <1>2. CASE s \notin SSLSession
    BY <1>2 DEF LinkType, disconnect, PlainDisconnect
  <1> QED  BY <1>1, <1>2

\* What a step leaves alone keeps its type.
LEMMA Unchanged ==
    /\ DirectoryTypeOK /\ UNCHANGED tcp_sessions_ => DirectoryTypeOK'
    /\ ReaderType /\ UNCHANGED reader => ReaderType'
    /\ LinkType /\ UNCHANGED link => LinkType'
    /\ StationType /\ UNCHANGED station => StationType'
    /\ TimersType /\ UNCHANGED timers => TimersType'
    /\ OutType /\ UNCHANGED out => OutType'
  <1>1. DirectoryTypeOK /\ UNCHANGED tcp_sessions_ => DirectoryTypeOK'
    BY DEF DirectoryTypeOK
  <1>2. ReaderType /\ UNCHANGED reader => ReaderType'
    BY DEF ReaderType, reader
  <1>3. LinkType /\ UNCHANGED link => LinkType'
    BY DEF LinkType, link
  <1>4. StationType /\ UNCHANGED station => StationType'
    BY DEF StationType, station
  <1>5. TimersType /\ UNCHANGED timers => TimersType'
    BY DEF TimersType, timers
  <1>6. OutType /\ UNCHANGED out => OutType'
    BY DEF OutType, out, pings
  <1> QED  BY <1>1, <1>2, <1>3, <1>4, <1>5, <1>6

LEMMA InitTypeInv == Init => TypeInv
  <1> SUFFICES ASSUME Init
               PROVE  TypeInv
    OBVIOUS
  <1>1. DirectoryTypeOK
    BY DEF Init, DirectoryInit, DirectoryTypeOK
  <1>2. ReaderType
    BY DEF Init, ReaderType, Phase
  <1>3. LinkType /\ TimersType
    BY DEF Init, LinkType, TimersType
  <1>4. StationType
    BY SessionAssumption DEF Init, StationType
  <1>5. OutType
    BY SessionAssumption DEF Init, OutType, OutPacket
  <1> QED
    BY <1>1, <1>2, <1>3, <1>4, <1>5 DEF Init, TypeInv, TypeOK, Budget, Hello, ReaderAlive

LEMMA TypeInvStep == TypeInv /\ [Next]_vars => TypeInv'
  <1> SUFFICES ASSUME TypeInv, [Next]_vars
               PROVE  TypeInv'
    OBVIOUS
  <1> USE DEF TypeInv, TypeOK
  <1>1. ASSUME NEW s \in Session, Accept(s)
        PROVE  TypeInv'
    <2>1. ReaderType'
      BY <1>1, SessionAssumption DEF Accept, ReaderType, Phase, reader
    <2>2. LinkType'
      BY <1>1 DEF Accept, LinkType
    <2>3. StationType'
      BY <1>1, SessionAssumption DEF Accept, StationType
    <2>4. TimersType'
      BY <1>1 DEF Accept, TimersType
    <2>5. OutType'
      <3>1. owed' \in [Session -> 0..MaxOwed]
        BY <1>1, SessionAssumption DEF Accept, OutType
      <3> QED  BY <1>1, <3>1, NewWrite DEF Accept, OutType, OutPacket
    <2>6. obj' \in [Session -> {"none", "alive", "destroyed"}]
      BY <1>1 DEF Accept
    <2>7. Budget'
      BY <1>1 DEF Accept, Budget, ReaderType, StationType, OutType
    <2>8. Hello'
      BY <1>1 DEF Accept, Hello, ReaderType, OutType
    <2>9. ReaderAlive'
      BY <1>1 DEF Accept, ReaderAlive, ReaderType
    <2> QED  BY <1>1, <2>1, <2>2, <2>3, <2>4, <2>5, <2>6, <2>7, <2>8, <2>9, Unchanged DEF Accept
  <1>2. ASSUME NEW s \in Session, Destroy(s)
        PROVE  TypeInv'
    <2>1. DirectoryTypeOK'
      BY <1>2, LeaveType DEF Destroy
    <2>2. LinkType'
      BY <1>2 DEF Destroy, LinkType
    <2>3. obj' \in [Session -> {"none", "alive", "destroyed"}]
      BY <1>2 DEF Destroy
    <2>4. Budget'
      BY <1>2 DEF Destroy, Budget, reader, station, out, pings
    <2>5. Hello'
      BY <1>2 DEF Destroy, Hello, reader, out
    <2>6. ReaderAlive'
      BY <1>2 DEF Destroy, ReaderAlive, Referenced, reader
    <2>7. StationType'
      BY <1>2 DEF Destroy, StationType
    <2> QED  BY <1>2, <2>1, <2>2, <2>3, <2>4, <2>5, <2>6, <2>7, Unchanged DEF Destroy
  <1>3. ASSUME NEW s \in Session, Transmit(s)
        PROVE  TypeInv'
    <2>1. OutType'
      <3>1. owed' \in [Session -> 0..MaxOwed]
        BY <1>3, SessionAssumption DEF Transmit, OutType
      <3> QED  BY <1>3, <3>1, MarkSent DEF Transmit, OutType
    <2>2. Budget'
      BY <1>3 DEF Transmit, Budget, OutType, reader, station
    <2>3. Hello'
      BY <1>3 DEF Transmit, Hello, OutType, reader
    <2>4. ReaderAlive'
      BY <1>3 DEF Transmit, ReaderAlive, reader
    <2> QED  BY <1>3, <2>1, <2>2, <2>3, <2>4, Unchanged DEF Transmit
  <1>4. ASSUME NEW s \in Session, WriteDone(s)
        PROVE  TypeInv'
    <2>1. ReaderType'
      BY <1>4, HeadTailProperties DEF WriteDone, ReaderType, OutType, Phase, Hello
    <2>2. TimersType'
      BY <1>4 DEF WriteDone, startPongTimer, TimersType
    <2>3. OutType'
      BY <1>4, HeadTailProperties DEF WriteDone, OutType, pings
    <2>4. Budget'
      BY <1>4 DEF WriteDone, Budget, ReaderType, station, out, pings
    <2>5. Hello'
      BY <1>4, TailHello DEF WriteDone, ReaderType
    <2>6. ReaderAlive'
      BY <1>4 DEF WriteDone, ReaderAlive, Hello, OutType, ReaderType
    <2> QED  BY <1>4, <2>1, <2>2, <2>3, <2>4, <2>5, <2>6, Unchanged DEF WriteDone
  <1>5. ASSUME NEW s \in Session, WriteFail(s)
        PROVE  TypeInv'
    <2>1. ReaderType'
      BY <1>5, HeadTailProperties DEF WriteFail, ReaderType, OutType, Phase, Hello
    <2>2. OutType'
      BY <1>5, HeadTailProperties DEF WriteFail, OutType, pings
    <2>3. Budget'
      BY <1>5 DEF WriteFail, Budget, ReaderType, station, out, pings
    <2>4. Hello'
      BY <1>5, TailHello DEF WriteFail, ReaderType
    <2>5. ReaderAlive'
      BY <1>5 DEF WriteFail, ReaderAlive, Hello, OutType, ReaderType
    <2> QED  BY <1>5, <2>1, <2>2, <2>3, <2>4, <2>5, Unchanged DEF WriteFail
  <1>6. ASSUME NEW s \in Session, TlsHandshake(s)
        PROVE  TypeInv'
    <2>1. ReaderType'
      BY <1>6 DEF TlsHandshake, ReaderType, Phase
    <2>2. OutType'
      <3>1. (\E pkt \in OutPacket : writePacket(s, pkt)) \/ UNCHANGED <<output_, writes>>
        BY <1>6 DEF TlsHandshake, OutPacket
      <3>2. UNCHANGED pings
        BY <1>6 DEF TlsHandshake, pings
      <3>3. UNCHANGED <<output_, writes>> => UNCHANGED out
        BY <3>2 DEF out
      <3> QED  BY <3>1, <3>2, <3>3, WriteType, Unchanged
    <2>3. Budget'
      BY <1>6 DEF TlsHandshake, Budget, ReaderType, station, out, pings
    <2>4. Hello'
      BY <1>6, WriteHello DEF TlsHandshake, ReaderType, Hello, OutPacket
    <2>5. ReaderAlive'
      BY <1>6 DEF TlsHandshake, ReaderAlive, ReaderType
    <2> QED  BY <1>6, <2>1, <2>2, <2>3, <2>4, <2>5, Unchanged DEF TlsHandshake
  <1>7. ASSUME NEW s \in Session, onShutdown(s)
        PROVE  TypeInv'
    <2>1. LinkType'
      BY <1>7 DEF onShutdown, LinkType
    <2>2. Budget'
      BY <1>7 DEF onShutdown, Budget, reader, station, out, pings
    <2>3. Hello'
      BY <1>7 DEF onShutdown, Hello, reader, out
    <2>4. ReaderAlive'
      BY <1>7 DEF onShutdown, ReaderAlive, reader
    <2> QED  BY <1>7, <2>1, <2>2, <2>3, <2>4, Unchanged DEF onShutdown
  <1>8. ASSUME NEW s \in Session, PeerClose(s)
        PROVE  TypeInv'
    <2>1. LinkType'
      BY <1>8 DEF PeerClose, LinkType
    <2>2. Budget'
      BY <1>8 DEF PeerClose, Budget, reader, station, out, pings
    <2>3. Hello'
      BY <1>8 DEF PeerClose, Hello, reader, out
    <2>4. ReaderAlive'
      BY <1>8 DEF PeerClose, ReaderAlive, reader
    <2> QED  BY <1>8, <2>1, <2>2, <2>3, <2>4, Unchanged DEF PeerClose
  <1>9. ASSUME NEW s \in Session, ReadData(s)
        PROVE  TypeInv'
    <2>1. ReaderType'
      BY <1>9, SessionAssumption DEF ReadData, ReaderType, Phase
    <2>2. Budget'
      BY <1>9 DEF ReadData, Budget, ReaderType, station, MaySend, out, pings
    <2>3. Hello'
      BY <1>9 DEF ReadData, ReaderType, Hello, out
    <2>4. ReaderAlive'
      BY <1>9 DEF ReadData, ReaderAlive, ReaderType
    <2> QED  BY <1>9, <2>1, <2>2, <2>3, <2>4, Unchanged DEF ReadData
  <1>10. ASSUME NEW s \in Session, ReadError(s)
        PROVE  TypeInv'
    <2>1. ReaderType'
      BY <1>10 DEF ReadError, ReaderType, Phase
    <2>2. LinkType'
      BY <1>10, DisconnectType DEF ReadError
    <2>3. TimersType'
      BY <1>10 DEF ReadError, stop, TimersType
    <2>4. Budget'
      BY <1>10 DEF ReadError, Budget, ReaderType, station, out, pings
    <2>5. Hello'
      BY <1>10 DEF ReadError, ReaderType, Hello, out
    <2>6. ReaderAlive'
      BY <1>10 DEF ReadError, ReaderAlive, ReaderType
    <2> QED  BY <1>10, <2>1, <2>2, <2>3, <2>4, <2>5, <2>6, Unchanged DEF ReadError
  <1>11. ASSUME NEW s \in Session, handleHandshakePacket(s)
        PROVE  TypeInv'
    <2>1. DirectoryTypeOK'
      BY <1>11, JoinType DEF handleHandshakePacket, Valid, DirectoryTypeOK
    <2>2. ReaderType'
      BY <1>11, SessionAssumption DEF handleHandshakePacket, Good, ReaderType, Phase
    <2>3. StationType'
      BY <1>11, SessionAssumption DEF handleHandshakePacket, Valid, Parsing, Budget, StationType
    <2>4. TimersType'
      BY <1>11 DEF handleHandshakePacket, startPingTimer, TimersType
    <2>5. OutType'
      BY <1>11, WriteType DEF handleHandshakePacket, OutPacket
    <2>6. Budget'
      BY <1>11 DEF handleHandshakePacket, Budget, Good, ReaderType, out, pings
    <2>7. Hello'
      BY <1>11, WriteHello DEF handleHandshakePacket, Good, Parsing, ReaderType, OutPacket
    <2>8. ReaderAlive'
      BY <1>11 DEF handleHandshakePacket, ReaderAlive, Good, Parsing, ReaderType
    <2> QED  BY <1>11, <2>1, <2>2, <2>3, <2>4, <2>5, <2>6, <2>7, <2>8, Unchanged DEF handleHandshakePacket
  <1>12. ASSUME NEW s \in Session, handlePongPacket(s)
        PROVE  TypeInv'
    <2>1. ReaderType'
      BY <1>12, SessionAssumption DEF handlePongPacket, Good, ReaderType, Phase
    <2>2. TimersType'
      BY <1>12 DEF handlePongPacket, cancelPongTimer, TimersType
    <2>3. OutType'
      <3>1. owed' \in [Session -> 0..MaxOwed]
        BY <1>12, SessionAssumption DEF handlePongPacket, Parsing, Budget, OutType
      <3> QED  BY <1>12, <3>1 DEF handlePongPacket, OutType
    <2>4. Budget'
      BY <1>12 DEF handlePongPacket, Budget, Good, ReaderType, OutType, station
    <2>5. Hello'
      BY <1>12 DEF handlePongPacket, Good, Parsing, ReaderType, Hello
    <2>6. ReaderAlive'
      BY <1>12 DEF handlePongPacket, ReaderAlive, Good, Parsing, ReaderType
    <2> QED  BY <1>12, <2>1, <2>2, <2>3, <2>4, <2>5, <2>6, Unchanged DEF handlePongPacket
  <1>13. ASSUME NEW s \in Session, handleWeatherStatusPacket(s)
        PROVE  TypeInv'
    <2>1. ReaderType'
      BY <1>13, SessionAssumption DEF handleWeatherStatusPacket, Good, ReaderType, Phase
    <2>2. Budget'
      BY <1>13 DEF handleWeatherStatusPacket, Budget, Good, ReaderType, station, out, pings
    <2>3. Hello'
      BY <1>13 DEF handleWeatherStatusPacket, Good, Parsing, ReaderType, Hello, out
    <2>4. ReaderAlive'
      BY <1>13 DEF handleWeatherStatusPacket, ReaderAlive, Good, Parsing, ReaderType
    <2> QED  BY <1>13, <2>1, <2>2, <2>3, <2>4, Unchanged DEF handleWeatherStatusPacket
  <1>14. ASSUME NEW s \in Session, handleUnknown(s)
        PROVE  TypeInv'
    <2>1. ReaderType'
      BY <1>14, SessionAssumption DEF handleUnknown, Bad, ReaderType, Phase
    <2>2. Budget'
      BY <1>14 DEF handleUnknown, Budget, Bad, ReaderType, station, out, pings
    <2>3. Hello'
      BY <1>14 DEF handleUnknown, Bad, Parsing, ReaderType, Hello, out
    <2>4. ReaderAlive'
      BY <1>14 DEF handleUnknown, ReaderAlive, Bad, Parsing, ReaderType
    <2> QED  BY <1>14, <2>1, <2>2, <2>3, <2>4, Unchanged DEF handleUnknown
  <1>15. ASSUME NEW s \in Session, PingExpire(s)
        PROVE  TypeInv'
    <2>1. TimersType'
      BY <1>15 DEF PingExpire, TimersType
    <2>2. Budget'
      BY <1>15 DEF PingExpire, Budget, reader, station, out, pings
    <2>3. Hello'
      BY <1>15 DEF PingExpire, Hello, reader, out
    <2>4. ReaderAlive'
      BY <1>15 DEF PingExpire, ReaderAlive, reader
    <2> QED  BY <1>15, <2>1, <2>2, <2>3, <2>4, Unchanged DEF PingExpire
  <1>16. ASSUME NEW s \in Session, onPingTimeout(s)
        PROVE  TypeInv'
    <2>1. TimersType'
      BY <1>16 DEF onPingTimeout, restartPingTimer, TimersType
    <2>2. OutType'
      BY <1>16, WriteType DEF onPingTimeout, OutPacket
    <2>3. Budget'
      BY <1>16 DEF onPingTimeout, Budget, reader, station, out, pings
    <2>4. Hello'
      BY <1>16, WriteHello DEF onPingTimeout, OutPacket, reader
    <2>5. ReaderAlive'
      BY <1>16 DEF onPingTimeout, ReaderAlive, reader
    <2> QED  BY <1>16, <2>1, <2>2, <2>3, <2>4, <2>5, Unchanged DEF onPingTimeout
  <1>17. ASSUME NEW s \in Session, PongExpire(s)
        PROVE  TypeInv'
    <2>1. TimersType'
      BY <1>17 DEF PongExpire, TimersType
    <2>2. Budget'
      BY <1>17 DEF PongExpire, Budget, reader, station, out, pings
    <2>3. Hello'
      BY <1>17 DEF PongExpire, Hello, reader, out
    <2>4. ReaderAlive'
      BY <1>17 DEF PongExpire, ReaderAlive, reader
    <2> QED  BY <1>17, <2>1, <2>2, <2>3, <2>4, Unchanged DEF PongExpire
  <1>18. ASSUME NEW s \in Session, onPongTimeout(s)
        PROVE  TypeInv'
    <2>1. TimersType'
      BY <1>18 DEF onPongTimeout, TimersType
    <2>2. LinkType'
      BY <1>18, DisconnectType DEF onPongTimeout
    <2>3. Budget'
      BY <1>18 DEF onPongTimeout, Budget, reader, station, out, pings
    <2>4. Hello'
      BY <1>18 DEF onPongTimeout, Hello, reader, out
    <2>5. ReaderAlive'
      BY <1>18 DEF onPongTimeout, ReaderAlive, reader
    <2> QED  BY <1>18, <2>1, <2>2, <2>3, <2>4, <2>5, Unchanged DEF onPongTimeout
  <1>19. ASSUME NEW id \in StationId, WeatherRequest(id)
        PROVE  TypeInv'
    <2>1. PICK s \in Session : writePacket(s, "WeatherStatus")
      BY <1>19 DEF WeatherRequest, findStation, Lockable
    <2>2. OutType'
      BY <1>19, <2>1, WriteType DEF WeatherRequest, OutPacket
    <2>3. Budget'
      BY <1>19 DEF WeatherRequest, Budget, reader, station, out, pings
    <2>4. Hello'
      BY <1>19, <2>1, WriteHello DEF WeatherRequest, OutPacket, reader
    <2>5. ReaderAlive'
      BY <1>19 DEF WeatherRequest, ReaderAlive, reader
    <2> QED  BY <1>19, <2>2, <2>3, <2>4, <2>5, Unchanged DEF WeatherRequest
  <1>20. CASE UNCHANGED vars
    <2>1. Budget' /\ Hello' /\ ReaderAlive'
      BY <1>20 DEF vars, Budget, Hello, ReaderAlive, reader, station, out, out, pings
    <2> QED  BY <1>20, <2>1, Unchanged DEF vars
  <1> QED
    BY <1>1, <1>2, <1>3, <1>4, <1>5, <1>6, <1>7, <1>8, <1>9, <1>10, <1>11, <1>12, <1>13,
       <1>14, <1>15, <1>16, <1>17, <1>18, <1>19, <1>20 DEF Next, SessionStep, Parse

\* Every variable of every session keeps its type, and the input is empty
\* exactly while nothing is to be parsed.
THEOREM TypeCorrect == Spec => []TypeOK
  <1>1. TypeInv => TypeOK
    BY DEF TypeInv
  <1> QED  BY InitTypeInv, TypeInvStep, <1>1, PTL DEF Spec
----------------------------------------------------------------------------
(* The directory.  RegistryConsistent is not inductive: a second Handshake    *)
(* would register a session under a second id and leave the first entry       *)
(* behind.  Registry adds that entries belong to acknowledged sessions and    *)
(* that a session which was answered has handled a Handshake; with one        *)
(* Handshake per connection, a session that parses one is in no map.          *)

Registry ==
    /\ RegistryConsistent
    /\ \A k \in Kind, id \in StationId :
          tcp_sessions_[k][id] # None => reply[tcp_sessions_[k][id]] = "ACK"
    /\ \A s \in Session : reply[s] # "none" => handshakes[s] > 0

\* Only three steps touch what the directory is about.
LEMMA DirectoryFrame ==
    ASSUME [Next]_vars
    PROVE  \/ \E s \in Session : Accept(s) \/ Destroy(s) \/ handleHandshakePacket(s)
           \/ UNCHANGED <<tcp_sessions_, obj, stationId_, handshakes, reply, struck>>
  BY DEF Next, SessionStep, Parse, vars, station, Transmit, WriteDone, WriteFail, TlsHandshake,
         onShutdown, PeerClose, ReadData, ReadError, handlePongPacket, handleWeatherStatusPacket,
         handleUnknown, PingExpire, onPingTimeout, PongExpire, onPongTimeout, WeatherRequest

\* A session that parses a Handshake has not been answered yet.
LEMMA FirstHandshake ==
    ASSUME MaxHandshakes = 1, TypeInv, Registry, NEW s \in Session, Parsing(s, "Handshake")
    PROVE  reply[s] = "none"
  BY DEF TypeInv, TypeOK, StationType, Budget, Registry, Parsing

LEMMA InitRegistry == Init => Registry
  BY DEF Init, DirectoryInit, Registry, RegistryConsistent

LEMMA RegistryStep ==
    ASSUME MaxHandshakes = 1, TypeInv, Registry, [Next]_vars
    PROVE  Registry'
  <1> USE DEF Registry, RegistryConsistent
  <1> DEFINE entry(k, id) == tcp_sessions_[k][id]
  <1>1. ASSUME NEW s \in Session, Accept(s)
        PROVE  Registry'
    <2>1. \A k \in Kind, id \in StationId : entry(k, id) # s
      BY <1>1, DirectoryAssumption DEF Accept
    <2> QED  BY <1>1, <2>1 DEF Accept, TypeInv, TypeOK, StationType, DirectoryTypeOK
  <1>2. ASSUME NEW s \in Session, Destroy(s)
        PROVE  Registry'
    <2>1. \A k \in Kind, id \in StationId : entry(k, id)' \in {None, entry(k, id)}
      BY <1>2 DEF Destroy, leave, TypeInv, TypeOK, DirectoryTypeOK, Kind, KindOf
    <2>2. \A k \in Kind, id \in StationId : entry(k, id)' # s
      BY <1>2, DirectoryAssumption
         DEF Destroy, leave, TypeInv, TypeOK, DirectoryTypeOK, Kind, KindOf
    <2> QED  BY <1>2, <2>1, <2>2 DEF Destroy, station, TypeInv, TypeOK, DirectoryTypeOK
  <1>3. ASSUME NEW s \in Session, handleHandshakePacket(s)
        PROVE  Registry'
    <2>1. reply[s] = "none"
      BY <1>3, FirstHandshake DEF handleHandshakePacket
    <2>2. \A k \in Kind, id \in StationId : entry(k, id) # s
      BY <2>1, DirectoryAssumption
    <2>3. \A t \in Session : reply'[t] # "none" => handshakes'[t] > 0
      BY <1>3 DEF handleHandshakePacket, TypeInv, TypeOK, StationType
    <2>4. CASE Valid(input_[s]) /\ joined(s, input_[s].id)
      <3>1. \A k \in Kind, id \in StationId :
               \/ entry(k, id)' = entry(k, id)
               \/ k = KindOf(s) /\ id = input_[s].id /\ entry(k, id)' = s
        BY <1>3, <2>4 DEF handleHandshakePacket, join, TypeInv, TypeOK, DirectoryTypeOK
      <3>2. /\ obj'[s] = "alive" /\ stationId_'[s] = input_[s].id /\ reply'[s] = "ACK"
            /\ \A t \in Session \ {s} :
                  obj'[t] = obj[t] /\ stationId_'[t] = stationId_[t] /\ reply'[t] = reply[t]
        BY <1>3, <2>4
           DEF handleHandshakePacket, Parsing, ReaderAlive, TypeInv, TypeOK, StationType
      <3>3. \A k \in Kind, id \in StationId : entry(k, id) \in Session \cup {None}
        BY DEF TypeInv, TypeOK, DirectoryTypeOK
      <3> QED  BY <2>2, <2>3, <3>1, <3>2, <3>3
    <2>5. CASE ~(Valid(input_[s]) /\ joined(s, input_[s].id))
      BY <1>3, <2>2, <2>3, <2>5
         DEF handleHandshakePacket, TypeInv, TypeOK, StationType, DirectoryTypeOK
    <2> QED  BY <2>4, <2>5
  <1>4. CASE UNCHANGED <<tcp_sessions_, obj, stationId_, handshakes, reply>>
    BY <1>4
  <1> QED  BY <1>1, <1>2, <1>3, <1>4, DirectoryFrame

\* Where the peers send one Handshake per connection, as the protocol has it,
\* the directory holds no dangling pointer and no entry under a wrong id or in
\* a wrong map, whatever the uninitialized stationId_ of a session holds.
THEOREM NoDanglingEntry ==
    ASSUME MaxHandshakes = 1
    PROVE  Spec => []RegistryConsistent
  <1>1. TypeInv /\ Registry /\ [Next]_vars => (TypeInv /\ Registry)'
    BY TypeInvStep, RegistryStep
  <1>2. Init => TypeInv /\ Registry
    BY InitTypeInv, InitRegistry
  <1>3. TypeInv /\ Registry => RegistryConsistent
    BY DEF Registry
  <1> QED  BY <1>1, <1>2, <1>3, PTL DEF Spec
----------------------------------------------------------------------------
(* The entry of a live session.  A stationId_ that was never set makes the    *)
(* destructor of a session that is in no map erase whichever entry it names;  *)
(* struck tells whose, and no other step takes the entry of a session that    *)
(* was acknowledged.  Kept needs no bound on Handshakes: a session that moves *)
(* to another id by a second one is found under the new id, and is found      *)
(* under it after a refused third.                                            *)

Kept ==
    \A s \in Session : obj[s] = "alive" /\ reply[s] = "ACK" =>
        /\ stationId_[s] \in StationId
        /\ tcp_sessions_[KindOf(s)][stationId_[s]] = s \/ struck[s]

LEMMA InitKept == Init => Kept
  BY DEF Init, Kept

\* The step of a Handshake that is acknowledged.
LEMMA AckEffect ==
    ASSUME TypeInv, NEW s \in Session, handleHandshakePacket(s),
           Valid(input_[s]), joined(s, input_[s].id)
    PROVE  /\ input_[s].id \in StationId /\ UNCHANGED obj
           /\ tcp_sessions_[KindOf(s)][input_[s].id] = None
           /\ stationId_' = [stationId_ EXCEPT ![s] = input_[s].id]
           /\ reply' = [reply EXCEPT ![s] = "ACK"]
           /\ tcp_sessions_'[KindOf(s)][input_[s].id] = s
           /\ \A k \in Kind, id \in StationId :
                 k # KindOf(s) \/ id # input_[s].id => tcp_sessions_'[k][id] = tcp_sessions_[k][id]
  <1>1. /\ stationId_' = [stationId_ EXCEPT ![s] = input_[s].id]
        /\ reply' = [reply EXCEPT ![s] = "ACK"] /\ UNCHANGED obj
        /\ tcp_sessions_' = [tcp_sessions_ EXCEPT ![KindOf(s)][input_[s].id] = s]
    BY DEF handleHandshakePacket, join
  <1>2. KindOf(s) \in Kind /\ input_[s].id \in StationId
    BY DEF KindOf, Kind, Valid
  <1> QED  BY <1>1, <1>2 DEF joined, TypeInv, TypeOK, DirectoryTypeOK

\* The step of a Handshake that is refused.
LEMMA NakEffect ==
    ASSUME NEW s \in Session, handleHandshakePacket(s),
           ~(Valid(input_[s]) /\ joined(s, input_[s].id))
    PROVE  reply' = [reply EXCEPT ![s] = "NAK"] /\ UNCHANGED <<obj, tcp_sessions_, stationId_>>
  BY DEF handleHandshakePacket

\* The step of a destructor: one that takes the entry of a session which
\* keeps to its own is recorded with that session.
LEMMA DestroyEffect ==
    ASSUME TypeInv, NEW s \in Session, Destroy(s)
    PROVE  /\ obj[s] = "alive" /\ obj' = [obj EXCEPT ![s] = "destroyed"]
           /\ UNCHANGED <<stationId_, handshakes, reply>>
           /\ struck' = [t \in Session |-> struck[t] \/ t \in strays(s)]
           /\ \A k \in Kind, id \in StationId :
                 k # KindOf(s) \/ id # stationId_[s] =>
                     tcp_sessions_'[k][id] = tcp_sessions_[k][id]
  BY DEF Destroy, leave, TypeInv, TypeOK, DirectoryTypeOK

LEMMA KeptStep ==
    ASSUME TypeInv, Kept, [Next]_vars
    PROVE  Kept'
  <1> USE DEF Kept
  <1>1. /\ stationId_ \in [Session -> StationId \cup {InvalidId}]
        /\ reply \in [Session -> {"none", "ACK", "NAK"}]
        /\ obj \in [Session -> {"none", "alive", "destroyed"}]
        /\ struck \in [Session -> BOOLEAN]
        /\ \A t \in Session : KindOf(t) \in Kind
    BY DEF TypeInv, TypeOK, StationType, KindOf, Kind
  <1>2. ASSUME NEW s \in Session, Accept(s)
        PROVE  Kept'
    BY <1>1, <1>2 DEF Accept, KindOf
  <1>3. ASSUME NEW s \in Session, Destroy(s)
        PROVE  Kept'
    <2>1. /\ obj[s] = "alive" /\ obj'[s] # "alive"
          /\ \A t \in Session \ {s} : obj'[t] = obj[t]
          /\ UNCHANGED <<stationId_, reply>>
          /\ \A t \in Session : struck'[t] = (struck[t] \/ t \in strays(s))
          /\ \A k \in Kind, id \in StationId :
                 k # KindOf(s) \/ id # stationId_[s] =>
                     tcp_sessions_'[k][id] = tcp_sessions_[k][id]
      BY <1>1, <1>3, DestroyEffect
    <2>2. ASSUME NEW t \in Session \ {s}, obj[t] = "alive", reply[t] = "ACK", ~struck[t]
          PROVE  tcp_sessions_'[KindOf(t)][stationId_[t]] = t \/ struck'[t]
      <3>1. stationId_[t] \in StationId /\ tcp_sessions_[KindOf(t)][stationId_[t]] = t
        BY <2>2
      <3>2. CASE KindOf(t) = KindOf(s) /\ stationId_[t] = stationId_[s]
        <4>1. t \in robbed(s, stationId_[s])
          BY <3>1, <3>2 DEF robbed
        <4>2. ~(reply[s] = "ACK" /\ ~struck[s])
          BY <2>1, <3>1, <3>2
        <4> QED  BY <2>1, <4>1, <4>2 DEF strays
      <3>3. CASE ~(KindOf(t) = KindOf(s) /\ stationId_[t] = stationId_[s])
        BY <1>1, <2>1, <3>1, <3>3
      <3> QED  BY <3>2, <3>3
    <2> QED  BY <2>1, <2>2 DEF KindOf
  <1>4. ASSUME NEW s \in Session, handleHandshakePacket(s)
        PROVE  Kept'
    <2>1. CASE Valid(input_[s]) /\ joined(s, input_[s].id)
      <3> DEFINE new == input_[s].id
      <3>1. /\ new \in StationId /\ UNCHANGED <<obj, struck>>
            /\ tcp_sessions_[KindOf(s)][new] = None
            /\ stationId_' = [stationId_ EXCEPT ![s] = new]
            /\ reply' = [reply EXCEPT ![s] = "ACK"]
            /\ tcp_sessions_'[KindOf(s)][new] = s
            /\ \A k \in Kind, id \in StationId :
                  k # KindOf(s) \/ id # new => tcp_sessions_'[k][id] = tcp_sessions_[k][id]
        BY <1>4, <2>1, AckEffect DEF handleHandshakePacket
      <3> HIDE DEF new
      <3>2. ASSUME NEW t \in Session \ {s}, obj[t] = "alive", reply[t] = "ACK", ~struck[t]
            PROVE  tcp_sessions_'[KindOf(t)][stationId_[t]] = t
        <4>1. stationId_[t] \in StationId /\ tcp_sessions_[KindOf(t)][stationId_[t]] = t
          BY <3>2
        <4>2. ~(KindOf(t) = KindOf(s) /\ stationId_[t] = new)
          BY <3>1, <4>1, DirectoryAssumption
        <4> QED  BY <1>1, <3>1, <4>1, <4>2
      <3>3. /\ stationId_'[s] = new
            /\ \A t \in Session \ {s} : stationId_'[t] = stationId_[t] /\ reply'[t] = reply[t]
        BY <1>1, <3>1
      <3> QED  BY <3>1, <3>2, <3>3 DEF KindOf
    <2>2. CASE ~(Valid(input_[s]) /\ joined(s, input_[s].id))
      <3>1. /\ reply' = [reply EXCEPT ![s] = "NAK"]
            /\ UNCHANGED <<obj, tcp_sessions_, stationId_, struck>>
        BY <1>4, <2>2, NakEffect DEF handleHandshakePacket
      <3> QED  BY <1>1, <3>1 DEF KindOf
    <2> QED  BY <2>1, <2>2
  <1>5. CASE UNCHANGED <<tcp_sessions_, obj, stationId_, handshakes, reply, struck>>
    BY <1>5 DEF KindOf
  <1> QED  BY <1>2, <1>3, <1>4, <1>5, DirectoryFrame

\* An acknowledged session keeps its station until its destructor runs or that
\* of a session in no map strikes it out, whatever an uninitialized stationId_
\* holds and however many Handshakes its peer sends.
THEOREM AckedStaysRegistered == Spec => []AckedUnlessStruck
  <1>1. TypeInv /\ Kept /\ [Next]_vars => (TypeInv /\ Kept)'
    BY TypeInvStep, KeptStep
  <1>2. Init => TypeInv /\ Kept
    BY InitTypeInv, InitKept
  <1>3. TypeInv /\ Kept => AckedUnlessStruck
    BY DEF Kept, AckedUnlessStruck
  <1> QED  BY <1>1, <1>2, <1>3, PTL DEF Spec
----------------------------------------------------------------------------
(* With one Handshake per connection besides, no entry is left behind, and    *)
(* only a session that was acknowledged can be struck out (StruckAcked).      *)

StruckAcked ==
    \A s \in Session : obj[s] = "alive" /\ struck[s] => reply[s] = "ACK"

DirectoryInv == TypeInv /\ Registry /\ Kept /\ StruckAcked

LEMMA StruckStep ==
    ASSUME MaxHandshakes = 1, DirectoryInv, [Next]_vars
    PROVE  StruckAcked'
  <1> USE DEF DirectoryInv, StruckAcked
  <1>1. /\ reply \in [Session -> {"none", "ACK", "NAK"}]
        /\ struck \in [Session -> BOOLEAN]
        /\ obj \in [Session -> {"none", "alive", "destroyed"}]
        /\ \A t \in Session : KindOf(t) \in Kind
    BY DEF TypeInv, TypeOK, StationType, KindOf, Kind
  <1>2. ASSUME NEW s \in Session, Accept(s)
        PROVE  StruckAcked'
    BY <1>1, <1>2 DEF Accept
  <1>3. ASSUME NEW s \in Session, Destroy(s)
        PROVE  StruckAcked'
    <2>1. \A t \in strays(s) : t \in Session /\ reply[t] = "ACK"
      <3>1. ASSUME NEW t \in strays(s)
            PROVE  t \in Session /\ reply[t] = "ACK"
        <4>1. /\ t \in Session /\ stationId_[s] \in StationId
              /\ tcp_sessions_[KindOf(s)][stationId_[s]] = t
          BY <3>1 DEF strays, robbed
        <4> QED  BY <1>1, <4>1, DirectoryAssumption DEF Registry
      <3> QED  BY <3>1
    <2> QED  BY <1>1, <1>3, <2>1, DestroyEffect
  <1>4. ASSUME NEW s \in Session, handleHandshakePacket(s)
        PROVE  StruckAcked'
    <2>1. /\ reply[s] = "none" /\ obj[s] = "alive" /\ UNCHANGED <<obj, struck>>
          /\ \A t \in Session \ {s} : reply'[t] = reply[t]
      BY <1>1, <1>4, FirstHandshake
         DEF handleHandshakePacket, Parsing, TypeInv, ReaderAlive
    <2> QED  BY <1>1, <2>1
  <1>5. CASE UNCHANGED <<tcp_sessions_, obj, stationId_, handshakes, reply, struck>>
    BY <1>5
  <1> QED  BY <1>2, <1>3, <1>4, <1>5, DirectoryFrame

LEMMA DirectoryInvariant ==
    ASSUME MaxHandshakes = 1
    PROVE  Spec => []DirectoryInv
  <1>1. DirectoryInv /\ [Next]_vars => DirectoryInv'
    BY TypeInvStep, RegistryStep, KeptStep, StruckStep DEF DirectoryInv
  <1>2. Init => DirectoryInv
    BY InitTypeInv, InitRegistry, InitKept DEF DirectoryInv, StruckAcked, Init
  <1> QED  BY <1>1, <1>2, PTL DEF Spec

\* A request for the weather of a station that a live session serves, which was
\* not struck out, finds a session, and only one that serves the station.
THEOREM RequestsReach ==
    ASSUME MaxHandshakes = 1
    PROVE  Spec => []RequestsReachStation
  <1>1. ASSUME DirectoryInv, NEW id \in StationId
        PROVE  LET serving == {s \in Lockable : reply[s] = "ACK" /\ stationId_[s] = id}
                   found == findStation(id, Lockable)
               IN  found \subseteq serving /\ ((\E s \in serving : ~struck[s]) => found # {})
    <2> DEFINE serving == {s \in Lockable : reply[s] = "ACK" /\ stationId_[s] = id}
    <2>1. ASSUME NEW s \in findStation(id, Lockable)
          PROVE  s \in serving
      <3>1. \E k \in Kind : s = tcp_sessions_[k][id]
        BY <2>1 DEF findStation, Kind
      <3>2. s \in Lockable /\ s # None
        BY <2>1, DirectoryAssumption DEF findStation, Lockable
      <3> QED  BY <1>1, <3>1, <3>2 DEF DirectoryInv, Registry, RegistryConsistent
    <2>2. ASSUME NEW s \in serving, ~struck[s]
          PROVE  findStation(id, Lockable) # {}
      <3>1. s \in Lockable /\ tcp_sessions_[KindOf(s)][id] = s
        BY <1>1, <2>2 DEF DirectoryInv, Kept, Lockable
      <3> QED  BY <3>1 DEF findStation, KindOf
    <2> QED  BY <2>1, <2>2
  <1>2. DirectoryInv => RequestsReachStation
    BY <1>1 DEF RequestsReachStation
  <1> QED  BY <1>2, DirectoryInvariant, PTL
----------------------------------------------------------------------------
(* Refinement: the ACK of a Handshake is the registration, the destructor of  *)
(* a session that is in the map the release, and a stray destructor the       *)
(* release of the session it strikes out; every other step stutters.          *)

serves == [s \in Session |->
              IF obj[s] = "alive" /\ reply[s] = "ACK" /\ ~struck[s]
              THEN stationId_[s] ELSE InvalidId]

LEMMA DirectoryStep ==
    ASSUME MaxHandshakes = 1, DirectoryInv, [Next]_vars
    PROVE  \/ \E s \in Session : Directory!Release(s)
           \/ \E s \in Session, id \in StationId : Directory!Register(s, id)
           \/ serves' = serves
  <1> USE DEF DirectoryInv
  <1>0. /\ stationId_ \in [Session -> StationId \cup {InvalidId}]
        /\ obj \in [Session -> {"none", "alive", "destroyed"}]
        /\ struck \in [Session -> BOOLEAN]
        /\ \A t \in Session : KindOf(t) \in Kind
    BY DEF TypeInv, TypeOK, StationType, KindOf, Kind
  <1>1. ASSUME NEW s \in Session, Accept(s)
        PROVE  serves' = serves
    BY <1>1 DEF Accept, serves, TypeInv, TypeOK, StationType
  <1>2. ASSUME NEW s \in Session, Destroy(s)
        PROVE  serves' = serves \/ \E t \in Session : Directory!Release(t)
    <2>1. /\ obj[s] = "alive" /\ obj' = [obj EXCEPT ![s] = "destroyed"]
          /\ UNCHANGED <<stationId_, reply>>
          /\ struck' = [t \in Session |-> struck[t] \/ t \in strays(s)]
      BY <1>2, DestroyEffect
    <2>2. CASE reply[s] = "ACK" /\ ~struck[s]
      <3>1. \A t \in Session : struck'[t] = struck[t]
        BY <1>0, <2>1, <2>2 DEF strays
      <3>2. serves' = [serves EXCEPT ![s] = InvalidId]
        BY <1>0, <2>1, <3>1 DEF serves
      <3>3. serves[s] # InvalidId
        BY <2>1, <2>2, SessionAssumption DEF serves, Kept
      <3> QED  BY <3>2, <3>3 DEF Directory!Release, serves
    <2>3. CASE ~(reply[s] = "ACK" /\ ~struck[s])
      <3>1. serves[s] = InvalidId /\ serves'[s] = InvalidId
        BY <1>0, <2>1, <2>3 DEF serves
      <3>2. CASE strays(s) = {}
        <4>1. \A t \in Session : struck'[t] = struck[t]
          BY <1>0, <2>1, <3>2
        <4> QED  BY <1>0, <2>1, <2>3, <4>1 DEF serves
      <3>3. CASE strays(s) # {}
        <4>1. PICK v \in strays(s) : TRUE
          BY <3>3
        <4>2. v \in Session /\ v # s /\ strays(s) = {v}
          BY <2>3, <4>1 DEF strays, robbed
        <4>3. serves' = [serves EXCEPT ![v] = InvalidId]
          <5>1. \A t \in Session \ {s, v} : serves'[t] = serves[t]
            BY <1>0, <2>1, <4>2 DEF serves
          <5>2. serves'[v] = InvalidId
            BY <1>0, <2>1, <4>2 DEF serves
          <5>3. /\ serves = [t \in Session |-> serves[t]]
                /\ serves' = [t \in Session |-> serves'[t]]
            BY DEF serves
          <5> HIDE DEF serves
          <5> QED  BY <3>1, <4>2, <5>1, <5>2, <5>3
        <4>4. CASE serves[v] = InvalidId
          BY <4>3, <4>4 DEF serves
        <4>5. CASE serves[v] # InvalidId
          BY <4>2, <4>3, <4>5 DEF Directory!Release, serves
        <4> QED  BY <4>4, <4>5
      <3> QED  BY <3>2, <3>3
    <2> QED  BY <2>2, <2>3
  <1>3. ASSUME NEW s \in Session, handleHandshakePacket(s)
        PROVE  serves' = serves \/ \E id \in StationId : Directory!Register(s, id)
    <2>1. reply[s] = "none" /\ obj[s] = "alive" /\ ~struck[s] /\ UNCHANGED <<obj, struck>>
      BY <1>0, <1>3, FirstHandshake
         DEF handleHandshakePacket, Parsing, TypeInv, ReaderAlive, StruckAcked
    <2>2. CASE Valid(input_[s]) /\ joined(s, input_[s].id)
      <3> DEFINE id == input_[s].id
      <3>1. /\ id \in StationId /\ tcp_sessions_[KindOf(s)][id] = None
            /\ stationId_' = [stationId_ EXCEPT ![s] = id]
            /\ reply' = [reply EXCEPT ![s] = "ACK"]
        BY <1>3, <2>2 DEF handleHandshakePacket, Valid, joined
      <3>2. serves' = [serves EXCEPT ![s] = id]
        BY <2>1, <3>1 DEF serves, TypeInv, TypeOK, StationType
      <3>3. serves[s] = InvalidId
        BY <2>1 DEF serves
      <3>4. ASSUME NEW t \in Session, Directory!SameKind(s, t)
            PROVE  serves[t] # id
        <4>1. KindOf(t) = KindOf(s)
          BY <3>4 DEF Directory!SameKind, KindOf
        <4> QED
          BY <3>1, <4>1, SessionAssumption, DirectoryAssumption DEF serves, Kept
      <3> QED  BY <3>1, <3>2, <3>3, <3>4 DEF Directory!Register, serves
    <2>3. CASE ~(Valid(input_[s]) /\ joined(s, input_[s].id))
      BY <1>3, <2>1, <2>3 DEF handleHandshakePacket, serves, TypeInv, TypeOK, StationType
    <2> QED  BY <2>2, <2>3
  <1>4. CASE UNCHANGED <<tcp_sessions_, obj, stationId_, handshakes, reply, struck>>
    BY <1>4 DEF serves
  <1> QED  BY <1>1, <1>2, <1>3, <1>4, DirectoryFrame

\* The maps, join, leave and the destructors implement StationDirectory: an id
\* has at most one session per kind, which serves it until it is destroyed or
\* struck out.
THEOREM ImplementsDirectory ==
    ASSUME MaxHandshakes = 1
    PROVE  Spec => DirectorySpec
  <1>1. Init => Directory!Init
    BY DEF Init, Directory!Init
  <1>2. DirectoryInv /\ [Next]_vars => [Directory!Next]_serves
    BY DirectoryStep DEF Directory!Next
  <1> QED  BY <1>1, <1>2, DirectoryInvariant, PTL DEF Spec, DirectorySpec, Directory!Spec, serves
----------------------------------------------------------------------------
(* The heartbeat.  That a session which reads after its ACK has one wait or   *)
(* handler of the ping timer rests on the timer being started once, by the    *)
(* one Handshake that is acknowledged, and on no session going back to        *)
(* reading after an error cancelled the waits: only the write of the server's *)
(* Handshake starts a chain of reads, and no peer is acknowledged before it.  *)

beats(s) == pingWaits[s] + pingFired[s]

Heartbeat ==
    \A s \in Session :
        /\ beats(s) <= 1
        /\ reply[s] # "ACK" => beats(s) = 0
        /\ reply[s] = "ACK" /\ op[s] \in {"read", "parse"} => beats(s) = 1
        /\ op[s] \in {"idle", "tls", "hello"} => reply[s] = "none"

LEMMA InitHeartbeat == Init => Heartbeat
  <1>1. ASSUME Init, NEW s \in Session
        PROVE  pingWaits[s] = 0 /\ pingFired[s] = 0 /\ reply[s] = "none"
    BY <1>1 DEF Init
  <1>2. ASSUME Init, NEW s \in Session
        PROVE  beats(s) = 0 /\ beats(s) <= 1 /\ reply[s] = "none"
    BY <1>1, <1>2 DEF beats
  <1> QED  BY <1>2 DEF Heartbeat

\* A step that leaves the timer and the answer alone, and lets no session that
\* was answered go on to read.
LEMMA HeartbeatFrame ==
    ASSUME Heartbeat, UNCHANGED <<pingWaits, pingFired, reply>>,
           \A s \in Session : \/ op'[s] = op[s]
                              \/ op'[s] \in {"stopped", "bad", "failed"}
                              \/ op[s] \in {"tls", "hello"} /\ op'[s] \in {"hello", "read"}
                              \/ op[s] \in {"read", "parse"} /\ op'[s] \in {"read", "parse"}
    PROVE  Heartbeat'
  BY DEF Heartbeat, beats

LEMMA HeartbeatStep ==
    ASSUME MaxHandshakes = 1, TypeInv, Registry, Heartbeat, [Next]_vars
    PROVE  Heartbeat'
  <1>1. /\ pingWaits \in [Session -> Nat] /\ pingFired \in [Session -> Nat]
        /\ op \in [Session -> Phase] /\ reply \in [Session -> {"none", "ACK", "NAK"}]
    BY DEF TypeInv, TypeOK, ReaderType, TimersType, StationType
  <1>2. ASSUME NEW s \in Session, Accept(s)
        PROVE  Heartbeat'
    BY <1>1, <1>2 DEF Accept, Heartbeat, beats
  <1>3. ASSUME NEW s \in Session, ReadError(s)
        PROVE  Heartbeat'
    <2>1. /\ op' = [op EXCEPT ![s] = "stopped"] /\ pingWaits' = [pingWaits EXCEPT ![s] = 0]
          /\ UNCHANGED <<pingFired, reply>>
      BY <1>3 DEF ReadError, stop, station
    <2> QED  BY <1>1, <2>1 DEF Heartbeat, beats
  <1>4. ASSUME NEW s \in Session, handleHandshakePacket(s)
        PROVE  Heartbeat'
    <2>1. reply[s] = "none" /\ op[s] = "parse" /\ op' = [op EXCEPT ![s] = "read"]
          /\ UNCHANGED pingFired
      BY <1>4, FirstHandshake DEF handleHandshakePacket, Parsing, Good
    <2>2. beats(s) = 0
      BY <2>1 DEF Heartbeat
    <2>3. CASE Valid(input_[s]) /\ joined(s, input_[s].id)
      <3>1. /\ pingWaits' = [pingWaits EXCEPT ![s] = @ + 1]
            /\ reply' = [reply EXCEPT ![s] = "ACK"]
        BY <1>4, <2>3 DEF handleHandshakePacket, startPingTimer
      <3> QED  BY <1>1, <2>1, <2>2, <3>1 DEF Heartbeat, beats
    <2>4. CASE ~(Valid(input_[s]) /\ joined(s, input_[s].id))
      <3>1. UNCHANGED pingWaits /\ reply' = [reply EXCEPT ![s] = "NAK"]
        BY <1>4, <2>4 DEF handleHandshakePacket
      <3> QED  BY <1>1, <2>1, <2>2, <3>1 DEF Heartbeat, beats
    <2> QED  BY <2>3, <2>4
  <1>5. ASSUME NEW s \in Session, PingExpire(s)
        PROVE  Heartbeat'
    <2>1. /\ pingFired' = [pingFired EXCEPT ![s] = @ + pingWaits[s]]
          /\ pingWaits' = [pingWaits EXCEPT ![s] = 0]
          /\ UNCHANGED <<op, reply>>
      BY <1>5 DEF PingExpire, reader, station
    <2> QED  BY <1>1, <2>1 DEF Heartbeat, beats
  <1>6. ASSUME NEW s \in Session, onPingTimeout(s)
        PROVE  Heartbeat'
    <2>1. /\ pingFired[s] > 0
          /\ pingFired' = [pingFired EXCEPT ![s] = @ - 1]
          /\ pingWaits' = [pingWaits EXCEPT ![s] = 1]
          /\ UNCHANGED <<op, reply>>
      BY <1>6 DEF onPingTimeout, restartPingTimer, reader, station
    <2>2. pingFired[s] = 1 /\ pingWaits[s] = 0
      BY <1>1, <2>1 DEF Heartbeat, beats
    <2> QED  BY <1>1, <2>1, <2>2 DEF Heartbeat, beats
  <1>7. ASSUME NEW s \in Session, WriteDone(s)
        PROVE  Heartbeat'
    <2>1. Head(writes[s]).pkt = "Handshake" => op[s] = "hello"
      <3>1. 1 \in DOMAIN writes[s] /\ Head(writes[s]) = writes[s][1]
        BY <1>7 DEF WriteDone, TypeInv, TypeOK, OutType
      <3> QED  BY <3>1 DEF TypeInv, Hello
    <2> QED  BY <1>1, <1>7, <2>1, HeartbeatFrame DEF WriteDone, station
  <1>8. ASSUME NEW s \in Session,
               WriteFail(s) \/ TlsHandshake(s) \/ ReadData(s) \/ handlePongPacket(s)
                   \/ handleWeatherStatusPacket(s) \/ handleUnknown(s)
        PROVE  Heartbeat'
    <2>1. UNCHANGED <<pingWaits, pingFired, reply>>
      BY <1>8 DEF WriteFail, TlsHandshake, ReadData, handlePongPacket, handleWeatherStatusPacket,
                  handleUnknown, station, timers
    <2>2. \A t \in Session \ {s} : op'[t] = op[t]
      BY <1>1, <1>8 DEF WriteFail, TlsHandshake, ReadData, handlePongPacket,
                        handleWeatherStatusPacket, handleUnknown, Good, Bad
    <2>3. \/ op'[s] = op[s]
          \/ op'[s] \in {"bad", "failed"}
          \/ op[s] = "tls" /\ op'[s] = "hello"
          \/ op[s] \in {"read", "parse"} /\ op'[s] \in {"read", "parse"}
      BY <1>1, <1>8 DEF WriteFail, TlsHandshake, ReadData, handlePongPacket, Parsing,
                        handleWeatherStatusPacket, handleUnknown, Good, Bad
    <2> QED  BY <2>1, <2>2, <2>3, HeartbeatFrame
  <1>9. ASSUME \/ \E s \in Session : \/ Destroy(s) \/ Transmit(s) \/ onShutdown(s) \/ PeerClose(s)
                                     \/ PongExpire(s) \/ onPongTimeout(s)
               \/ \E id \in StationId : WeatherRequest(id)
               \/ UNCHANGED vars
        PROVE  Heartbeat'
    <2>1. UNCHANGED <<op, pingWaits, pingFired, reply>>
      BY <1>9 DEF Destroy, Transmit, onShutdown, PeerClose, PongExpire, onPongTimeout,
                  WeatherRequest, vars, reader, station, timers
    <2> QED  BY <2>1, HeartbeatFrame
  <1> QED
    BY <1>2, <1>3, <1>4, <1>5, <1>6, <1>7, <1>8, <1>9 DEF Next, SessionStep, Parse

\* Where peers send one Handshake per connection, the heartbeat of a session
\* neither dies while it reads nor multiplies.
THEOREM HeartbeatIsOne ==
    ASSUME MaxHandshakes = 1
    PROVE  Spec => []OneHeartbeat
  <1> DEFINE I == TypeInv /\ Registry /\ Heartbeat
  <1>1. I /\ [Next]_vars => I'
    BY TypeInvStep, RegistryStep, HeartbeatStep
  <1>2. Init => I
    BY InitTypeInv, InitRegistry, InitHeartbeat
  <1>3. I => OneHeartbeat
    BY DEF Heartbeat, beats, OneHeartbeat
  <1> QED  BY <1>1, <1>2, <1>3, PTL DEF Spec
----------------------------------------------------------------------------
(* Whom the pong timer cuts off.  A Ping whose write has yet to complete will *)
(* start the timer, so it counts as a timer that runs.                        *)

Justified ==
    \A s \in Session :
        pongWait[s] \/ pongFired[s] \/ PingUnderWay(s) => owed[s] > 0 \/ crossed[s]

LEMMA InitJustified == Init => Justified
  BY DEF Init, Justified, PingUnderWay

\* A step that starts nothing and settles nothing.
LEMMA JustifiedFrame ==
    ASSUME Justified,
           \A s \in Session :
               /\ pongWait'[s] \/ pongFired'[s] => pongWait[s] \/ pongFired[s]
               /\ PingUnderWay(s)' => PingUnderWay(s)
               /\ owed'[s] = owed[s] /\ crossed'[s] = crossed[s]
    PROVE  Justified'
  BY DEF Justified

LEMMA SameWritesUnderWay ==
    ASSUME NEW s \in Session, writes'[s] = writes[s]
    PROVE  PingUnderWay(s)' = PingUnderWay(s)
  BY DEF PingUnderWay

\* A new write has not left yet.
LEMMA NewWriteUnderWay ==
    ASSUME OutType, NEW s \in Session, NEW pkt \in OutPacket, writePacket(s, pkt),
           NEW t \in Session, PingUnderWay(t)'
    PROVE  PingUnderWay(t)
  <1> DEFINE w == [pkt |-> pkt, sent |-> FALSE]
  <1>1. /\ writes[s] \in Seq(Write) /\ w \in Write /\ ~w.sent
        /\ writes' = [writes EXCEPT ![s] = Append(writes[s], w)]
    BY NewWrite DEF OutType, writePacket
  <1> HIDE DEF w
  <1>2. CASE t = s
    <2>1. writes'[s] = Append(writes[s], w)
      BY <1>1 DEF OutType
    <2>2. /\ DOMAIN writes'[s] = 1..(Len(writes[s]) + 1)
          /\ DOMAIN writes[s] = 1..Len(writes[s])
          /\ \A i \in 1..Len(writes[s]) : writes'[s][i] = writes[s][i]
          /\ writes'[s][Len(writes[s]) + 1] = w
      BY <1>1, <2>1, AppendProperties
    <2>3. PICK i \in DOMAIN writes'[s] : writes'[s][i].sent /\ writes'[s][i].pkt = "Ping"
      BY <1>2 DEF PingUnderWay
    <2>4. i \in 1..Len(writes[s])
      BY <1>1, <2>2, <2>3
    <2> QED  BY <1>2, <2>2, <2>3, <2>4 DEF PingUnderWay
  <1>3. CASE t # s
    BY <1>1, <1>3, SameWritesUnderWay DEF OutType
  <1> QED  BY <1>2, <1>3

\* What completes or fails is the first write; the others go on.
LEMMA TailUnderWay ==
    ASSUME OutType, NEW s \in Session, writes[s] # <<>>,
           writes' = [writes EXCEPT ![s] = Tail(writes[s])],
           NEW t \in Session, PingUnderWay(t)'
    PROVE  PingUnderWay(t)
  <1>1. CASE t = s
    <2>1. writes'[s] = Tail(writes[s]) /\ writes[s] \in Seq(Write)
      BY DEF OutType
    <2>2. /\ DOMAIN writes[s] = 1..Len(writes[s])
          /\ DOMAIN Tail(writes[s]) = 1..(Len(writes[s]) - 1)
          /\ \A i \in DOMAIN Tail(writes[s]) : Tail(writes[s])[i] = writes[s][i + 1]
      BY <2>1, HeadTailProperties
    <2>3. PICK i \in DOMAIN writes'[s] : writes'[s][i].sent /\ writes'[s][i].pkt = "Ping"
      BY <1>1 DEF PingUnderWay
    <2>4. Len(writes[s]) \in Nat
      BY <2>1
    <2>5. i + 1 \in DOMAIN writes[s] /\ writes'[s][i] = writes[s][i + 1]
      <3>1. i \in 1..(Len(writes[s]) - 1)
        BY <2>1, <2>2
      <3>2. i + 1 \in 1..Len(writes[s])
        BY <2>4, <3>1
      <3>3. writes'[s][i] = writes[s][i + 1]
        BY <2>1, <2>2
      <3> QED  BY <2>2, <3>2, <3>3
    <2>6. writes[s][i + 1].sent /\ writes[s][i + 1].pkt = "Ping"
      BY <2>3, <2>5
    <2>7. PingUnderWay(s)
      BY <2>5, <2>6 DEF PingUnderWay
    <2> QED  BY <1>1, <2>7
  <1>2. CASE t # s
    BY <1>2, SameWritesUnderWay DEF OutType
  <1> QED  BY <1>1, <1>2

LEMMA JustifiedStep ==
    ASSUME TypeInv, Justified, [Next]_vars
    PROVE  Justified'
  <1>1. /\ OutType /\ owed \in [Session -> 0..MaxOwed] /\ crossed \in [Session -> BOOLEAN]
        /\ pongWait \in [Session -> BOOLEAN] /\ pongFired \in [Session -> BOOLEAN]
        /\ writes \in [Session -> Seq(Write)]
    BY DEF TypeInv, TypeOK, TimersType, OutType
  <1>2. ASSUME NEW s \in Session, Accept(s)
        PROVE  Justified'
    <2>1. /\ pongWait' = [pongWait EXCEPT ![s] = FALSE]
          /\ pongFired' = [pongFired EXCEPT ![s] = FALSE]
          /\ owed' = [owed EXCEPT ![s] = 0] /\ crossed' = [crossed EXCEPT ![s] = FALSE]
          /\ writes' = [writes EXCEPT ![s] = IF s \in SSLSession THEN <<>>
                                              ELSE <<[pkt |-> "Handshake", sent |-> FALSE]>>]
      BY <1>2 DEF Accept
    <2>2. \A t \in Session \ {s} : writes'[t] = writes[t]
      BY <1>1, <2>1
    <2>3. writes'[s] = <<>> \/ writes'[s] = <<[pkt |-> "Handshake", sent |-> FALSE]>>
      BY <1>1, <2>1
    <2>4. ~PingUnderWay(s)'
      BY <2>3 DEF PingUnderWay
    <2> QED  BY <1>1, <2>1, <2>2, <2>4, SameWritesUnderWay DEF Justified
  <1>3. ASSUME NEW s \in Session, Transmit(s)
        PROVE  Justified'
    <2>1. PICK i \in DOMAIN writes[s] :
              /\ writes' = [writes EXCEPT ![s][i].sent = TRUE]
              /\ crossed' = [crossed EXCEPT ![s] =
                                @ \/ (writes[s][i].pkt = "Ping" /\ output_[s] # "Ping")]
      BY <1>3 DEF Transmit
    <2>2. /\ owed' = [owed EXCEPT ![s] =
                        IF output_[s] = "Ping" /\ @ < MaxOwed THEN @ + 1 ELSE @]
          /\ UNCHANGED <<pongWait, pongFired>>
      BY <1>3 DEF Transmit, timers
    <2>3. \A t \in Session \ {s} : /\ writes'[t] = writes[t] /\ owed'[t] = owed[t]
                                     /\ crossed'[t] = crossed[t]
      BY <1>1, <2>1, <2>2
    <2>4. /\ writes'[s] = [writes[s] EXCEPT ![i].sent = TRUE]
          /\ owed[s] > 0 \/ output_[s] = "Ping" => owed'[s] > 0
          /\ crossed'[s] = (crossed[s] \/ (writes[s][i].pkt = "Ping" /\ output_[s] # "Ping"))
      <3>1. owed'[s] = IF output_[s] = "Ping" /\ owed[s] < MaxOwed THEN owed[s] + 1 ELSE owed[s]
        BY <1>1, <2>2
      <3>2. owed[s] \in Nat /\ MaxOwed \in Nat \ {0}
        BY <1>1, SessionAssumption
      <3>3. owed[s] > 0 \/ output_[s] = "Ping" => owed'[s] > 0
        BY <3>1, <3>2
      <3> QED  BY <1>1, <2>1, <2>2, <3>3
    <2>5. ASSUME PingUnderWay(s)'
          PROVE  PingUnderWay(s) \/ writes[s][i].pkt = "Ping"
      <3>1. PICK j \in DOMAIN writes'[s] : writes'[s][j].sent /\ writes'[s][j].pkt = "Ping"
        BY <2>5 DEF PingUnderWay
      <3>2. DOMAIN writes'[s] = DOMAIN writes[s] /\ writes[s][i] \in Write
        BY <1>1, <2>4
      <3>3. CASE j = i
        BY <2>4, <3>1, <3>2, <3>3 DEF Write
      <3>4. CASE j # i
        BY <2>4, <3>1, <3>2, <3>4 DEF PingUnderWay
      <3> QED  BY <3>3, <3>4
    <2>6. pongWait'[s] \/ pongFired'[s] \/ PingUnderWay(s)' => owed'[s] > 0 \/ crossed'[s]
      BY <2>2, <2>4, <2>5 DEF Justified
    <2> QED  BY <2>2, <2>3, <2>6, SameWritesUnderWay DEF Justified
  <1>4. ASSUME NEW s \in Session, WriteDone(s)
        PROVE  Justified'
    <2>1. /\ writes[s] # <<>> /\ writes' = [writes EXCEPT ![s] = Tail(writes[s])]
          /\ pongWait' = [pongWait EXCEPT ![s] = @ \/ Head(writes[s]).pkt = "Ping"]
          /\ Head(writes[s]).sent /\ UNCHANGED <<pongFired, owed, crossed>>
      BY <1>4 DEF WriteDone, startPongTimer, pings
    <2>2. \A t \in Session : PingUnderWay(t)' => PingUnderWay(t)
      BY <1>1, <2>1, TailUnderWay
    <2>3. Head(writes[s]).pkt = "Ping" => PingUnderWay(s)
      <3>1. 1 \in DOMAIN writes[s] /\ Head(writes[s]) = writes[s][1]
        BY <1>1, <2>1
      <3> QED  BY <2>1, <3>1 DEF PingUnderWay
    <2> QED  BY <1>1, <2>1, <2>2, <2>3 DEF Justified
  <1>5. ASSUME NEW s \in Session, handlePongPacket(s)
        PROVE  Justified'
    <2>1. /\ pongWait' = [pongWait EXCEPT ![s] = FALSE]
          /\ owed' = [owed EXCEPT ![s] = @ - 1]
          /\ crossed' = [crossed EXCEPT ![s] =
                            @ \/ (owed[s] = 1 /\ (pongFired[s] \/ PingUnderWay(s)))]
          /\ UNCHANGED <<pongFired, writes>>
      BY <1>5 DEF handlePongPacket, cancelPongTimer
    <2>2. \A t \in Session : PingUnderWay(t)' = PingUnderWay(t)
      BY <2>1, SameWritesUnderWay
    <2>3. ASSUME NEW t \in Session \ {s}
          PROVE  /\ pongWait'[t] = pongWait[t] /\ owed'[t] = owed[t]
                 /\ crossed'[t] = crossed[t]
      BY <1>1, <2>1
    <2>4. /\ ~pongWait'[s]
          /\ pongFired[s] \/ PingUnderWay(s) => owed'[s] > 0 \/ crossed'[s]
      <3>1. ~pongWait'[s] /\ owed'[s] = owed[s] - 1 /\ owed[s] \in Nat
        BY <1>1, <2>1, SessionAssumption
      <3>2. owed[s] > 0
        BY <1>5 DEF handlePongPacket, Parsing, TypeInv, Budget
      <3>3. CASE owed[s] = 1
        BY <1>1, <2>1, <3>1, <3>3
      <3>4. CASE owed[s] # 1
        BY <3>1, <3>2, <3>4
      <3> QED  BY <3>1, <3>3, <3>4
    <2> QED  BY <2>1, <2>2, <2>3, <2>4 DEF Justified
  <1>6. ASSUME NEW s \in Session, WriteFail(s)
        PROVE  Justified'
    <2>1. /\ writes[s] # <<>> /\ writes' = [writes EXCEPT ![s] = Tail(writes[s])]
          /\ UNCHANGED <<pongWait, pongFired, owed, crossed>>
      BY <1>6 DEF WriteFail, timers, pings
    <2>2. \A t \in Session : PingUnderWay(t)' => PingUnderWay(t)
      BY <1>1, <2>1, TailUnderWay
    <2> QED  BY <2>1, <2>2, JustifiedFrame
  <1>7. ASSUME NEW s \in Session, PongExpire(s) \/ onPongTimeout(s) \/ ReadError(s)
        PROVE  Justified'
    <2>1. /\ \A t \in Session : pongWait'[t] \/ pongFired'[t] => pongWait[t] \/ pongFired[t]
          /\ UNCHANGED <<writes, owed, crossed>>
      BY <1>1, <1>7 DEF PongExpire, onPongTimeout, ReadError, stop, out, pings
    <2> QED  BY <2>1, SameWritesUnderWay, JustifiedFrame
  <1>8. ASSUME NEW s \in Session,
               \/ \E pkt \in OutPacket : writePacket(s, pkt)
               \/ UNCHANGED writes,
               UNCHANGED <<pongWait, pongFired, owed, crossed>>
        PROVE  Justified'
    <2>1. \A t \in Session : PingUnderWay(t)' => PingUnderWay(t)
      BY <1>1, <1>8, NewWriteUnderWay, SameWritesUnderWay
    <2> QED  BY <1>8, <2>1, JustifiedFrame
  <1>9. ASSUME NEW s \in Session,
               TlsHandshake(s) \/ handleHandshakePacket(s) \/ onPingTimeout(s)
        PROVE  Justified'
    <2>1. /\ \/ \E pkt \in OutPacket : writePacket(s, pkt)
             \/ UNCHANGED writes
          /\ UNCHANGED <<pongWait, pongFired, owed, crossed>>
      BY <1>9 DEF TlsHandshake, handleHandshakePacket, onPingTimeout, timers, pings, OutPacket
    <2> QED  BY <1>8, <2>1
  <1>10. ASSUME NEW id \in StationId, WeatherRequest(id)
         PROVE  Justified'
    <2>1. PICK s \in findStation(id, Lockable) : writePacket(s, "WeatherStatus")
      BY <1>10 DEF WeatherRequest
    <2>2. s \in Session /\ UNCHANGED <<pongWait, pongFired, owed, crossed>>
      BY <1>10, <2>1 DEF WeatherRequest, findStation, Lockable, timers, pings
    <2> QED  BY <1>8, <2>1, <2>2 DEF OutPacket
  <1>11. ASSUME \/ \E s \in Session :
                      \/ Destroy(s) \/ onShutdown(s) \/ PeerClose(s) \/ ReadData(s)
                      \/ handleWeatherStatusPacket(s) \/ handleUnknown(s) \/ PingExpire(s)
                \/ UNCHANGED vars
         PROVE  Justified'
    <2>1. UNCHANGED <<pongWait, pongFired, writes, owed, crossed>>
      BY <1>11 DEF Destroy, onShutdown, PeerClose, ReadData, handleWeatherStatusPacket,
                   handleUnknown, PingExpire, vars, timers, out, pings
    <2> QED  BY <2>1, SameWritesUnderWay, JustifiedFrame
  <1> QED
    BY <1>2, <1>3, <1>4, <1>5, <1>6, <1>7, <1>9, <1>10, <1>11 DEF Next, SessionStep, Parse

\* The heartbeat cuts off a peer that answers only where a Ping and its timer
\* missed each other.
THEOREM AnsweringIsKept == Spec => []AnsweringPeerKept
  <1> DEFINE I == TypeInv /\ Justified
  <1>1. I /\ [Next]_vars => I'
    BY TypeInvStep, JustifiedStep
  <1>2. Init => I
    BY InitTypeInv, InitJustified
  <1>3. I => AnsweringPeerKept
    BY DEF Justified, AnsweringPeerKept
  <1> QED  BY <1>1, <1>2, <1>3, PTL DEF Spec
----------------------------------------------------------------------------
(* A silent peer is timed.  The peer may receive a Ping where another packet    *)
(* was given, as the buffer holds the packet given last; that packet's write  *)
(* is the last in flight (LastGiven), so a Ping that is sent is a Ping whose  *)
(* write has yet to complete and start the timer.  Any Pong ends the silence  *)
(* and the timer together, so nothing is said of a second Ping that is still  *)
(* to be answered: the timer it needs comes with the next Ping.               *)

LastGiven ==
    \A s \in Session : writes[s] # <<>> => writes[s][Len(writes[s])].pkt = output_[s]

PingGiven(s) == \E i \in DOMAIN writes[s] : writes[s][i].pkt = "Ping"

LEMMA InitTimed == Init => LastGiven /\ SilenceIsTimed
  BY DEF Init, LastGiven, SilenceIsTimed, TimedOrSoon

LEMMA SameWritesGiven ==
    ASSUME NEW s \in Session, writes'[s] = writes[s]
    PROVE  PingGiven(s)' = PingGiven(s)
  BY DEF PingGiven

\* A step that settles no Ping and makes none owed.
LEMMA TimedFrame ==
    ASSUME SilenceIsTimed,
           \A s \in Session :
               /\ unheard'[s] => unheard[s]
               /\ conn'[s] = "open" /\ ~gone'[s] => conn[s] = "open" /\ ~gone[s]
               /\ pongWait[s] \/ pongFired[s] \/ PingGiven(s)
                      => pongWait'[s] \/ pongFired'[s] \/ PingGiven(s)'
    PROVE  SilenceIsTimed'
  BY DEF SilenceIsTimed, TimedOrSoon, PingGiven

\* writePacket gives the buffer and the last write one packet.
LEMMA WriteGiven ==
    ASSUME OutType, LastGiven, NEW s \in Session, NEW pkt \in OutPacket, writePacket(s, pkt)
    PROVE  LastGiven' /\ \A t \in Session : PingGiven(t) => PingGiven(t)'
  <1> DEFINE w == [pkt |-> pkt, sent |-> FALSE]
  <1>1. /\ writes[s] \in Seq(Write) /\ w \in Write /\ w.pkt = pkt
        /\ writes' = [writes EXCEPT ![s] = Append(writes[s], w)]
        /\ output_' = [output_ EXCEPT ![s] = pkt]
    BY NewWrite DEF OutType, writePacket
  <1> HIDE DEF w
  <1>2. writes'[s] = Append(writes[s], w) /\ output_'[s] = pkt
    BY <1>1 DEF OutType
  <1>3. /\ Len(writes'[s]) = Len(writes[s]) + 1 /\ writes'[s][Len(writes[s]) + 1] = w
        /\ DOMAIN writes'[s] = 1..(Len(writes[s]) + 1)
        /\ DOMAIN writes[s] = 1..Len(writes[s])
        /\ Len(writes[s]) \in Nat
        /\ \A i \in 1..Len(writes[s]) : writes'[s][i] = writes[s][i]
    BY <1>1, <1>2, AppendProperties
  <1>4. ASSUME NEW t \in Session, t # s
        PROVE  writes'[t] = writes[t] /\ output_'[t] = output_[t]
    BY <1>1, <1>4 DEF OutType
  <1>5. LastGiven'
    BY <1>1, <1>2, <1>3, <1>4 DEF LastGiven
  <1>6. PingGiven(s) => PingGiven(s)'
    <2>1. DOMAIN writes[s] \subseteq DOMAIN writes'[s]
      BY <1>3
    <2> QED  BY <1>3, <2>1 DEF PingGiven
  <1>7. \A t \in Session : PingGiven(t) => PingGiven(t)'
    BY <1>4, <1>6, SameWritesGiven
  <1> QED  BY <1>5, <1>7

\* The first write goes; a Ping goes with it only when it is the first.
LEMMA TailGiven ==
    ASSUME OutType, LastGiven, NEW s \in Session, writes[s] # <<>>,
           writes' = [writes EXCEPT ![s] = Tail(writes[s])], UNCHANGED output_
    PROVE  /\ LastGiven'
           /\ \A t \in Session : t # s \/ Head(writes[s]).pkt # "Ping" =>
                                     (PingGiven(t) => PingGiven(t)')
  <1>1. writes'[s] = Tail(writes[s]) /\ writes[s] \in Seq(Write) /\ Len(writes[s]) \in Nat
    BY DEF OutType
  <1>2. /\ DOMAIN writes[s] = 1..Len(writes[s]) /\ Head(writes[s]) = writes[s][1]
        /\ Len(writes'[s]) = Len(writes[s]) - 1 /\ Len(writes[s]) > 0
        /\ DOMAIN writes'[s] = 1..(Len(writes[s]) - 1)
        /\ \A i \in 1..(Len(writes[s]) - 1) : writes'[s][i] = writes[s][i + 1]
    <2>1. /\ Tail(writes[s]) \in Seq(Write) /\ Len(Tail(writes[s])) = Len(writes[s]) - 1
          /\ \A i \in 1..Len(Tail(writes[s])) : Tail(writes[s])[i] = writes[s][i + 1]
      BY <1>1, HeadTailProperties
    <2>2. DOMAIN Tail(writes[s]) = 1..Len(Tail(writes[s]))
      BY <2>1
    <2>3. /\ DOMAIN writes[s] = 1..Len(writes[s]) /\ Head(writes[s]) = writes[s][1]
          /\ Len(writes[s]) > 0
      BY <1>1
    <2> QED  BY <1>1, <2>1, <2>2, <2>3
  <1>3. ASSUME NEW t \in Session, t # s
        PROVE  writes'[t] = writes[t]
    BY <1>3 DEF OutType
  <1>4. LastGiven'
    <2>1. ASSUME writes'[s] # <<>>
          PROVE  writes'[s][Len(writes'[s])] = writes[s][Len(writes[s])]
      <3>1. Len(writes'[s]) > 0
        BY <1>1, <1>2, <2>1
      <3>2. Len(writes'[s]) \in 1..(Len(writes[s]) - 1) /\ Len(writes'[s]) + 1 = Len(writes[s])
        BY <1>1, <1>2, <3>1
      <3> QED  BY <1>2, <3>2
    <2> QED  BY <1>3, <2>1 DEF LastGiven
  <1>5. ASSUME Head(writes[s]).pkt # "Ping", PingGiven(s)
        PROVE  PingGiven(s)'
    <2>1. PICK i \in 1..Len(writes[s]) : writes[s][i].pkt = "Ping"
      BY <1>2, <1>5 DEF PingGiven
    <2>2. i # 1
      BY <1>2, <1>5, <2>1
    <2>3. i - 1 \in 1..(Len(writes[s]) - 1) /\ (i - 1) + 1 = i
      BY <1>1, <2>1, <2>2
    <2>4. writes'[s][i - 1].pkt = "Ping"
      BY <1>2, <2>1, <2>3
    <2> QED  BY <1>2, <2>3, <2>4 DEF PingGiven
  <1>6. \A t \in Session : t # s => PingGiven(t)' = PingGiven(t)
    BY <1>3, SameWritesGiven
  <1> QED  BY <1>4, <1>5, <1>6

LEMMA TimedStep ==
    ASSUME TypeInv, LastGiven, SilenceIsTimed, [Next]_vars
    PROVE  LastGiven' /\ SilenceIsTimed'
  <1>1. /\ OutType /\ unheard \in [Session -> BOOLEAN] /\ writes \in [Session -> Seq(Write)]
        /\ output_ \in [Session -> OutPacket]
        /\ pongWait \in [Session -> BOOLEAN] /\ pongFired \in [Session -> BOOLEAN]
        /\ conn \in [Session -> {"open", "closing", "closed"}] /\ gone \in [Session -> BOOLEAN]
    BY DEF TypeInv, TypeOK, TimersType, LinkType, OutType
  <1>2. ASSUME NEW s \in Session, Accept(s)
        PROVE  LastGiven' /\ SilenceIsTimed'
    <2>1. /\ unheard' = [unheard EXCEPT ![s] = FALSE]
          /\ pongWait' = [pongWait EXCEPT ![s] = FALSE]
          /\ pongFired' = [pongFired EXCEPT ![s] = FALSE]
          /\ conn' = [conn EXCEPT ![s] = "open"] /\ gone' = [gone EXCEPT ![s] = FALSE]
          /\ output_' = [output_ EXCEPT ![s] = "Handshake"]
          /\ writes' = [writes EXCEPT ![s] = IF s \in SSLSession THEN <<>>
                                              ELSE <<[pkt |-> "Handshake", sent |-> FALSE]>>]
      BY <1>2 DEF Accept
    <2>2. ASSUME NEW t \in Session \ {s}
          PROVE  /\ writes'[t] = writes[t] /\ unheard'[t] = unheard[t] /\ output_'[t] = output_[t]
                 /\ conn'[t] = conn[t] /\ gone'[t] = gone[t]
                 /\ pongWait'[t] = pongWait[t] /\ pongFired'[t] = pongFired[t]
      BY <1>1, <2>1
    <2>3. /\ ~unheard'[s] /\ output_'[s] = "Handshake"
          /\ writes'[s] = <<>> \/ writes'[s] = <<[pkt |-> "Handshake", sent |-> FALSE]>>
      BY <1>1, <2>1
    <2>4. writes'[s] # <<>> => writes'[s][Len(writes'[s])].pkt = output_'[s]
      BY <2>3
    <2>5. LastGiven'
      BY <2>2, <2>4 DEF LastGiven
    <2> QED  BY <2>2, <2>3, <2>5 DEF SilenceIsTimed, TimedOrSoon
  <1>3. ASSUME NEW s \in Session, Transmit(s)
        PROVE  LastGiven' /\ SilenceIsTimed'
    <2>1. PICK i \in DOMAIN writes[s] : writes' = [writes EXCEPT ![s][i].sent = TRUE]
      BY <1>3 DEF Transmit
    <2>2. /\ unheard' = [unheard EXCEPT ![s] = @ \/ output_[s] = "Ping"]
          /\ UNCHANGED <<output_, conn, gone, pongWait, pongFired>>
      BY <1>3 DEF Transmit, timers, link
    <2>3. ASSUME NEW t \in Session \ {s}
          PROVE  writes'[t] = writes[t] /\ unheard'[t] = unheard[t]
      BY <1>1, <2>1, <2>2
    <2>4. /\ writes'[s] = [writes[s] EXCEPT ![i].sent = TRUE]
          /\ unheard'[s] = (unheard[s] \/ output_[s] = "Ping")
      BY <1>1, <2>1, <2>2
    <2>5. /\ DOMAIN writes'[s] = DOMAIN writes[s] /\ Len(writes'[s]) = Len(writes[s])
          /\ \A j \in DOMAIN writes[s] : writes'[s][j].pkt = writes[s][j].pkt
      BY <1>1, <2>4 DEF Write
    <2>6. writes[s] # <<>> /\ Len(writes[s]) \in DOMAIN writes[s]
      BY <1>1
    <2>7. writes[s][Len(writes[s])].pkt = output_[s]
      BY <2>6 DEF LastGiven
    <2>8. LastGiven'
      BY <2>2, <2>3, <2>5, <2>6, <2>7 DEF LastGiven
    <2>9. PingGiven(s) => PingGiven(s)'
      BY <2>5 DEF PingGiven
    <2>10. output_[s] = "Ping" => PingGiven(s)'
      BY <2>5, <2>6, <2>7 DEF PingGiven
    <2>11. unheard'[s] /\ conn[s] = "open" /\ ~gone[s] =>
               pongWait[s] \/ pongFired[s] \/ PingGiven(s)'
      BY <2>4, <2>9, <2>10 DEF SilenceIsTimed, TimedOrSoon, PingGiven
    <2>12. ASSUME NEW t \in Session, unheard'[t], conn[t] = "open", ~gone[t]
           PROVE  pongWait[t] \/ pongFired[t] \/ PingGiven(t)'
      <3>1. CASE t = s
        BY <2>11, <2>12, <3>1
      <3>2. CASE t # s
        BY <2>3, <2>12, <3>2, SameWritesGiven DEF SilenceIsTimed, TimedOrSoon, PingGiven
      <3> QED  BY <3>1, <3>2
    <2>13. SilenceIsTimed'
      BY <2>2, <2>12 DEF SilenceIsTimed, TimedOrSoon, PingGiven
    <2> QED  BY <2>8, <2>13
  <1>4. ASSUME NEW s \in Session, WriteDone(s)
        PROVE  LastGiven' /\ SilenceIsTimed'
    <2>1. /\ writes[s] # <<>> /\ writes' = [writes EXCEPT ![s] = Tail(writes[s])]
          /\ pongWait' = [pongWait EXCEPT ![s] = @ \/ Head(writes[s]).pkt = "Ping"]
          /\ UNCHANGED <<pongFired, unheard, output_, conn, gone>>
      BY <1>4 DEF WriteDone, startPongTimer, link, pings
    <2>2. /\ LastGiven'
          /\ \A t \in Session : t # s \/ Head(writes[s]).pkt # "Ping" =>
                                    (PingGiven(t) => PingGiven(t)')
      BY <1>1, <2>1, TailGiven
    <2>3. /\ \A t \in Session \ {s} : pongWait'[t] = pongWait[t]
          /\ pongWait'[s] = (pongWait[s] \/ Head(writes[s]).pkt = "Ping")
      BY <1>1, <2>1
    <2> QED  BY <2>1, <2>2, <2>3, TimedFrame
  <1>5. ASSUME NEW s \in Session, WriteFail(s)
        PROVE  LastGiven' /\ SilenceIsTimed'
    <2>1. /\ writes[s] # <<>> /\ writes' = [writes EXCEPT ![s] = Tail(writes[s])]
          /\ ~(conn[s] = "open" /\ ~gone[s])
          /\ UNCHANGED <<pongWait, pongFired, unheard, output_, conn, gone>>
      BY <1>5 DEF WriteFail, link, timers, pings
    <2>2. /\ LastGiven'
          /\ \A t \in Session \ {s} : PingGiven(t) => PingGiven(t)'
      BY <1>1, <2>1, TailGiven
    <2> QED  BY <2>1, <2>2 DEF SilenceIsTimed, TimedOrSoon, PingGiven
  <1>6. ASSUME NEW s \in Session, handlePongPacket(s)
        PROVE  LastGiven' /\ SilenceIsTimed'
    <2>1. /\ pongWait' = [pongWait EXCEPT ![s] = FALSE]
          /\ unheard' = [unheard EXCEPT ![s] = FALSE]
          /\ UNCHANGED <<pongFired, writes, output_, conn, gone>>
      BY <1>6 DEF handlePongPacket, cancelPongTimer, link
    <2>2. ASSUME NEW t \in Session \ {s}
          PROVE  pongWait'[t] = pongWait[t] /\ unheard'[t] = unheard[t]
      BY <1>1, <2>1
    <2>3. ~unheard'[s]
      BY <1>1, <2>1
    <2> QED  BY <2>1, <2>2, <2>3 DEF LastGiven, SilenceIsTimed, TimedOrSoon
  <1>7. ASSUME NEW s \in Session, PongExpire(s)
        PROVE  LastGiven' /\ SilenceIsTimed'
    <2>1. /\ pongWait' = [pongWait EXCEPT ![s] = FALSE]
          /\ pongFired' = [pongFired EXCEPT ![s] = TRUE]
          /\ UNCHANGED <<writes, output_, unheard, conn, gone>>
      BY <1>7 DEF PongExpire, out, link, pings
    <2> QED  BY <1>1, <2>1 DEF LastGiven, SilenceIsTimed, TimedOrSoon
  <1>8. ASSUME NEW s \in Session, onPongTimeout(s) \/ ReadError(s)
        PROVE  LastGiven' /\ SilenceIsTimed'
    <2>1. /\ conn'[s] # "open"
          /\ \A t \in Session \ {s} : /\ conn'[t] = conn[t] /\ pongWait'[t] = pongWait[t]
                                        /\ pongFired'[t] = pongFired[t]
          /\ UNCHANGED <<writes, output_, unheard, gone>>
      BY <1>1, <1>8 DEF onPongTimeout, ReadError, disconnect, PlainDisconnect, SSLDisconnect,
                        stop, out, pings
    <2> QED  BY <2>1 DEF LastGiven, SilenceIsTimed, TimedOrSoon
  <1>9. ASSUME NEW s \in Session, Destroy(s) \/ onShutdown(s) \/ PeerClose(s)
        PROVE  LastGiven' /\ SilenceIsTimed'
    <2>1. /\ \A t \in Session : conn'[t] = "open" /\ ~gone'[t] => conn[t] = "open" /\ ~gone[t]
          /\ UNCHANGED <<writes, output_, unheard, pongWait, pongFired>>
      BY <1>1, <1>9 DEF Destroy, onShutdown, PeerClose, out, timers, pings
    <2>2. \A t \in Session : PingGiven(t)' = PingGiven(t)
      BY <2>1, SameWritesGiven
    <2> QED  BY <2>1, <2>2, TimedFrame DEF LastGiven
  <1>10. ASSUME NEW s \in Session, NEW pkt \in OutPacket, writePacket(s, pkt),
                UNCHANGED <<unheard, conn, gone, pongWait, pongFired>>
         PROVE  LastGiven' /\ SilenceIsTimed'
    BY <1>1, <1>10, WriteGiven, TimedFrame
  <1>11. ASSUME UNCHANGED <<writes, output_, unheard, conn, gone, pongWait, pongFired>>
         PROVE  LastGiven' /\ SilenceIsTimed'
    BY <1>11 DEF LastGiven, SilenceIsTimed, TimedOrSoon
  <1>12. ASSUME NEW s \in Session,
                TlsHandshake(s) \/ handleHandshakePacket(s) \/ onPingTimeout(s)
         PROVE  LastGiven' /\ SilenceIsTimed'
    <2>1. /\ \/ \E pkt \in OutPacket : writePacket(s, pkt)
             \/ UNCHANGED <<writes, output_>>
          /\ UNCHANGED <<unheard, conn, gone, pongWait, pongFired>>
      BY <1>12 DEF TlsHandshake, handleHandshakePacket, onPingTimeout, timers, link, pings, OutPacket
    <2> QED  BY <1>10, <1>11, <2>1
  <1>13. ASSUME NEW id \in StationId, WeatherRequest(id)
         PROVE  LastGiven' /\ SilenceIsTimed'
    <2>1. PICK s \in findStation(id, Lockable) : writePacket(s, "WeatherStatus")
      BY <1>13 DEF WeatherRequest
    <2>2. s \in Session /\ UNCHANGED <<unheard, conn, gone, pongWait, pongFired>>
      BY <1>13, <2>1 DEF WeatherRequest, findStation, Lockable, timers, link, pings
    <2> QED  BY <1>10, <2>1, <2>2 DEF OutPacket
  <1>14. ASSUME \/ \E s \in Session : \/ ReadData(s) \/ handleWeatherStatusPacket(s)
                                      \/ handleUnknown(s) \/ PingExpire(s)
                \/ UNCHANGED vars
         PROVE  LastGiven' /\ SilenceIsTimed'
    BY <1>11, <1>14 DEF ReadData, handleWeatherStatusPacket, handleUnknown, PingExpire, vars,
                        timers, out, link, pings
  <1> QED
    BY <1>2, <1>3, <1>4, <1>5, <1>6, <1>7, <1>8, <1>9, <1>12, <1>13, <1>14
       DEF Next, SessionStep, Parse

\* While nothing was heard of a peer since a Ping reached it on a connection that
\* stands, its timer runs or is about to be started, whatever else is written to
\* it and read from it.
THEOREM SilenceTimed == Spec => []SilenceIsTimed
  <1> DEFINE I == TypeInv /\ LastGiven /\ SilenceIsTimed
  <1>1. I /\ [Next]_vars => I'
    BY TypeInvStep, TimedStep
  <1>2. Init => I
    BY InitTypeInv, InitTimed
  <1>3. I => SilenceIsTimed
    OBVIOUS
  <1> QED  BY <1>1, <1>2, <1>3, PTL DEF Spec
============================================================================
