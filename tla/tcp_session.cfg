CONSTANTS
    p1 = p1
    p2 = p2
    t1 = t1
    Goe = Goe
    Wf = Wf
    Session <- OneTLS
    SSLSession = {t1}
    StationId = {Goe}
    None = None
    InvalidId = InvalidId
    Garbage <- AnyByte
    Packets <- Anything
    MaxHandshakes = 1
    MaxWrites = 2
    MaxOwed = 2
SPECIFICATION FairSpec
INVARIANTS TypeOK RegistryConsistent OneHeartbeat AnsweringPeerKept SilenceIsTimed
PROPERTIES PingAnsweredOrCut UnackedReclaimed
