CONSTANTS
    p1 = p1
    p2 = p2
    t1 = t1
    Goe = Goe
    Wf = Wf
    Session <- TwoPlainAndTLS
    SSLSession = {t1}
    StationId = {Goe}
    None = None
    InvalidId = InvalidId
    Garbage <- AnyByte
    Packets <- Few
    MaxHandshakes = 1
    MaxWrites = 1
    MaxOwed = 1
SPECIFICATION Spec
CONSTRAINT QuietTimers
INVARIANTS RegistryConsistent AckedUnlessStruck RequestsReachStation
PROPERTY DirectorySpec
