CONSTANTS
    p1 = p1
    p2 = p2
    t1 = t1
    Goe = Goe
    Wf = Wf
    Session <- TwoPlain
    SSLSession = {}
    StationId = {Goe}
    None = None
    InvalidId = InvalidId
    Garbage <- AnyByte
    Packets <- Conforming
    MaxHandshakes = 1
    MaxWrites = 1
    MaxOwed = 1
SPECIFICATION Spec
INVARIANT AckedRegistered
