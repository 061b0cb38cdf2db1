CONSTANTS
    p1 = p1
    p2 = p2
    t1 = t1
    Goe = Goe
    Wf = Wf
    Session <- OnePlain
    SSLSession = {}
    StationId = {Goe}
    None = None
    InvalidId = InvalidId
    Garbage <- Benign
    Packets <- Conforming
    MaxHandshakes = 1
    MaxWrites = 1
    MaxOwed = 2
SPECIFICATION FairSpec
PROPERTY LifetimeEnds
