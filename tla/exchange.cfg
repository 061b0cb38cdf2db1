CONSTANTS
    p1 = p1
    p2 = p2
    t1 = t1
    Goe = Goe
    Wf = Wf
    f1 = f1
    f2 = f2
    Session <- OnePlain
    SSLSession = {}
    StationId = {Goe, Wf}
    None = None
    InvalidId = InvalidId
    Garbage <- AnyByte
    Frontend = {f1, f2}
    Requests <- TwoStations
    MaxAsked = 2
SPECIFICATION Spec
INVARIANTS TypeOK AskedStationsOnly AnsweredAtMostOnce
PROPERTY ServiceSpec
\* Devices and frontends may stop, and so may a process that used freed memory.
CHECK_DEADLOCK FALSE
