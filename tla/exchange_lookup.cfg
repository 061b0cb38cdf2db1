CONSTANTS
    p1 = p1
    p2 = p2
    t1 = t1
    Goe = Goe
    Wf = Wf
    f1 = f1
    f2 = f2
    Session <- Three
    SSLSession = {t1}
    StationId = {Goe, Wf}
    None = None
    InvalidId = InvalidId
    Garbage <- Zero
    Frontend = {f1}
    Requests <- OneStation
    MaxAsked = 1
SPECIFICATION Spec
INVARIANTS FoundServesUnlessDangled SteadyStationFound
\* Devices and frontends may stop, and so may a process that used freed memory.
CHECK_DEADLOCK FALSE
