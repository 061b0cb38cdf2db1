CONSTANTS
    p1 = p1
    p2 = p2
    t1 = t1
    Goe = Goe
    Wf = Wf
    f1 = f1
    f2 = f2
    Session <- TwoPlain
    SSLSession = {}
    StationId = {Goe, Wf}
    None = None
    InvalidId = InvalidId
    Garbage <- Benign
    Frontend = {f1}
    Requests <- OneStation
    MaxAsked = 1
SPECIFICATION Spec
INVARIANT FoundServesStation
CHECK_DEADLOCK FALSE
