CONSTANTS
    w1 = w1
    w2 = w2
    Session <- Two
    SSLSession = {w2}
    NoUuid = NoUuid
    None = None
    MaxQueue = 2
    MaxCalls = 1
SPECIFICATION HttpFairSpec
INVARIANTS HttpTypeOK CallbacksReachLive ListedWhileRead
PROPERTIES LeaveNotLast ConnectionReclaimed
\* Every session of the instance may have been destroyed.
CHECK_DEADLOCK FALSE
