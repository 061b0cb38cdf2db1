CONSTANTS
    Listeners <- FourPorts
    Frontend <- Frontends
    Word = 8
    Requested = {0, 1, 2, 3, 7}
    Hardware = {0, 2}
    MaxWorkers = 2
SPECIFICATION FairSpec
INVARIANTS TypeOK NoHandlerAtExit AsManyThreads AbortExplained PortsAccept ExitTold
PROPERTY SignalEnds
\* The process ends.
CHECK_DEADLOCK FALSE
