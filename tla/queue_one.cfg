CONSTANTS
    io1 = io1
    io2 = io2
    Thread = {io1}
    None = None
    MaxResponses = 8
SPECIFICATION FairSpec
INVARIANT QueueServed
PROPERTIES ChannelSpec AllDelivered
\* The queue may be at rest when every response was given.
CHECK_DEADLOCK FALSE
