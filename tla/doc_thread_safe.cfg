CONSTANTS
    io1 = io1
    io2 = io2
    Thread = {io1, io2}
    None = None
    MaxResponses = 3
SPECIFICATION Spec
INVARIANT QueueServed
\* The queue may be at rest when every response was given.
CHECK_DEADLOCK FALSE
