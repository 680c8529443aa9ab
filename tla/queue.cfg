SPECIFICATION FairQueueSpec
CONSTANTS
    m1 = m1
    m2 = m2
    Msg <- MCMsg
    NoMsg = NoMsg
    MaxSend = 2
    MaxFailures = 2
    MaxStops = 1
CHECK_DEADLOCK FALSE
INVARIANTS
    QueueTypeOK
    OneInFlight
    CopiesNeverMultiply
PROPERTIES
    EventuallySettled
    Delivers
