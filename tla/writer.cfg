SPECIFICATION Spec
CONSTANTS
    m1 = m1
    m2 = m2
    m3 = m3
    t1 = t1
    t2 = t2
    NoMsg = NoMsg
    Msg <- RetryAndMalformed
    Task <- OneTask
    TaskOf <- SharedTask
    Kind <- SharedKinds
    MaxSend = 1
    MaxFailures = 1
    MaxStops = 1
CHECK_DEADLOCK FALSE
INVARIANTS
    AtMostOnceEffect
    TypeOK
    SuccessMeansApplied
PROPERTY
    NoSilentRejection
    ImplementsContract
