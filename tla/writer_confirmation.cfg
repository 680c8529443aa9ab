SPECIFICATION Spec
CONSTANTS
    m1 = m1
    m2 = m2
    m3 = m3
    t1 = t1
    t2 = t2
    NoMsg = NoMsg
    Msg <- TypedAndLegacy
    Task <- TwoTasks
    TaskOf <- DistinctTasks
    Kind <- DistinctKinds
    MaxSend = 1
    MaxFailures = 1
    MaxStops = 0
CHECK_DEADLOCK FALSE
PROPERTY
    ConfirmationIdempotent
