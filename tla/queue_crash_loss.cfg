SPECIFICATION QueueSpec
CONSTANTS
    m1 = m1
    m2 = m2
    Msg <- OneMsg
    NoMsg = NoMsg
    MaxSend = 1
    MaxFailures = 1
    MaxStops = 0
CHECK_DEADLOCK FALSE
INVARIANT NoLossOnCrash
