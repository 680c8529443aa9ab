SPECIFICATION Spec
CONSTANTS
    m1 = m1
    NoMsg = NoMsg
    Msg <- OneMsg
    Parts = 2
    MaxQueue = 3
    MaxSend = 2
    MaxFailures = 1
    MaxStops = 1
CHECK_DEADLOCK FALSE
INVARIANTS
    TypeOK
PROPERTIES
    DeltaDelivers
