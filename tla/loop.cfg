SPECIFICATION FairSpec
CONSTANTS
    p1 = p1
    Poller = {p1}
    Commands = {"idle", "clock", "off"}
    MaxRequests = 1
    MaxFaults = 2
    MaxQueue = 2
CHECK_DEADLOCK FALSE
INVARIANTS
    TypeOK
    NothingLeftPending
PROPERTY
    KeepsTicking
