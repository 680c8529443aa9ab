SPECIFICATION FairSpec
CONSTANTS
    p1 = p1
    p2 = p2
    x1 = x1
    Update = {p1, p2, x1}
    Photo = {p1, p2}
    Modes = {"inline", "parallel", "queue"}
    Nobody = Nobody
    MaxInBatch = 3
    MaxTries = 2
    MaxResends = 1
    MaxFaults = 1
INVARIANTS TypeOK OneTurn OneBatch TextIsCarried
PROPERTIES ComesToRest
CHECK_DEADLOCK FALSE
