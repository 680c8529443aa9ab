SPECIFICATION FairSpec
CONSTANTS
    t1 = t1
    t2 = t2
    t3 = t3
    c1 = c1
    v1 = v1
    Turn = {t1, t2, t3}
    Chat = {c1}
    Vault = {v1}
    ChatOf <- OneChatOf
    StreamOf <- OneStreamOf
    System = {t3}
    LockFree = {t3}
    Client = {t2}
    Folding = {t1}
    Trusted = {t1, t2}
    VaultOf <- OneVaultOf
    NoTurn = NoTurn
    NoVault = NoVault
    MaxKept = 2
    MaxFaults = 1
INVARIANTS TypeOK SerializedWhileGuarded BusyOnlyAfterAbort CancelReachesGraph MisplacedOnlyByOverlap
PROPERTIES LostOnlyByOverlap ComesToRest
CHECK_DEADLOCK FALSE
