SPECIFICATION FairSpec
CONSTANTS
    t1 = t1
    t2 = t2
    c1 = c1
    v1 = v1
    v2 = v2
    Turn = {t1, t2}
    Chat = {c1}
    Vault = {v1, v2}
    ChatOf <- ChainChatOf
    VaultOf <- ChainVaultOf
    DelegateVault <- ChainDelegate
    NoTurn = NoTurn
    NoVault = NoVault
    MaxAttempts = 2
    MaxCalls = 1
    MaxCancels = 1
INVARIANTS TypeOK VaultExclusive NothingHeld InterruptedForACause
PROPERTY TurnEnds
CHECK_DEADLOCK FALSE
