\* Three requests, three tokens, every fault.
SPECIFICATION FairSpec
CONSTANTS
    Request = {r1, r2, r3}
    MaxToken = 3
    Failed = Failed
    Unloaded = Unloaded
    Faults = {"keyring", "disk", "cancel"}
INVARIANTS
    TypeOK
    StoreFollowsMemory
    LogoutForgets
PROPERTIES
    LoginReturns
\* a command that has exited stops
CHECK_DEADLOCK FALSE
