SPECIFICATION FairSpec
CONSTANTS
    Servers = {s1, s2}
    JoinMayFail = FALSE
INVARIANTS
    TypeOK
    NothingUntold
    ServerInSync
PROPERTIES
    ListenersAreTold
