SPECIFICATION FairSpec
CONSTANTS
    Servers = {s1}
    JoinMayFail = TRUE
PROPERTIES
    OpenSessionIsUsed
