CONSTANTS
    Names = {homerelay, pump}
    DefaultName = homerelay
    None = None
    Versions <- ThreeReleases
    FirstVersion <- Shipped
    MaxEvents = 4
SPECIFICATION FairSpec
INVARIANTS TypeOK
PROPERTIES NeverOlder RestartHappens ServicesComeUp
