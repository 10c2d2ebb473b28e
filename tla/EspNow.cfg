SPECIFICATION FairSpec
CONSTANTS
    a = a
    b = b
    c = c
    Nodes <- MCNodes
    Hears <- MCHears
    Commands <- MCCommands
    MaxHops = 2
    SeenCapacity = 3
INVARIANTS
    TypeOK
PROPERTIES
    ImplementsOtaService
    FloodEnds
