SPECIFICATION Spec
CONSTANTS
    a = a
    b = b
    c = c
    Nodes <- MCNodes
    Hears <- MCHears
    Commands <- MCCommands
    MaxHops = 2
    SeenCapacity = 3
PROPERTIES
    RestartsOnOwnUpdate
