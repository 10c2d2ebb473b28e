SPECIFICATION Spec
CONSTANTS
    FieldCount = 2
    Values = {0, 1}
    ValidRecords <- MCValidRecords
    Default <- MCDefault
    Edits <- MCEdits
    GenMod = 5
INVARIANTS
    BootLoadsCalibration
