CONSTANTS
    Debounce = 2
    Hold = 3
    Bounce = 1
    BootTicks = 2
    PresentSamples = 2
    AbsentSamples = 2
    MinRaw = 0
    MaxRaw = 3
    Raws = {0, 1, 2}
    Temps = {0, 1}
    MaxHistory = 5
SPECIFICATION InputsSpec
INVARIANTS ButtonsTypeOK AnswersAPress ProbeTypeOK ReadingMatchesHistory DisabledReadsNothing
PROPERTIES SeenHoldIsReal
