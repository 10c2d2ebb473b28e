SPECIFICATION FairSpec
CONSTANTS
    MaxMinutes = 2
    MsWrap = 4
    Horizon = 3
    ClockSteps = {"backward"}
INVARIANTS TypeOK TimerGuardsOutput StorageMirrorsRam StaysOff PromiseKept
PROPERTIES AutoOffHappens
