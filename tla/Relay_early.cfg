SPECIFICATION Spec
CONSTANTS
    MaxMinutes = 2
    MsWrap = 12
    Horizon = 5
    ClockSteps = {"forward"}
INVARIANTS PromiseKept
