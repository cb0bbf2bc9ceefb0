SPECIFICATION Spec
CONSTANTS
    Delay = 1
    MaxEnds = 2
    MaxFailed = 2
    MaxFaults = 1
INVARIANTS
    NeverPanics
