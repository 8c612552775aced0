SPECIFICATION FairSpec
CONSTANTS
    a = a
    b = b
    c = c
    d = d
    Workers <- ThreeWorkers
    MaxPlateaus = 3
    MaxSends = 1
    MaxFaults = 2
    MaxLost = 0
CHECK_DEADLOCK FALSE
PROPERTY RefreshEnds
INVARIANT AttritionSurvived
