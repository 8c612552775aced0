SPECIFICATION Spec
CONSTANTS
    a = a
    b = b
    c = c
    d = d
    Workers <- ThreeWorkers
    MaxPlateaus = 1
    MaxSends = 1
    MaxFaults = 2
    MaxLost = 0
CHECK_DEADLOCK FALSE
INVARIANT OnlyFailingDropped
