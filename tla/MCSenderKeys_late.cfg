SPECIFICATION Spec
CONSTANTS
    a = a
    b = b
    c = c
    d = d
    Workers <- ThreeWorkers
    MaxPlateaus = 3
    MaxSends = 2
    MaxFaults = 0
    MaxLost = 1
CHECK_DEADLOCK FALSE
INVARIANT OnlyRecipientsCanOpen
INVARIANT CompletedIsRead
