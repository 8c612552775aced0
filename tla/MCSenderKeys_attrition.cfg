SPECIFICATION Spec
CONSTANTS
    a = a
    b = b
    c = c
    d = d
    Workers <- FourWorkers
    MaxPlateaus = 2
    MaxSends = 2
    MaxFaults = 2
    MaxLost = 0
CHECK_DEADLOCK FALSE
INVARIANT TypeOK
INVARIANT AttritionSurvived
INVARIANT ReadyForTraffic
INVARIANT OnlyRecipientsCanOpen
