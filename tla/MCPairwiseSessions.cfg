SPECIFICATION Spec
CONSTANTS
    Participants = {a, b, c}
    NoOne = NoOne
    InitialCount = 1
    RefillCount = 1
    LowWatermark = 0
    LastResortId = 4
    MaxEnrolments = 3
    MaxPairs = 3
    MaxLost = 1
SYMMETRY Symmetry
INVARIANTS TypeOK AlwaysABundle OfferedKeysAreStored OneTimeSetsUpOnce FailuresExplained NoHalfOpenSession SessionsAgree LastResortUnused
CHECK_DEADLOCK FALSE
