SPECIFICATION FairSpec
CONSTANTS
    r1 = r1
    r2 = r2
    Requests = {r1, r2}
    MaxAttempts = 2
    Capacity = 1
    MaxEntries = 2
    Ttl = 1
    MaxTime = 3
    None = None
INVARIANTS
    CacheExact
    NoExpiredReplay
    ExecutedOnce
    AnswersAgree
PROPERTIES
    EveryCallEnds
\* All calls have ended and the clock is at its bound.
CHECK_DEADLOCK FALSE
