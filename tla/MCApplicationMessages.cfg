SPECIFICATION FairSpec
CONSTANTS
    a = a
    b = b
    Clients = {a, b}
    None = None
    Founder = a
    Tolerance = 2
    Forward = 1
    MaxEpoch = 2
    MaxSends = 3
    MaxLost = 1
INVARIANTS
    WindowExact OnlyCopiesBlock
PROPERTIES
    KeyUsedOnce OpenedOnce FrontServed
\* A run ends when its bounds are used up.
CHECK_DEADLOCK FALSE
