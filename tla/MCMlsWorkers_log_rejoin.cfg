SPECIFICATION Spec
CONSTANTS
    c1 = c1
    c2 = c2
    g1 = g1
    Clients = {c1, c2}
    Groups = {g1}
    Mode = "group_log"
    MaxEpoch = 5
    None = None
    MaxCommands = 4
    MaxKeyPackages = 2
    MaxLost = 1
    MaxGiveUps = 0
    JoinsAwaitAdder = TRUE
    AddsAwaitJoin = TRUE
SYMMETRY Symmetry
INVARIANTS
    CursorNotAhead
    CanCatchUp
\* A run ends when its bounds are used up.
CHECK_DEADLOCK FALSE
