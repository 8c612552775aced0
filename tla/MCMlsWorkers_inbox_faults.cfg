SPECIFICATION Spec
CONSTANTS
    c1 = c1
    c2 = c2
    g1 = g1
    Clients = {c1, c2}
    Groups = {g1}
    Mode = "per_recipient"
    MaxEpoch = 5
    None = None
    MaxCommands = 3
    MaxKeyPackages = 2
    MaxLost = 1
    MaxGiveUps = 1
    JoinsAwaitAdder = FALSE
    AddsAwaitJoin = FALSE
SYMMETRY Symmetry
INVARIANTS
    CommitterKeepsPending
PROPERTIES
    ImplementsHistory
\* A run ends when its bounds are used up.
CHECK_DEADLOCK FALSE
