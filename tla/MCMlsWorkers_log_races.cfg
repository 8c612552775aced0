SPECIFICATION Spec
CONSTANTS
    c1 = c1
    c2 = c2
    c3 = c3
    g1 = g1
    Clients = {c1, c2, c3}
    Groups = {g1}
    Mode = "group_log"
    MaxEpoch = 3
    None = None
    MaxCommands = 3
    MaxKeyPackages = 1
    MaxLost = 0
    MaxGiveUps = 0
    JoinsAwaitAdder = TRUE
    AddsAwaitJoin = FALSE
SYMMETRY Symmetry
INVARIANTS
    TypeOK
    RecipientsAreMembers
    LogInEpochOrder
PROPERTIES
    ImplementsHistory
\* A run ends when its bounds are used up.
CHECK_DEADLOCK FALSE
