SPECIFICATION DsSpec
CONSTANTS
    Clients = {c1, c2}
    Groups = {g1}
    Commits = {k1, k2}
    Mode = "group_log"
    MaxEpoch = 2
    None = None
INVARIANTS
    LoggedExactlyOnce
PROPERTIES
    CursorsNeverMoveBack
