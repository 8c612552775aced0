SPECIFICATION DsSpec
CONSTANTS
    Clients = {c1, c2, c3}
    Groups = {g1}
    Commits = {k1}
    Mode = "per_recipient"
    MaxEpoch = 2
    None = None
SYMMETRY Symmetry
INVARIANTS
    EpochChain
    DeliveredExactlyOnce
    RedeliveredUntilAcked
