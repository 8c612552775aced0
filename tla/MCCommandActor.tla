--------------------------- MODULE MCCommandActor ---------------------------
EXTENDS CommandActor, TLC

Symmetry == Permutations(Requests)
=============================================================================
