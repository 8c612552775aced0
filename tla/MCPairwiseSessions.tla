------------------------- MODULE MCPairwiseSessions -------------------------
EXTENDS PairwiseSessions, TLC

Symmetry == Permutations(Participants)
=============================================================================
