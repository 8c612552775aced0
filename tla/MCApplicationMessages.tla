----------------------- MODULE MCApplicationMessages -----------------------
EXTENDS ApplicationMessages, TLC

Symmetry == Permutations(Clients)
=============================================================================
