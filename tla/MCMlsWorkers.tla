---------------------------- MODULE MCMlsWorkers ----------------------------
EXTENDS MlsWorkers, TLC

Symmetry == Permutations(Clients)
=============================================================================
