------------------------------- MODULE MCLRU -------------------------------
EXTENDS LRU, TLC

BackendSymmetry == Permutations(Backends)
=============================================================================
