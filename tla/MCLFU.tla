------------------------------- MODULE MCLFU -------------------------------
EXTENDS LFU, TLC

BackendSymmetry == Permutations(Backends)
=============================================================================
