------------------------------ MODULE MCSieve ------------------------------
EXTENDS Sieve, TLC

BackendSymmetry == Permutations(Backends)
=============================================================================
