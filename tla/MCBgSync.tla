------------------------------ MODULE MCBgSync ------------------------------
EXTENDS BgSync, TLC

BackendSymmetry == Permutations(Backends)
=============================================================================
