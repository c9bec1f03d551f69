---------------------------- MODULE MCClockSweep ----------------------------
EXTENDS ClockSweep, TLC

BackendSymmetry == Permutations(Backends)

\* The sweep counts complete passes and never reads the count.
WithoutPasses == <<clientVars, nextVictimBuffer, expected, scanVars>>
=============================================================================
