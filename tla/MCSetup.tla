------------------------------ MODULE MCSetup -------------------------------
EXTENDS Setup, TLC
CONSTANTS m1, m2, me, work
Symmetry == Permutations({m1, m2})
=============================================================================
