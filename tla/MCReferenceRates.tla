-------------------------- MODULE MCReferenceRates --------------------------
\* Small instances of ReferenceRates for TLC.
EXTENDS ReferenceRates, TLC

CONSTANTS p1, p2, p3

ThreadSymmetry == Permutations(Threads)
=============================================================================
