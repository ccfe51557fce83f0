-------------------------- MODULE MCOpportunities --------------------------
\* Small instances of OpportunityLifecycle for TLC.
EXTENDS OpportunityLifecycle, TLC

CONSTANTS w1, w2

WorkerSymmetry == Permutations(Workers)
=============================================================================
