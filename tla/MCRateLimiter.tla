--------------------------- MODULE MCRateLimiter ---------------------------
\* Small instances of TenantRateLimiter for TLC.
EXTENDS TenantRateLimiter, TLC

CONSTANTS p1, p2, p3

ThreadSymmetry == Permutations(Threads)
=============================================================================
