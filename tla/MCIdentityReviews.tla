------------------------- MODULE MCIdentityReviews --------------------------
\* Small instances of IdentityReviews for TLC.
EXTENDS IdentityReviews, TLC

CONSTANTS w1, w2

OneTenant == [r \in RunIds |-> "acme"]
\* Claims of the two runs are interleaved in creation order.
Alternating == [c \in Claims |-> IF c % 2 = 1 THEN "r1" ELSE "r2"]

WorkerSymmetry == Permutations(Workers)
=============================================================================
