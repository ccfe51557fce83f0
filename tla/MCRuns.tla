------------------------------- MODULE MCRuns -------------------------------
\* Small instances of ResearchRuns for TLC.
EXTENDS ResearchRuns, Functions, TLC

CONSTANTS w1, w2, t1, t2, o1, o2, r1, r2, r3, k1, k2, good, clean, other, broken

OneOwner == o1 :> t1
BothMine == o1 :> t1 @@ o2 :> t1

\* "good" may need verification or, by the time it is evaluated, human review;
\* "other" is about another product; "broken" does not parse.
Outcomes ==
  [b \in Bundles |->
     CASE b = good   -> {"NEEDS_VERIFICATION", "NEEDS_HUMAN_REVIEW"}
       [] b = clean  -> {"NEEDS_HUMAN_REVIEW"}
       [] b = other  -> {"NEEDS_VERIFICATION"}
       [] b = broken -> {}]

AllFits == ({good, clean, broken} \cap Bundles) \X Opportunities

Symmetry ==
  UNION {Permutations(S) : S \in {Workers, RunIds, Keys, Opportunities}}

\* Bounds of the race: one run that supersedes nothing, and what follows of it is
\* the work of its successors; from a sixth committed change on a state is checked
\* but not left.
OneRoot == \A r, s \in DOMAIN runs :
             runs[r].supersedes = NoRun /\ runs[s].supersedes = NoRun => r = s
FewChanges == FoldFunction(LAMBDA events, n : n + Len(events), 0, audit) <= 5
=============================================================================
